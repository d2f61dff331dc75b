------------------------------ MODULE HrxCodes ------------------------------
(***************************************************************************)
(* The conversions of libhrx at the boundary with IREE, with the widths    *)
(* the code computes in: status codes, timeouts, and the range check of    *)
(* the host transfers (common.rs, semaphore.rs, fence.rs, buffer.rs in     *)
(* crates/hrx-libhrx/src, init.rs in crates/iree-sys/src).                 *)
(***************************************************************************)
EXTENDS Integers

CONSTANT SignBit    \* 2^63, the value of the top bit of u64 and usize

\* A word has a bit besides the top one.
ASSUME SignBitAssumption == SignBit \in Nat /\ SignBit > 1

WordMax == 2 * SignBit - 1
Word == 0 .. WordMax

\* Reinterprets a word as a signed one, as the cast to i64 does.
AsSigned(u) == IF u < SignBit THEN u ELSE u - 2 * SignBit

(***************************************************************************)
(* Status codes.                                                           *)
(***************************************************************************)
\* Codes of HrxStatusCode, which IREE numbers alike.
Ok == 0
InvalidArgument == 3
DeadlineExceeded == 4
OutOfMemory == 8
Aborted == 10
Internal == 13

\* IREE's name for its code 8.
ResourceExhausted == 8

HrxStatusCode == 0 .. 15

\* IREE's codes are what IREE_STATUS_CODE_MASK leaves of a status.
IreeStatusCode == 0 .. 31

\* The codes the match lists keep their number, with RESOURCE_EXHAUSTED read
\* as OUT_OF_MEMORY; every other one is INTERNAL.
hrx_code_from_iree(iree) ==
    IF iree \in {3, 4, 5, 6, 8, 11, 12, 14} THEN iree ELSE Internal

\* The codes a status made for code may have: without memory for the payload it is
\* the null pointer, which reads as OK.
hrx_make_status(code) == IF code = Ok THEN {Ok} ELSE {code, Ok}

\* OK has no payload and is not converted.
hrx_status_from_iree(iree) ==
    IF iree = Ok THEN {Ok} ELSE hrx_make_status(hrx_code_from_iree(iree))

\* Codes keep their number, with OUT_OF_MEMORY as RESOURCE_EXHAUSTED.
hrx_status_to_iree(code) == IF code = OutOfMemory THEN ResourceExhausted ELSE code

(***************************************************************************)
(* Timeouts.                                                               *)
(***************************************************************************)
Infinite == [type |-> "absolute", nanos |-> "infinite_future"]
Immediate == [type |-> "absolute", nanos |-> "infinite_past"]
Relative(ns) == [type |-> "relative", nanos |-> ns]

\* Variant: every value that is negative as an i64 is infinite.
NegativeIsInfinite(timeout_ns) ==
    IF AsSigned(timeout_ns) < 0 THEN Infinite
    ELSE IF timeout_ns = 0 THEN Immediate
    ELSE Relative(timeout_ns)

\* Variant: the largest value is not special, and -1 nanoseconds as an i64.
NoInfinite(timeout_ns) ==
    IF timeout_ns = 0 THEN Immediate ELSE Relative(AsSigned(timeout_ns))

\* The timeout hrx_semaphore_wait and hrx_fence_wait give IREE.
ToTimeout(timeout_ns) ==
    IF timeout_ns = WordMax THEN Infinite
    ELSE IF timeout_ns = 0 THEN Immediate
    ELSE Relative(AsSigned(timeout_ns))

(***************************************************************************)
(* Host transfers.                                                         *)
(***************************************************************************)
\* The test of hrx_synchronous_h2d and hrx_synchronous_d2h; the sum wraps in a build
\* without overflow checks.
TransferAccepted(offset, size, bufferSize) == ~((offset + size) % (2 * SignBit) > bufferSize)

=============================================================================
