---------------------------- MODULE MCHrxRuntime ----------------------------
(* HrxRuntime for TLC: what a GPU driver may report, and symmetry.          *)
EXTENDS HrxRuntime, TLC

\* No device, only the all-GPUs pseudo-device, physical devices with pseudo-devices
\* before and between them, and more physical devices than fit.
Reports == {<<>>, <<FALSE>>, <<FALSE, TRUE, FALSE, TRUE>>, <<TRUE, TRUE, TRUE>>}

\* More physical devices than fit, for HRX_MAX_DEVICES = 1.
Crowded == {<<FALSE, TRUE, TRUE>>}

Interchangeable == Permutations(Clients) \cup Permutations(Devices) \cup Permutations(Objects)
====
