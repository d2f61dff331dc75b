---------------------------- MODULE MCHrxObjects ----------------------------
(***************************************************************************)
(* Instances of HrxObjects for TLC.                                        *)
(***************************************************************************)
EXTENDS HrxObjects, TLC

\* Creations that follow one another; retain, release, unmap, push, fence
\* insertion and shutdown may come anywhere between them.
MCPlans == {
    <<"hrx_allocator_allocate_buffer", "hrx_buffer_map", "hrx_buffer_get_device_ptr">>,
    <<"hrx_allocator_import_buffer", "hrx_buffer_view_create", "hrx_value_list_create">>,
    <<"hrx_allocator_virtual_memory_reserve", "hrx_buffer_get_device_ptr",
      "hrx_buffer_view_create">>,
    <<"hrx_semaphore_create", "hrx_fence_create_at", "hrx_fence_create">>,
    <<"hrx_buffer_allocate", "hrx_buffer_map">>,
    <<"hrx_buffer_allocate", "hrx_buffer_view_create">>,
    <<"hrx_module_load_vmfb", "hrx_module_load_vmfb">>,
    <<"hrx_module_load_vmfb", "hrx_module_lookup_function", "hrx_value_list_create",
      "hrx_function_invoke">>,
    <<"hrx_executable_load_data", "hrx_allocator_retain">>,
    <<"hrx_executable_load_file", "hrx_semaphore_create">> }

\* A buffer and a view on it.
MCEscapePlan == { <<"hrx_allocator_allocate_buffer", "hrx_buffer_view_create">> }

ClientSymmetry == Permutations(Clients)

=============================================================================
