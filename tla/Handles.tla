------------------------------- MODULE Handles -------------------------------
(***************************************************************************)
(* The verbs of entity handles in compiled code, and the native functions  *)
(* they lower to (src/cimba/compiler/handles.py). A verb is a function     *)
(* from the handle members it is defined for to the native function.       *)
(***************************************************************************)
EXTENDS Integers, Sequences

(* entity_handle: the member of a record that holds an entity.              *)
Handle_Unordered(annotation, models) ==
  CASE annotation.origin = "Container" -> "container"
    [] annotation.origin = "Resource"  -> "resource"
    [] OTHER                           -> "store_model"
Handle(annotation, models) ==
  CASE annotation.origin = "Container"           -> "container"
    [] annotation.origin = "FractionalContainer" -> "fractional"
    [] annotation.origin = "Resource"            -> "resource"
    [] annotation.origin = "Dataset"             -> "dataset"
    [] annotation.origin = "Condition"           -> "condition"
    [] annotation.origin = "Store"               ->
         (CASE annotation.arg = "int"     -> "store_int"
            [] annotation.arg = "float"   -> "store_float"
            [] annotation.arg \in models -> "store_model")
    [] annotation.origin = "PriorityStore"       ->
         (CASE annotation.arg = "int"     -> "priority_int"
            [] annotation.arg = "float"   -> "priority_float"
            [] annotation.arg \in models -> "priority_model")

(* Snapshot._descriptors: the code of the kind of entity the trial makes.   *)
Created(annotation) ==
  CASE annotation.origin = "Container"           -> 1
    [] annotation.origin = "Resource"            -> 2
    [] annotation.origin = "Dataset"             -> 3
    [] annotation.origin = "Store"               -> 4
    [] annotation.origin = "PriorityStore"       -> 5
    [] annotation.origin = "Condition"           -> 6
    [] annotation.origin = "FractionalContainer" -> 7

-----------------------------------------------------------------------------
(* Verbs of levels and stores *)

Put ==
  [container      |-> "cpy_buffer_put",         fractional     |-> "cpy_fractional_put",
   store_int      |-> "cpy_store_put_int",      store_float    |-> "cpy_store_put_float",
   priority_int   |-> "cpy_priority_put_int",   priority_float |-> "cpy_priority_put_float",
   store_model    |-> "cpy_store_put_model",    priority_model |-> "cpy_priority_put_model"]
Enqueue  == [priority_model |-> "cpy_priority_enqueue_model"]
Cancel   == [priority_model |-> "cpy_priority_cancel"]
Position == [priority_model |-> "cpy_priority_position"]
Length   == [priority_model |-> "cpy_priority_length", store_model |-> "cpy_store_length"]
Get ==
  [container      |-> "cpy_buffer_get",         fractional     |-> "cpy_fractional_get",
   store_int      |-> "cpy_store_get_int",      store_float    |-> "cpy_store_get_float",
   priority_int   |-> "cpy_priority_get_int",   priority_float |-> "cpy_priority_get_float",
   store_model    |-> "cpy_store_get_model",    priority_model |-> "cpy_priority_get_model"]
Levels ==
  [mean_level |-> [container |-> "cpy_buffer_mean_level",
                   fractional |-> "cpy_fractional_mean_level"],
   max_level  |-> [container |-> "cpy_buffer_history",     (* its timeseries *)
                   fractional |-> "cpy_fractional_max_level"],
   round      |-> [fractional |-> "cpy_fractional_round"],
   level      |-> [container |-> "cpy_buffer_level", fractional |-> "cpy_fractional_level"]]

(* Verbs of resources: a request has a priority of its own, or its process's *)
Acquire(ranked) ==
  [resource |-> IF ranked THEN "cpy_resource_acquire_ranked" ELSE "cpy_resource_acquire"]
Preempt(ranked) ==
  [resource |-> IF ranked THEN "cpy_resource_preempt_ranked" ELSE "cpy_resource_preempt"]
AcquireAny == [resource |-> "cpy_resource_acquire_any"]
Pool ==
  [held          |-> [resource |-> "cpy_resourcepool_held"],
   release       |-> [resource |-> "cpy_resource_release"],
   mean_in_use   |-> [resource |-> "cpy_resourcepool_mean_in_use"],
   available     |-> [resource |-> "cpy_resourcepool_available"],
   capacity      |-> [resource |-> "cpy_resourcepool_capacity"],
   mean_capacity |-> [resource |-> "cpy_resourcepool_mean_capacity"],
   utilization   |-> [resource |-> "cpy_resourcepool_utilization"]]
SetCapacity == [resource |-> "cpy_resource_set_capacity"]

Datasets ==
  [record       |-> [dataset |-> "cmb_dataset_add"],
   sample_mean  |-> [dataset |-> "cpy_dataset_mean"],
   sample_count |-> [dataset |-> "cpy_dataset_count"],
   sample_max   |-> [dataset |-> "cpy_dataset_max"]]
Conditions ==
  [wait_until |-> [condition |-> "cpy_condition_wait_until"],
   signal     |-> [condition |-> "cpy_condition_signal"]]

Requests ==
  [put |-> Put, enqueue |-> Enqueue, cancel |-> Cancel, position |-> Position,
   length |-> Length, get |-> Get, acquire |-> Acquire(FALSE),
   acquire_ranked |-> Acquire(TRUE), preempt |-> Preempt(FALSE),
   preempt_ranked |-> Preempt(TRUE), set_capacity |-> SetCapacity]
Tables == {Requests, Levels, Pool, Datasets, Conditions}
Verbs == [verb \in UNION {DOMAIN table : table \in Tables} |->
            (CHOOSE table \in Tables : verb \in DOMAIN table)[verb]]

-----------------------------------------------------------------------------
(* The native functions, as declared to the compiler: the kinds of entity   *)
(* they take. A fractional container starts with its buffer.                *)
TakesBuffer     == {"cpy_buffer_put", "cpy_buffer_get", "cpy_buffer_mean_level",
                    "cpy_buffer_level", "cpy_buffer_history"}
TakesFractional == {"cpy_fractional_put", "cpy_fractional_get", "cpy_fractional_round",
                    "cpy_fractional_level", "cpy_fractional_mean_level",
                    "cpy_fractional_max_level"}
TakesPool       == {"cpy_resource_acquire", "cpy_resource_preempt", "cpy_resource_acquire_ranked",
                    "cpy_resource_preempt_ranked", "cpy_resource_acquire_any",
                    "cpy_resourcepool_held", "cpy_resource_release",
                    "cpy_resourcepool_available", "cpy_resourcepool_mean_in_use",
                    "cpy_resourcepool_mean_capacity", "cpy_resourcepool_utilization",
                    "cpy_resourcepool_capacity", "cpy_resource_set_capacity"}
TakesDataset    == {"cmb_dataset_add", "cpy_dataset_mean", "cpy_dataset_count",
                    "cpy_dataset_max"}
TakesStore      == {"cpy_store_put_int", "cpy_store_get_int", "cpy_store_put_float",
                    "cpy_store_get_float", "cpy_store_put_model", "cpy_store_get_model",
                    "cpy_store_length"}
TakesPriority   == {"cpy_priority_put_int", "cpy_priority_get_int", "cpy_priority_put_float",
                    "cpy_priority_get_float", "cpy_priority_put_model",
                    "cpy_priority_get_model", "cpy_priority_enqueue_model",
                    "cpy_priority_cancel", "cpy_priority_position", "cpy_priority_length"}
TakesCondition  == {"cpy_condition_wait_until", "cpy_condition_signal"}
Takes(fn) ==
  CASE fn \in TakesBuffer     -> {1, 7}
    [] fn \in TakesFractional -> {7}
    [] fn \in TakesPool       -> {2}
    [] fn \in TakesDataset    -> {3}
    [] fn \in TakesStore      -> {4}
    [] fn \in TakesPriority   -> {5}
    [] fn \in TakesCondition  -> {6}

=============================================================================
