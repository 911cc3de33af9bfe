--------------------------- MODULE ReindexedTable ---------------------------
(***************************************************************************)
(* IndexMap and ReindexedTable (src/cpp/dataset/base/reindexed_table.h):   *)
(* rows are numbered from 0 as they are loaded, and two maps lead from     *)
(* these internal ids to the ids of the dataset and back.  Of a table only *)
(* its size and its maps are kept; what is in a row is not.                *)
(***************************************************************************)
EXTENDS Integers, Sequences

NewMap == [forward |-> << >>, backward |-> << >>]
NewTable == [size |-> 0, map |-> NewMap]

(* A row beyond the end fills what lies between with -1.                   *)
UpdateForward(forward, external_id, internal_id) ==
  IF internal_id < Len(forward)
  THEN [forward EXCEPT ![internal_id + 1] = external_id]
  ELSE [i \in 1..(internal_id + 1) |->
          IF i <= Len(forward) THEN forward[i]
          ELSE IF i = internal_id + 1 THEN external_id ELSE -1]

(* An id that is there already leads to its last row.                      *)
UpdateBackward(backward, external_id, internal_id) ==
  [id \in DOMAIN backward \union {external_id} |->
     IF id = external_id THEN internal_id ELSE backward[id]]

(* A mutant: the map back counts from 1.                                   *)
Update_OneUp(map, external_id, internal_id) ==
  [forward |-> UpdateForward(map.forward, external_id, internal_id),
   backward |-> UpdateBackward(map.backward, external_id, internal_id + 1)]

Update(map, external_id, internal_id) ==
  [forward |-> UpdateForward(map.forward, external_id, internal_id),
   backward |-> UpdateBackward(map.backward, external_id, internal_id)]

Add(table, external_id) ==
  [size |-> table.size + 1,
   map |-> Update(table.map, external_id, table.size)]

(* ReadBinaryTable: a row is added for each record of the file.            *)
AddAll(table, external_ids) ==
  LET Added[k \in 0..Len(external_ids)] ==
        IF k = 0 THEN table ELSE Add(Added[k - 1], external_ids[k])
  IN  Added[Len(external_ids)]

HasExternalId(table, external_id) == external_id \in DOMAIN table.map.backward
Internalize(table, external_id) == table.map.backward[external_id]
Externalize(table, internal_id) == table.map.forward[internal_id + 1]
=============================================================================
