---------------------------- MODULE ItemMetadata ----------------------------
(***************************************************************************)
(* src/monitor/mod.rs: what a monitor remembers about a changed item.  *)
(*                                                                         *)
(* The struct ItemMetadata holds four booleans; here it is the set of the  *)
(* flags that are true.  The options that say what is tracked              *)
(* (MonitorOptions.creation, .modification, .deletion, .renaming) are the  *)
(* set of the flags they enable.  A BTreeMap<PathBuf, ItemMetadata> is a   *)
(* total function on paths, NoFlags standing for "no entry": every monitor *)
(* tests is_empty() before it touches the map, so the code never stores an *)
(* entry without a flag.                                                   *)
(***************************************************************************)

Flags == {"created", "modified", "deleted", "renamed"}

ItemMetadata == SUBSET Flags

NoFlags == {}

\* ItemMetadata::is_empty
IsEmpty(meta) == meta = NoFlags

\* ItemMetadata::merge, `self.x |= other.x` for every flag.
Merge(meta, other) == meta \cup other

\* `map.entry(key).or_default().merge(&meta)`
MergeEntry(map, key, meta) == [map EXCEPT ![key] = Merge(@, meta)]

=============================================================================
