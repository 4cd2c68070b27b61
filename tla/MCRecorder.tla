----------------------------- MODULE MCRecorder -----------------------------
(* Two scenes that share the constants: names without data, and data under   *)
(* one name.                                                                 *)
EXTENDS Recorder

\* Two directories with room for one entry each; the name of one begins like the
\* other's.
TreePaths == {<<"/a">>, <<"/a", "/f">>, <<"/a", "b">>, <<"/a", "b", "/f">>}

VARIABLE scene

\* One descriptor, no mapping, and files that stay empty.
NamesOnly == /\ files'[Max(Fd)] = None
             /\ \A s \in Slot : mapped'[s] = None
             /\ \A i \in Inode : node'[i].size = 0

\* One name, which a rename can only keep.
DataOnly == /\ \A p \in Paths \ {<<"/a">>} : tree'[p] = None
            /\ \A fd \in DOMAIN fd_map_' : Len(fd_map_'[fd]) <= 1

Names == /\ scene = "names"
         /\ (\E p \in Paths : Name(p)) \/ Descriptor(Min(Fd)) \/ CmSync \/ CmCheckpoint
         /\ NamesOnly

Data == /\ scene = "data"
        /\ \/ Name(<<"/a">>) \/ CmSync \/ CmCheckpoint
           \/ \E fd \in Fd : Descriptor(fd)
           \/ \E s \in Slot : Mapped(s)
        /\ DataOnly

Scenes == (scene \in {"names", "data"} /\ Init)
          /\ [][(Names \/ Data) /\ scene' = scene]_<<vars, scene>>
=============================================================================
