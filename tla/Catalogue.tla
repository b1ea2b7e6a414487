------------------------------ MODULE Catalogue ------------------------------
(***************************************************************************)
(* What a package registry promises: a version is published once, its      *)
(* archive never changes, and a publisher that was told "created" finds    *)
(* its archive there for ever.  RegistryStore, the file-backed store with  *)
(* its crashes, is shown to implement this module.                         *)
(***************************************************************************)
CONSTANTS Publisher,   \* uploads, each with its own archive
          VerOf,       \* the version an upload is for
          Version,
          NoFile

VARIABLES archive,   \* the archive downloads of each version get
          yanked,    \* versions taken back
          acked      \* uploads that were told "created"

cvars == <<archive, yanked, acked>>

CInit == /\ archive = [v \in Version |-> NoFile]
         /\ yanked = {}
         /\ acked = {}

Publish(p) == /\ archive[VerOf[p]] = NoFile
              /\ archive' = [archive EXCEPT ![VerOf[p]] = p]
              /\ UNCHANGED <<yanked, acked>>

Acknowledge(p) == /\ archive[VerOf[p]] = p
                  /\ acked' = acked \union {p}
                  /\ UNCHANGED <<archive, yanked>>

SetYanked(v) == /\ archive[v] # NoFile
                /\ yanked' \in {yanked \union {v}, yanked \ {v}}
                /\ UNCHANGED <<archive, acked>>

CNext == \/ \E p \in Publisher : Publish(p) \/ Acknowledge(p)
         \/ \E v \in Version : SetYanked(v)

CSpec == CInit /\ [][CNext]_cvars
==============================================================================
