---------------------------- MODULE MessageStore ----------------------------
(***************************************************************************)
(* What the storage promises its callers, without database objects,        *)
(* handles, locks or calls: each folder is a set of messages, some of them *)
(* durable.  Messages are saved one at a time; none goes away while the    *)
(* process lives but for another one saved under its id, and when the      *)
(* process ends the durable ones stay.                                     *)
(***************************************************************************)
CONSTANT Folders

VARIABLES
  up,     (* the process is running                                         *)
  shown,  (* folder -> the messages a reader finds                          *)
  kept    (* folder -> the messages that outlive the process                *)

Init ==
  /\ up = TRUE
  /\ shown = [f \in Folders |-> {}]
  /\ kept = [f \in Folders |-> {}]

Replace(messages, m) == {x \in messages : x.id # m.id} \cup {m}

Save(f, m, durable) ==
  /\ up
  /\ shown' = [shown EXCEPT ![f] = Replace(@, m)]
  /\ kept' = IF durable THEN [kept EXCEPT ![f] = Replace(@, m)] ELSE kept
  /\ UNCHANGED up

(* Some folders are written out. *)
Persist(F) ==
  /\ up
  /\ kept' = [f \in Folders |-> IF f \in F THEN shown[f] ELSE kept[f]]
  /\ UNCHANGED <<up, shown>>

End ==
  /\ up
  /\ up' = FALSE
  /\ shown' = kept
  /\ UNCHANGED kept

Begin ==
  /\ ~ up
  /\ up' = TRUE
  /\ UNCHANGED <<shown, kept>>

(* Any message may be saved: what it is can be seen from the result. *)
Next ==
  \/ \E f \in Folders, durable \in BOOLEAN :
       \E m \in shown'[f] : Save(f, m, durable)
  \/ \E F \in SUBSET Folders : Persist(F)
  \/ End
  \/ Begin

Spec == Init /\ [][Next]_<<up, shown, kept>>

=============================================================================
