-------------------------- MODULE MemoryContract --------------------------
(***************************************************************************)
(* What the service promises about the stored table, whatever the number   *)
(* of clients, threads and processes behind it: between two states that    *)
(* another connection can see, exactly one of three things has happened.   *)
(*                                                                         *)
(*   - some memories were created, all at once;                            *)
(*   - one live memory was revised or retired: its body really changed,    *)
(*     its version grew by one, its updated_at did not go back;            *)
(*   - some memories were accessed: nothing but their last_accessed_at     *)
(*     changed, and it became the same instant for all of them.            *)
(*                                                                         *)
(* So a row never disappears, an id never changes hands, a retired memory  *)
(* stays retired with the body it had, and no two versions share a number. *)
(* The changes are relations between two tables, t before and u after, so  *)
(* that MemoryStore can also state them of a transaction in progress.      *)
(***************************************************************************)
EXTENDS MemoryModel

CONSTANT Seeds  \* the tables a deployment can start from

VARIABLE table

Extends(t, u) ==
    /\ Len(t) <= Len(u)
    /\ \A i \in 1 .. Len(t) : u[i] = t[i]
    /\ \A i \in Len(t) + 1 .. Len(u) :
          /\ u[i].body \in NewBody
          /\ u[i] = NewMemory(i, u[i].body, u[i].created_at)

Revises(t, u) ==
    /\ Len(u) = Len(t)
    /\ \E i \in 1 .. Len(t) :
          /\ Visible(t[i])
          /\ u[i].body \in Body \ {t[i].body}
          /\ u[i].updated_at >= t[i].updated_at
          /\ u[i] = Revised(t[i], u[i].body, u[i].updated_at)
          /\ \A j \in 1 .. Len(t) : j # i => u[j] = t[j]

Accesses(t, u) ==
    /\ Len(u) = Len(t)
    /\ \A i \in 1 .. Len(t) : u[i] \in {t[i], Accessed(t[i], u[i].last_accessed_at)}
    /\ \A i, j \in 1 .. Len(t) :
          u[i] # t[i] /\ u[j] # t[j] => u[i].last_accessed_at = u[j].last_accessed_at

Change(t, u) == Extends(t, u) \/ Revises(t, u) \/ Accesses(t, u)

Init == table \in Seeds
Next == Change(table, table')
Spec == Init /\ [][Next]_table
=============================================================================
