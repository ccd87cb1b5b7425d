-------------------------- MODULE BindingLifecycle --------------------------
(***************************************************************************)
(* What the operator promises to the owner of an SPIAccessTokenBinding,    *)
(* without controllers, queues, failures and restarts: one binding takes   *)
(* one step at a time.                                                     *)
(***************************************************************************)
CONSTANT Bindings

VARIABLES
  st,      \* none, live, deleting or gone
  guarded, \* the finalizer that cleans up is in place
  tied,    \* both links to the token are on the server
  filled   \* there are secrets with token data

lifecycle == <<st, guarded, tied, filled>>

Init ==
  /\ st \in [Bindings -> {"none", "live"}]
  /\ guarded \in [Bindings -> BOOLEAN]
  /\ \A b \in Bindings : guarded[b] => st[b] = "live"
  /\ tied = [b \in Bindings |-> FALSE] /\ filled = [b \in Bindings |-> FALSE]

Present(b) == st[b] \in {"live", "deleting"}

Create(b) == st[b] = "none" /\ st' = [st EXCEPT ![b] = "live"] /\ UNCHANGED <<guarded, tied, filled>>

\* From here on the binding cannot go before its secrets.
Guard(b) ==
  /\ st[b] = "live" /\ ~guarded[b] /\ guarded' = [guarded EXCEPT ![b] = TRUE]
  /\ UNCHANGED <<st, tied, filled>>

Tie(b) ==
  /\ Present(b) /\ tied' = [tied EXCEPT ![b] = ~tied[b]]
  /\ UNCHANGED <<st, guarded, filled>>

\* Only a binding that is guarded and tied gets token data.
Fill(b) ==
  /\ Present(b) /\ guarded[b] /\ tied[b] /\ filled' = [filled EXCEPT ![b] = TRUE]
  /\ UNCHANGED <<st, guarded, tied>>

Empty(b) == filled' = [filled EXCEPT ![b] = FALSE] /\ UNCHANGED <<st, guarded, tied>>

Delete(b) ==
  /\ st[b] = "live" /\ guarded[b] /\ st' = [st EXCEPT ![b] = "deleting"]
  /\ UNCHANGED <<guarded, tied, filled>>

\* A binding goes, once and for all, without any secret left.
Go(b) ==
  /\ st[b] = "deleting" \/ (st[b] = "live" /\ ~guarded[b])
  /\ ~filled[b]
  /\ st' = [st EXCEPT ![b] = "gone"]
  /\ guarded' = [guarded EXCEPT ![b] = FALSE] /\ tied' = [tied EXCEPT ![b] = FALSE]
  /\ UNCHANGED filled

Next ==
  \E b \in Bindings :
    Create(b) \/ Guard(b) \/ Tie(b) \/ Fill(b) \/ Empty(b) \/ Delete(b) \/ Go(b)

Spec == Init /\ [][Next]_lifecycle
=============================================================================
