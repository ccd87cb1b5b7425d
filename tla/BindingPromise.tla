--------------------------- MODULE BindingPromise ---------------------------
(***************************************************************************)
(* The operator implements the life cycle it promises to bindings.         *)
(***************************************************************************)
EXTENDS SPIOperator

Lifecycle == INSTANCE BindingLifecycle WITH
  st      <- [b \in Bindings |-> bnd[b].st],
  guarded <- [b \in Bindings |-> bnd[b].fin # "none"],
  tied    <- [b \in Bindings |-> bnd[b].linked # NoTok /\ bnd[b].label = bnd[b].linked],
  filled  <- [b \in Bindings |-> \E s \in Secrets : sec[b][s] # NoData]

\* Whatever the controllers, the OAuth service, users, failures and restarts do
\* looks to the owner of a binding like steps of its life cycle: no step takes
\* the finalizer from a binding that stays, fills a secret of a binding that is
\* not tied to its token, lets a binding go before its secrets, or brings one back.
BindingKeepsPromise == Lifecycle!Spec
=============================================================================
