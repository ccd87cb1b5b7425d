------------------------- MODULE OperatorTypeProofs -------------------------
(*****************************************************************************)
(* The type invariant of the whole operator: the inductive type invariant    *)
(* and the types of the objects that the API server makes, then every action *)
(* of the token controller, of the binding controller and of the users and   *)
(* the environment.                                                          *)
(*****************************************************************************)
EXTENDS SPIOperator, TLAPS

\* A busy worker of the token controller has the key of a token.
TokenWorkerOK(w) == w \in TokenWorkerType /\ (w.pc # "idle" => w.key \in Tokens)

\* A busy worker of the binding controller has the key of a binding, and a
\* token where linkToken has chosen one.
BindingWorkerOK(w) ==
  /\ w \in BindingWorkerType
  /\ w.pc # "idle" => w.key \in Bindings
  /\ w.pc \in {"link", "undo", "inject"} => w.token \in Tokens
  /\ w.pc = "fail" /\ w.then = "undo" => w.token \in Tokens

\* An upload in progress has the key of a token.
UploaderOK(u) ==
  /\ u \in UploaderType
  /\ u.pc \in {"store", "notify"} => u.key \in Tokens

\* The type invariant made inductive.
Typed == TypeOK /\ TokenWorkerOK(tw) /\ BindingWorkerOK(bw) /\ UploaderOK(up)

\* New, absent, deleted and settled tokens are tokens.
LEMMA TokenTypes ==
  /\ \A spec \in TokenSpecType : NewToken(spec) \in TokenType
  /\ \A st \in TokenStates : AbsentToken(st) \in TokenType
  /\ \A o \in TokenType : SettleToken(o) \in TokenType /\ DeletedToken(o) \in TokenType
<1>1. \A spec \in TokenSpecType : NewToken(spec) \in TokenType
  BY DEF NewToken, TokenType, TokenStates, TokenPhases, TokenReasons, OptData
<1>2. \A st \in TokenStates : AbsentToken(st) \in TokenType
  BY <1>1 DEF AbsentToken, TokenType, TokenSpecType
<1>3. \A o \in TokenType : SettleToken(o) \in TokenType
  BY <1>2 DEF SettleToken, Settle, TokenStates
<1>4. \A o \in TokenType : DeletedToken(o) \in TokenType
  BY <1>3 DEF DeletedToken, TokenType, TokenStates
<1>5. QED
  BY <1>1, <1>2, <1>3, <1>4

\* New, absent, deleted and settled bindings are bindings.
LEMMA BindingTypes ==
  /\ \A spec \in BindingSpecType : NewBinding(spec) \in BindingType
  /\ \A st \in TokenStates : AbsentBinding(st) \in BindingType
  /\ \A o \in BindingType : SettleBinding(o) \in BindingType /\ DeletedBinding(o) \in BindingType
<1>1. \A spec \in BindingSpecType : NewBinding(spec) \in BindingType
  BY DEF NewBinding, BindingType, TokenStates, BindingPhases, BindingReasons, OptTok, OptSec
<1>2. \A st \in TokenStates : AbsentBinding(st) \in BindingType
  <2>1. PlainSpec \in BindingSpecType
    BY DEF PlainSpec, BindingSpecType
  <2>2. QED
    BY <1>1, <2>1 DEF AbsentBinding, BindingType
<1>3. \A o \in BindingType : SettleBinding(o) \in BindingType
  BY <1>2 DEF SettleBinding, Settle, TokenStates
<1>4. \A o \in BindingType : DeletedBinding(o) \in BindingType
  BY <1>3 DEF DeletedBinding, BindingType, TokenStates
<1>5. QED
  BY <1>1, <1>2, <1>3, <1>4

\* Idle workers and an idle uploader have their types.
LEMMA IdleTypes ==
  /\ IdleTokenWorker \in TokenWorkerType
  /\ IdleBindingWorker \in BindingWorkerType
  /\ IdleUploader \in UploaderType
<1>1. AbsentToken("none") \in TokenType /\ AbsentBinding("none") \in BindingType
  BY TokenTypes, BindingTypes DEF TokenStates
<1>2. QED
  BY <1>1 DEF IdleTokenWorker, IdleBindingWorker, IdleUploader, TokenWorkerType, TokenPcs, OptTok, OptData,
    BindingWorkerType, BindingPcs, OptBnd, UploaderType

\* The API server's write of a token and its events keep objects and queues in
\* their types.
LEMMA SendTokenTyped ==
  ASSUME Typed, NEW t \in Tokens, NEW new \in TokenType, NEW changed, SendToken(t, new, changed)
  PROVE  tok' \in [Tokens -> TokenType] /\ tq' \subseteq Tokens /\ bq' \subseteq Bindings
  BY DEF Typed, TypeOK, SendToken, TokensWokenBy, BindingsWokenBy, LiveBindings

\* Outdating a token in a running lookup keeps the binding controller's worker
\* well typed.
LEMMA OutdateLookupTyped ==
  ASSUME Typed, NEW t, NEW changed, OutdateLookup(t, changed)
  PROVE  BindingWorkerOK(bw')
  BY DEF Typed, TypeOK, BindingWorkerOK, BindingWorkerType, OutdateLookup

\* Outdating the token controller's copy keeps its worker well typed.
LEMMA OutdateTokenTyped ==
  ASSUME Typed, NEW t, NEW changed \in BOOLEAN, OutdateToken(t, changed)
  PROVE  TokenWorkerOK(tw')
  BY DEF Typed, TypeOK, TokenWorkerOK, TokenWorkerType, OutdateToken

\* A failure, or none, keeps the budget of failures in its range.
LEMMA FaultsTyped ==
  ASSUME Typed, NoFault \/ Fault \/ \E stale \in BOOLEAN : WriteFails(stale)
  PROVE  faults' \in 0..MaxFaults
  BY ConstantsAssumption DEF Typed, TypeOK, NoFault, Fault, WriteFails

-----------------------------------------------------------------------------
(* The token controller.                                                       *)

\* Ending Reconcile leaves an idle worker, and an error puts the token back
\* into the queue.
LEMMA TReturnTyped ==
  /\ TReturn => TokenWorkerOK(tw')
  /\ Typed /\ tw.pc # "idle" /\ TReturnErr => TokenWorkerOK(tw') /\ tq' \subseteq Tokens
<1>1. TokenWorkerOK(IdleTokenWorker)
  BY IdleTypes DEF TokenWorkerOK, IdleTokenWorker
<1>2. QED
  BY <1>1 DEF TReturn, TReturnErr, Typed, TypeOK, TokenWorkerOK, atKey

\* A failing call that ends the token controller's Reconcile keeps every
\* variable in its type.
LEMMA TCallFailsTyped ==
  ASSUME Typed, tw.pc # "idle", NEW stale \in BOOLEAN, TCallFails(stale)
  PROVE  Typed'
<1>1. TokenWorkerOK(tw') /\ tq' \subseteq Tokens
  BY TReturnTyped DEF TCallFails
<1>2. faults' \in 0..MaxFaults
  BY FaultsTyped DEF TCallFails
<1>3. QED
  BY <1>1, <1>2 DEF TCallFails, Typed, TypeOK, TokenWorkerOK, BindingWorkerOK, UploaderOK, objects, outside

\* A successful write by the token controller keeps objects, queues and the
\* lookup in their types.
LEMMA TPutTyped ==
  ASSUME Typed, tw.pc # "idle", NEW new \in TokenType, TPut(new)
  PROVE  /\ tok' \in [Tokens -> TokenType] /\ tq' \subseteq Tokens /\ bq' \subseteq Bindings
         /\ BindingWorkerOK(bw')
<1>1. atKey \in Tokens
  BY DEF Typed, TokenWorkerOK, atKey
<1>2. QED
  BY <1>1, SendTokenTyped, OutdateLookupTyped DEF TPut, PutToken

\* A busy worker of the token controller holds a token that exists in the
\* model.
LEMMA TCopyTyped ==
  ASSUME Typed, tw.pc # "idle"
  PROVE  atKey \in Tokens /\ at \in TokenType /\ tok[atKey] \in TokenType /\ tw.stale \in BOOLEAN
  BY DEF Typed, TypeOK, TokenWorkerOK, TokenWorkerType, atKey, at

\* A worker that moves on to another call stays well typed.
LEMMA TMoveTyped ==
  ASSUME Typed, tw.pc # "idle", NEW pc \in TokenPcs, NEW o \in TokenType
  PROVE  /\ TokenWorkerOK([tw EXCEPT !.pc = pc])
         /\ TokenWorkerOK([tw EXCEPT !.obj = o])
         /\ TokenWorkerOK([tw EXCEPT !.pc = pc, !.obj = o])
  BY DEF Typed, TypeOK, TokenWorkerOK, TokenWorkerType

\* A status write of a well-typed copy leaves a token.
LEMMA TWithStatusTyped ==
  ASSUME Typed, tw.pc # "idle", NEW o \in TokenType
  PROVE  TWithStatus(o) \in TokenType
  BY TCopyTyped DEF TWithStatus, TokenType

\* A step that only changes the worker and the failure budget keeps every
\* variable in its type.
LEMMA TLocalTyped ==
  ASSUME Typed, TokenWorkerOK(tw'), faults' \in 0..MaxFaults, TLocal
  PROVE  Typed'
  BY DEF Typed, TypeOK, TokenWorkerOK, BindingWorkerOK, UploaderOK, TLocal, objects, queues, outside

\* A successful write by the token controller keeps every variable in its type.
LEMMA TWriteTyped ==
  ASSUME Typed, tw.pc # "idle", NEW new \in TokenType, TPut(new), TokenWorkerOK(tw'), NoFault,
         tTimer' \subseteq Tokens, UNCHANGED <<bnd, sec, store, du, tAge, bAge, bTimer, outside>>
  PROVE  Typed'
  BY TPutTyped, FaultsTyped DEF Typed, TypeOK, TokenWorkerOK, BindingWorkerOK, UploaderOK, outside

\* Taking a key and loading its token keeps every variable in its type.
LEMMA TGetTyped == Typed /\ TGet => Typed'
<1> SUFFICES ASSUME Typed, TGet PROVE Typed'
  OBVIOUS
<1>1. PICK t \in tq : tq' = tq \ {t} /\ tw' = IF Present(tok[t])
                THEN [IdleTokenWorker EXCEPT !.pc = "loaded", !.key = t, !.obj = tok[t]]
                ELSE tw
  BY DEF TGet
<1>2. TokenWorkerOK(tw')
  BY <1>1, IdleTypes DEF Typed, TypeOK, TokenWorkerOK, TokenWorkerType, TokenPcs, OptTok, IdleTokenWorker
<1>3. QED
  BY <1>1, <1>2 DEF Typed, TypeOK, TokenWorkerOK, BindingWorkerOK, UploaderOK, TGet, objects, outside

\* Running the finalizers of a deleted token keeps every variable in its type.
LEMMA TFinalizeTyped == Typed /\ TFinalize => Typed'
<1> SUFFICES ASSUME Typed, TFinalize PROVE Typed'
  OBVIOUS
<1>1. TokenWorkerOK(tw') /\ tq' \subseteq Tokens
  <2>1. CASE TReturnErr
    BY <2>1, TReturnTyped DEF TFinalize
  <2>2. CASE TFinalized
    <3>1. [tw.obj EXCEPT !.fin = FALSE] \in TokenType
      BY DEF Typed, TypeOK, TokenWorkerType, TokenType
    <3>2. tw' = [tw EXCEPT !.pc = "unfinalize", !.obj = [tw.obj EXCEPT !.fin = FALSE]]
      BY <2>2 DEF TFinalized, Typed, TypeOK, TokenWorkerType
    <3>3. QED
      BY <2>2, <3>1, <3>2 DEF TFinalize, TFinalized, Typed, TypeOK, TokenWorkerOK, TokenWorkerType, TokenPcs
  <2>3. QED
    BY <2>1, <2>2 DEF TFinalize
<1>2. faults' \in 0..MaxFaults
  BY FaultsTyped DEF TFinalize
<1>3. store' \in [Tokens -> OptData]
  BY DEF TFinalize, EraseData, Typed, TypeOK, OptData
<1>4. QED
  BY <1>1, <1>2, <1>3 DEF Typed, TypeOK, TokenWorkerOK, BindingWorkerOK, UploaderOK, TFinalize, outside

\* Persisting the removal of the finalizers keeps every variable in its type.
LEMMA TUnfinalizeTyped == Typed /\ TUnfinalize => Typed'
<1> SUFFICES ASSUME Typed, TUnfinalize PROVE Typed'
  OBVIOUS
<1>1. tw.pc # "idle"
  BY DEF TUnfinalize
<1>2. SettleToken([tok[atKey] EXCEPT !.fin = FALSE]) \in TokenType
  <2>1. [tok[atKey] EXCEPT !.fin = FALSE] \in TokenType
    BY <1>1, TCopyTyped DEF TokenType
  <2>2. QED
    BY <2>1, TokenTypes
<1>3. CASE TCallFails(tw.stale)
  BY <1>1, <1>3, TCallFailsTyped, TCopyTyped
<1>4. CASE ~TCallFails(tw.stale)
  <2>1. tTimer' \subseteq Tokens
    BY <1>4 DEF TUnfinalize, Typed, TypeOK
  <2>2. QED
    BY <1>1, <1>2, <1>4, <2>1, TReturnTyped, TWriteTyped DEF TUnfinalize
<1>5. QED
  BY <1>3, <1>4

\* Adding the finalizers of a live token keeps every variable in its type.
LEMMA TAddFinalizersTyped == Typed /\ TAddFinalizers => Typed'
<1> SUFFICES ASSUME Typed, TAddFinalizers PROVE Typed'
  OBVIOUS
<1>1. tw.pc # "idle"
  BY DEF TAddFinalizers
<1>2. CASE TCallFails(tw.stale)
  BY <1>1, <1>2, TCallFailsTyped, TCopyTyped
<1>3. CASE ~TCallFails(tw.stale)
  <2> DEFINE new == [tok[atKey] EXCEPT !.fin = TRUE]
  <2>1. new \in TokenType
    BY <1>1, TCopyTyped DEF TokenType
  <2>2. TPut(new) /\ tw' = [tw EXCEPT !.obj = tok'[atKey]]
    BY <1>3 DEF TAddFinalizers
  <2>3. tok'[atKey] \in TokenType
    BY <1>1, <2>1, <2>2, TPutTyped, TCopyTyped
  <2>4. TokenWorkerOK(tw')
    BY <1>1, <2>2, <2>3, TMoveTyped DEF TokenPcs
  <2>5. tTimer' \subseteq Tokens
    BY <1>3 DEF TAddFinalizers, Typed, TypeOK
  <2>6. QED
    BY <1>1, <1>3, <2>1, <2>4, <2>5, TWriteTyped DEF TAddFinalizers
<1>4. QED
  BY <1>2, <1>3

\* Saving the provider labels (ensureLabels) keeps every variable in its type.
LEMMA TLabelTyped == Typed /\ TLabel => Typed'
<1> SUFFICES ASSUME Typed, TLabel PROVE Typed'
  OBVIOUS
<1>1. tw.pc # "idle"
  BY DEF TLabel
<1>2. CASE TCallFails(tw.stale)
  BY <1>1, <1>2, TCallFailsTyped, TCopyTyped
<1>3. CASE ~TCallFails(tw.stale)
  <2> DEFINE new == [tok[atKey] EXCEPT !.labelled = TRUE]
  <2>1. new \in TokenType
    BY <1>1, TCopyTyped DEF TokenType
  <2>2. TPut(new) /\ tw' = [tw EXCEPT !.obj = tok'[atKey]]
    BY <1>3 DEF TLabel
  <2>3. tok'[atKey] \in TokenType
    BY <1>1, <2>1, <2>2, TPutTyped, TCopyTyped
  <2>4. TokenWorkerOK(tw')
    BY <1>1, <2>2, <2>3, TMoveTyped DEF TokenPcs
  <2>5. tTimer' \subseteq Tokens
    BY <1>3 DEF TLabel, Typed, TypeOK
  <2>6. QED
    BY <1>1, <1>3, <2>1, <2>4, <2>5, TWriteTyped DEF TLabel
<1>4. QED
  BY <1>2, <1>3

\* Deciding to delete an obsolete token (hasLinkedBindings) keeps every
\* variable in its type.
LEMMA TCheckObsoleteTyped == Typed /\ TCheckObsolete => Typed'
<1> SUFFICES ASSUME Typed, TCheckObsolete PROVE Typed'
  OBVIOUS
<1>1. tw.pc # "idle"
  BY DEF TCheckObsolete
<1>2. CASE TCallFails(FALSE)
  BY <1>1, <1>2, TCallFailsTyped
<1>3. CASE ~TCallFails(FALSE)
  <2>1. TokenWorkerOK(tw')
    BY <1>1, <1>3, TMoveTyped, TCopyTyped DEF TCheckObsolete, TokenPcs
  <2>2. QED
    BY <1>3, <2>1, FaultsTyped, TLocalTyped DEF TCheckObsolete
<1>4. QED
  BY <1>2, <1>3

\* Deleting an obsolete token keeps every variable in its type.
LEMMA TDeleteTyped == Typed /\ TDelete => Typed'
<1> SUFFICES ASSUME Typed, TDelete PROVE Typed'
  OBVIOUS
<1>1. tw.pc # "idle" /\ Present(tok[atKey]) \in BOOLEAN
  BY DEF TDelete, Present
<1>2. CASE TCallFails(~Present(tok[atKey]))
  BY <1>1, <1>2, TCallFailsTyped
<1>3. CASE ~TCallFails(~Present(tok[atKey]))
  <2>1. atKey \in Tokens /\ DeletedToken(tok[atKey]) \in TokenType
    BY <1>1, TCopyTyped, TokenTypes
  <2>2. tok' \in [Tokens -> TokenType] /\ tq' \subseteq Tokens /\ bq' \subseteq Bindings
    BY <1>3, <2>1, SendTokenTyped DEF TDelete, PutToken
  <2>3. BindingWorkerOK(bw')
    BY <1>3, OutdateLookupTyped DEF TDelete
  <2>4. TokenWorkerOK(tw') /\ faults' \in 0..MaxFaults
    BY <1>3, TReturnTyped, FaultsTyped DEF TDelete
  <2>5. QED
    BY <1>3, <2>2, <2>3, <2>4
    DEF TDelete, Typed, TypeOK, TokenWorkerOK, BindingWorkerOK, UploaderOK, outside
<1>4. QED
  BY <1>2, <1>3

\* A worker about to write an exceptional phase is well typed.
LEMMA TFlipToTyped ==
  ASSUME Typed, tw.pc # "idle", NEW o \in TokenType, NEW phase \in TokenPhases,
         NEW reason \in TokenReasons, NEW again \in BOOLEAN
  PROVE  TokenWorkerOK(TFlipTo(o, phase, reason, again))
<1>1. [o EXCEPT !.phase = phase, !.reason = reason] \in TokenType
  BY DEF TokenType
<1>2. QED
  BY <1>1 DEF TFlipTo, Typed, TypeOK, TokenWorkerOK, TokenWorkerType, TokenPcs

\* Checking data, provider and scopes keeps every variable in its type.
LEMMA TCheckDataTyped == Typed /\ TCheckData => Typed'
<1> SUFFICES ASSUME Typed, TCheckData PROVE Typed'
  OBVIOUS
<1>1. tw.pc # "idle"
  BY DEF TCheckData
<1>2. CASE TCallFails(FALSE)
  BY <1>1, <1>2, TCallFailsTyped
<1>3. CASE ~TCallFails(FALSE)
  <2> DEFINE lost == at.phase = "Ready" /\ store[atKey] = NoData
             o == [at EXCEPT !.meta = IF lost THEN NoData ELSE @]
  <2>1. o \in TokenType
    BY <1>1, TCopyTyped DEF TokenType, OptData
  <2>2. \/ tw' = TFlipTo(o, "Error", "UnknownServiceProvider", FALSE)
        \/ tw' = TFlipTo(o, "Invalid", "UnsupportedPermissions", FALSE)
        \/ tw' = [tw EXCEPT !.pc = "ensure", !.obj = o]
    BY <1>3 DEF TCheckData
  <2>3. /\ TokenWorkerOK(TFlipTo(o, "Error", "UnknownServiceProvider", FALSE))
        /\ TokenWorkerOK(TFlipTo(o, "Invalid", "UnsupportedPermissions", FALSE))
    BY <1>1, <2>1, TFlipToTyped DEF TokenPhases, TokenReasons
  <2>4. TokenWorkerOK([tw EXCEPT !.pc = "ensure", !.obj = o])
    BY <1>1, <2>1, TMoveTyped DEF TokenPcs
  <2>5. faults' \in 0..MaxFaults /\ TLocal
    BY <1>3, FaultsTyped DEF TCheckData
  <2>6. QED
    BY <2>2, <2>3, <2>4, <2>5, TLocalTyped
<1>4. QED
  BY <1>2, <1>3

\* Fetching missing metadata (MetadataCache.Ensure) keeps every variable in its
\* type.
LEMMA TEnsureTyped == Typed /\ TEnsure => Typed'
<1> SUFFICES ASSUME Typed, TEnsure PROVE Typed'
  OBVIOUS
<1> DEFINE d == store[atKey]
           none == [at EXCEPT !.meta = NoData]
<1>1. tw.pc # "idle"
  BY DEF TEnsure
<1>2. none \in TokenType /\ d \in OptData /\ [at EXCEPT !.meta = d] \in TokenType
  BY <1>1, TCopyTyped DEF TokenType, OptData, Typed, TypeOK
<1>3. \/ tw' = [tw EXCEPT !.pc = "save"]
      \/ \E pc \in {"persist", "save"} : tw' = [tw EXCEPT !.obj.meta = d, !.pc = pc]
      \/ tw' = TFlipTo(none, "Invalid", "MetadataFailure", FALSE)
      \/ tw' = TFlipTo(none, "Error", "MetadataFailure", TRUE)
  BY DEF TEnsure
<1>4. TokenWorkerOK(tw')
  <2>1. CASE tw' = [tw EXCEPT !.pc = "save"]
    BY <1>1, <2>1, TMoveTyped, TCopyTyped DEF TokenPcs
  <2>2. ASSUME NEW pc \in {"persist", "save"}, tw' = [tw EXCEPT !.obj.meta = d, !.pc = pc]
        PROVE  TokenWorkerOK(tw')
    <3>1. tw' = [tw EXCEPT !.pc = pc, !.obj = [at EXCEPT !.meta = d]]
      BY <2>2 DEF Typed, TypeOK, TokenWorkerType, at
    <3>2. QED
      BY <1>1, <1>2, <3>1, TMoveTyped DEF TokenPcs
  <2>3. /\ TokenWorkerOK(TFlipTo(none, "Invalid", "MetadataFailure", FALSE))
        /\ TokenWorkerOK(TFlipTo(none, "Error", "MetadataFailure", TRUE))
    BY <1>1, <1>2, TFlipToTyped DEF TokenPhases, TokenReasons
  <2>4. QED
    BY <1>3, <2>1, <2>2, <2>3
<1>5. faults' \in 0..MaxFaults
  BY FaultsTyped DEF TEnsure
<1>6. QED
  BY <1>4, <1>5, TLocalTyped DEF TEnsure

\* Persisting the metadata (MetadataCache.Persist) keeps every variable in its
\* type.
LEMMA TPersistTyped == Typed /\ TPersist => Typed'
<1> SUFFICES ASSUME Typed, TPersist PROVE Typed'
  OBVIOUS
<1> DEFINE new == TWithStatus(at)
<1>1. tw.pc # "idle"
  BY DEF TPersist
<1>2. CASE WriteFails(tw.stale) /\ tw' = TFlipTo(at, "Error", "MetadataFailure", TRUE) /\ TLocal
  <2>1. TokenWorkerOK(tw')
    BY <1>1, <1>2, TCopyTyped, TFlipToTyped DEF TokenPhases, TokenReasons
  <2>2. faults' \in 0..MaxFaults
    BY <1>1, <1>2, TCopyTyped, FaultsTyped
  <2>3. QED
    BY <1>2, <2>1, <2>2, TLocalTyped
<1>3. CASE /\ SendToken(atKey, new, Restamped(atKey, new))
           /\ OutdateLookup(atKey, Restamped(atKey, new))
           /\ tw' = [tw EXCEPT !.pc = "save"] /\ NoFault
           /\ UNCHANGED <<bnd, sec, store, du, tAge, bAge, tTimer, bTimer, outside>>
  <2>1. atKey \in Tokens /\ new \in TokenType
    BY <1>1, TCopyTyped, TWithStatusTyped
  <2>2. tok' \in [Tokens -> TokenType] /\ tq' \subseteq Tokens /\ bq' \subseteq Bindings
    BY <1>3, <2>1, SendTokenTyped
  <2>3. BindingWorkerOK(bw')
    BY <1>3, OutdateLookupTyped
  <2>4. TokenWorkerOK(tw') /\ faults' \in 0..MaxFaults
    BY <1>1, <1>3, TMoveTyped, TCopyTyped, FaultsTyped DEF TokenPcs
  <2>5. QED
    BY <1>3, <2>2, <2>3, <2>4
    DEF Typed, TypeOK, TokenWorkerOK, BindingWorkerOK, UploaderOK, outside
<1>4. QED
  BY <1>2, <1>3 DEF TPersist

\* Writing an exceptional phase (flipToExceptionalPhase) keeps every variable
\* in its type.
LEMMA TFlipTyped == Typed /\ TFlip => Typed'
<1> SUFFICES ASSUME Typed, TFlip PROVE Typed'
  OBVIOUS
<1>1. tw.pc # "idle"
  BY DEF TFlip
<1>2. CASE TCallFails(tw.stale)
  BY <1>1, <1>2, TCallFailsTyped, TCopyTyped
<1>3. CASE ~TCallFails(tw.stale)
  <2>1. atKey \in Tokens /\ TWithStatus(at) \in TokenType
    BY <1>1, TCopyTyped, TWithStatusTyped
  <2>2. tok' \in [Tokens -> TokenType] /\ tq' \subseteq Tokens /\ bq' \subseteq Bindings
    BY <1>3, <2>1 DEF TFlip, BindingsWokenBy, LiveBindings, Typed, TypeOK
  <2>3. BindingWorkerOK(bw')
    BY <1>3, OutdateLookupTyped DEF TFlip
  <2>4. TokenWorkerOK(tw') /\ faults' \in 0..MaxFaults
    BY <1>3, TReturnTyped, FaultsTyped DEF TFlip
  <2>5. QED
    BY <1>3, <2>2, <2>3, <2>4
    DEF TFlip, Typed, TypeOK, TokenWorkerOK, BindingWorkerOK, UploaderOK, outside
<1>4. QED
  BY <1>2, <1>3

\* Writing the status (updateTokenStatusSuccess) keeps every variable in its
\* type.
LEMMA TSaveStatusTyped == Typed /\ TSaveStatus => Typed'
<1> SUFFICES ASSUME Typed, TSaveStatus PROVE Typed'
  OBVIOUS
<1>1. tw.pc # "idle"
  BY DEF TSaveStatus
<1>2. CASE TCallFails(tw.stale)
  BY <1>1, <1>2, TCallFailsTyped, TCopyTyped
<1>3. CASE ~TCallFails(tw.stale)
  <2>1. Filled(at) \in TokenType
    BY <1>1, TCopyTyped DEF Filled, TokenType, TokenPhases, TokenReasons
  <2>2. TWithStatus(Filled(at)) \in TokenType
    BY <1>1, <2>1, TWithStatusTyped
  <2>3. TokenWorkerOK(tw') /\ tTimer' \subseteq Tokens
    <3>1. CASE at.refresh
      BY <1>1, <1>3, <2>1, <3>1, TMoveTyped DEF TSaveStatus, TokenPcs, Typed, TypeOK
    <3>2. CASE ~at.refresh
      BY <1>1, <1>3, <3>2, TReturnTyped, TCopyTyped DEF TSaveStatus, ArmTokenTimer, Typed, TypeOK
    <3>3. QED
      BY <3>1, <3>2
  <2>4. QED
    BY <1>1, <1>3, <2>2, <2>3, TWriteTyped DEF TSaveStatus
<1>4. QED
  BY <1>2, <1>3

\* Exchanging the stored token (refreshToken) keeps every variable in its type.
LEMMA TRefreshTyped == Typed /\ TRefresh => Typed'
<1> SUFFICES ASSUME Typed, TRefresh PROVE Typed'
  OBVIOUS
<1>1. tw.pc # "idle"
  BY DEF TRefresh
<1>2. CASE TCallFails(FALSE)
  BY <1>1, <1>2, TCallFailsTyped
<1>3. CASE ~TCallFails(FALSE)
  <2>1. TokenWorkerOK(tw')
    BY <1>3 DEF TRefresh, Typed, TypeOK, TokenWorkerOK, TokenWorkerType, TokenPcs, OptData
  <2>2. QED
    BY <1>3, <2>1, FaultsTyped, TLocalTyped DEF TRefresh
<1>4. QED
  BY <1>2, <1>3

\* Storing the refreshed token (refreshToken) keeps every variable in its type.
LEMMA TStoreRefreshedTyped == Typed /\ TStoreRefreshed => Typed'
<1> SUFFICES ASSUME Typed, TStoreRefreshed PROVE Typed'
  OBVIOUS
<1>1. tw.pc # "idle"
  BY DEF TStoreRefreshed
<1>2. CASE TCallFails(FALSE)
  BY <1>1, <1>2, TCallFailsTyped
<1>3. CASE ~TCallFails(FALSE)
  <2>1. TokenWorkerOK(tw') /\ faults' \in 0..MaxFaults
    BY <1>3, FaultsTyped
    DEF TStoreRefreshed, Typed, TypeOK, TokenWorkerOK, TokenWorkerType, TokenPcs, OptData
  <2>2. store' \in [Tokens -> OptData]
    BY <1>3 DEF TStoreRefreshed, Typed, TypeOK, TokenWorkerType
  <2>3. QED
    BY <1>3, <2>1, <2>2
    DEF TStoreRefreshed, Typed, TypeOK, TokenWorkerOK, BindingWorkerOK, UploaderOK, queues, outside
<1>4. QED
  BY <1>2, <1>3

\* Removing the refresh label keeps every variable in its type.
LEMMA TUnlabelTyped == Typed /\ TUnlabel => Typed'
<1> SUFFICES ASSUME Typed, TUnlabel PROVE Typed'
  OBVIOUS
<1>1. tw.pc # "idle"
  BY DEF TUnlabel
<1>2. CASE TCallFails(tw.stale)
  BY <1>1, <1>2, TCallFailsTyped, TCopyTyped
<1>3. CASE ~TCallFails(tw.stale)
  <2>1. [tok[atKey] EXCEPT !.refresh = FALSE] \in TokenType
    BY <1>1, TCopyTyped DEF TokenType
  <2>2. TokenWorkerOK(tw') /\ tTimer' \subseteq Tokens
    BY <1>1, <1>3, TReturnTyped, TCopyTyped DEF TUnlabel, ArmTokenTimer, Typed, TypeOK
  <2>3. QED
    BY <1>1, <1>3, <2>1, <2>2, TWriteTyped DEF TUnlabel
<1>4. QED
  BY <1>2, <1>3

\* A RequeueAfter of a token keeps every variable in its type.
LEMMA TokenTimerTyped == Typed /\ TokenTimer => Typed'
  BY DEF TokenTimer, Typed, TypeOK, TokenWorkerOK, BindingWorkerOK, UploaderOK, objects, workers, outside

\* Every step of the token controller keeps every variable in its type.
LEMMA TokenReconcileTyped == Typed /\ TokenReconcile => Typed'
  BY TGetTyped, TFinalizeTyped, TUnfinalizeTyped, TAddFinalizersTyped, TCheckObsoleteTyped, TDeleteTyped,
     TCheckDataTyped, TEnsureTyped, TPersistTyped, TFlipTyped, TLabelTyped, TSaveStatusTyped,
     TRefreshTyped, TStoreRefreshedTyped, TUnlabelTyped
  DEF TokenReconcile

-----------------------------------------------------------------------------
(* The binding controller.                                                     *)

\* A busy worker of the binding controller holds a binding that exists in the
\* model, so that its key indexes the objects and its copy has a binding's
\* type.
LEMMA BCopyTyped ==
  ASSUME Typed, bw.pc # "idle"
  PROVE  /\ bKey \in Bindings /\ binding \in BindingType /\ bnd[bKey] \in BindingType
         /\ bw.stale \in BOOLEAN
  BY DEF Typed, TypeOK, BindingWorkerOK, BindingWorkerType, bKey, binding

\* Ending Reconcile leaves an idle worker of the right type.
LEMMA BReturnTyped ==
  /\ \A lost \in SUBSET Bindings : BindingWorkerOK(BIdle(lost))
  /\ Typed /\ BReturn => BindingWorkerOK(bw')
  /\ Typed /\ bw.pc # "idle" /\ BReturnErr => BindingWorkerOK(bw') /\ bq' \subseteq Bindings
<1>1. ASSUME NEW lost \in SUBSET Bindings PROVE BindingWorkerOK(BIdle(lost))
  BY IdleTypes DEF BindingWorkerOK, BIdle, IdleBindingWorker, BindingWorkerType
<1>2. Typed => bw.lost \in SUBSET Bindings
  BY DEF Typed, TypeOK, BindingWorkerType
<1>3. QED
  BY <1>1, <1>2 DEF BReturn, BReturnErr, Typed, TypeOK, BindingWorkerOK, bKey

\* A failing call that ends the binding controller's Reconcile keeps every
\* variable in its type.
LEMMA BCallFailsTyped ==
  ASSUME Typed, bw.pc # "idle", NEW stale \in BOOLEAN, BCallFails(stale)
  PROVE  Typed'
<1>1. BindingWorkerOK(bw') /\ bq' \subseteq Bindings
  BY BReturnTyped DEF BCallFails
<1>2. faults' \in 0..MaxFaults
  BY FaultsTyped DEF BCallFails
<1>3. QED
  BY <1>1, <1>2
  DEF BCallFails, Typed, TypeOK, TokenWorkerOK, BindingWorkerOK, UploaderOK, objects, outside

\* A worker that moves on to another call without a new token stays well typed.
LEMMA BMoveTyped ==
  ASSUME Typed, bw.pc # "idle", NEW o \in BindingType
  PROVE  /\ BindingWorkerOK([bw EXCEPT !.obj = o])
         /\ \A pc \in BindingPcs \ {"link", "undo", "inject", "fail"} :
              /\ BindingWorkerOK([bw EXCEPT !.pc = pc])
              /\ BindingWorkerOK([bw EXCEPT !.pc = pc, !.obj = o])
  BY DEF Typed, TypeOK, BindingWorkerOK, BindingWorkerType

\* A status write of a well-typed copy leaves a binding.
LEMMA BWithStatusTyped ==
  ASSUME Typed, bw.pc # "idle", NEW o \in BindingType
  PROVE  BWithStatus(o) \in BindingType
  BY BCopyTyped DEF BWithStatus, BindingType

\* A step that only changes the worker and the failure budget keeps every
\* variable in its type.
LEMMA BLocalTyped ==
  ASSUME Typed, BindingWorkerOK(bw'), faults' \in 0..MaxFaults, BLocal
  PROVE  Typed'
  BY DEF Typed, TypeOK, TokenWorkerOK, BindingWorkerOK, UploaderOK, BLocal, objects, queues, outside

\* The watch on bindings only yields names of tokens: a binding without a link
\* yields none (requestsForTokenInObjectNamespace).
LEMMA LinksWokenByTyped ==
  ASSUME Typed, NEW b \in Bindings, NEW new \in BindingType
  PROVE  LinksWokenBy(b, new) \subseteq Tokens
  BY DEF Typed, TypeOK, BindingType, LinksWokenBy, OptTok

\* The API server's write of a binding and its events keep objects and queues
\* in their types.
LEMMA PutBindingTyped ==
  ASSUME Typed, NEW b \in Bindings, NEW new \in BindingType, PutBinding(b, new)
  PROVE  bnd' \in [Bindings -> BindingType] /\ bq' \subseteq Bindings /\ tq' \subseteq Tokens
<1>1. bnd' \in [Bindings -> BindingType] /\ bq' \subseteq Bindings
  BY DEF Typed, TypeOK, PutBinding
<1>2. tq' \subseteq Tokens
  BY LinksWokenByTyped DEF Typed, TypeOK, PutBinding
<1>3. QED
  BY <1>1, <1>2

\* A successful write by the binding controller keeps every variable in its
\* type.
LEMMA BWriteTyped ==
  ASSUME Typed, bw.pc # "idle", NEW new \in BindingType, BPut(new), BindingWorkerOK(bw'),
         tTimer' \subseteq Tokens, bTimer' \subseteq Bindings
  PROVE  Typed'
<1>1. bnd' \in [Bindings -> BindingType] /\ bq' \subseteq Bindings /\ tq' \subseteq Tokens
  BY BCopyTyped, PutBindingTyped DEF BPut
<1>2. faults' \in 0..MaxFaults
  BY FaultsTyped DEF BPut
<1>3. QED
  BY <1>1, <1>2
  DEF BPut, Typed, TypeOK, TokenWorkerOK, BindingWorkerOK, UploaderOK, outside

\* Writing an error to the status, successful or not, keeps every variable in
\* its type (updateBindingStatusError).
LEMMA BStatusErrorTyped ==
  ASSUME Typed, bw.pc # "idle", NEW o \in BindingType,
         NEW next \in {"done", "requeue", "undo", "revert"},
         next = "undo" => bw.token \in Tokens, BStatusError(o, next)
  PROVE  Typed'
<1>1. BindingWorkerOK(bw')
  <2>1. CASE next \in {"done", "requeue"}
    <3>1. bKey \in Bindings /\ bw.lost \in SUBSET Bindings
      BY BCopyTyped DEF Typed, TypeOK, BindingWorkerType
    <3>2. bw' = BIdle(bw.lost) \/ bw' = BIdle(bw.lost \cup {bKey})
      BY <2>1 DEF BStatusError
    <3>3. QED
      BY <3>1, <3>2, BReturnTyped
  <2>2. CASE next \in {"undo", "revert"}
    <3>1. bw' = [bw EXCEPT !.pc = next, !.obj = o]
      BY <2>2 DEF BStatusError
    <3>2. QED
      BY <2>2, <3>1 DEF Typed, TypeOK, BindingWorkerOK, BindingWorkerType, BindingPcs
  <2>3. QED
    BY <2>1, <2>2
<1>2. BWithStatus(o) \in BindingType /\ bKey \in Bindings
  BY BWithStatusTyped, BCopyTyped
<1>3. bnd' \in [Bindings -> BindingType] /\ bq' \subseteq Bindings
  BY <1>2 DEF BStatusError, Typed, TypeOK
<1>4. tq' \subseteq Tokens
  BY <1>2, LinksWokenByTyped DEF BStatusError, Typed, TypeOK
<1>5. faults' \in 0..MaxFaults
  BY FaultsTyped, BCopyTyped DEF BStatusError
<1>6. QED
  BY <1>1, <1>3, <1>4, <1>5
  DEF BStatusError, Typed, TypeOK, TokenWorkerOK, BindingWorkerOK, UploaderOK, outside

\* Remembering an error that is yet to be written keeps every variable in its
\* type.
LEMMA BFailWithTyped ==
  ASSUME Typed, bw.pc # "idle", NEW o \in BindingType,
         NEW next \in {"done", "requeue", "undo", "revert"},
         next = "undo" => bw.token \in Tokens, BFailWith(o, next)
  PROVE  BindingWorkerOK(bw')
  BY DEF BFailWith, Typed, TypeOK, BindingWorkerOK, BindingWorkerType, BindingPcs

\* The copies that Reconcile makes of a binding, with another phase, reason or
\* link, are bindings.
LEMMA StatusTypes ==
  ASSUME NEW o \in BindingType, NEW reason \in BindingReasons
  PROVE  /\ Erroneous(o, reason) \in BindingType
         /\ [o EXCEPT !.reason = reason] \in BindingType
         /\ Awaiting(o) \in BindingType
         /\ Entered(o) \in BindingType
  BY DEF Erroneous, Awaiting, Entered, BindingType, BindingPhases, OptSec

\* Taking a key and loading its binding keeps every variable in its type.
LEMMA BGetTyped == Typed /\ BGet => Typed'
<1> SUFFICES ASSUME Typed, BGet PROVE Typed'
  OBVIOUS
<1>1. PICK b \in bq : bq' = bq \ {b} /\ bw' = IF Present(bnd[b])
                THEN [BIdle(bw.lost \ {b}) EXCEPT !.pc = "loaded", !.key = b, !.obj = bnd[b]]
                ELSE bw
  BY DEF BGet
<1>2. BindingWorkerOK(bw')
  BY <1>1, IdleTypes
  DEF Typed, TypeOK, BindingWorkerOK, BindingWorkerType, BindingPcs, OptBnd, BIdle, IdleBindingWorker
<1>3. QED
  BY <1>1, <1>2 DEF Typed, TypeOK, TokenWorkerOK, BindingWorkerOK, UploaderOK, BGet, objects, outside

\* Reporting a URL without a host (assureProperValuesInBinding) keeps every
\* variable in its type.
LEMMA BBadUrlTyped == Typed /\ BBadUrl => Typed'
<1> SUFFICES ASSUME Typed, BBadUrl PROVE Typed'
  OBVIOUS
<1>1. bw.pc # "idle"
  BY DEF BBadUrl
<1>2. Erroneous(binding, "UnknownServiceProviderType") \in BindingType
  BY <1>1, BCopyTyped, StatusTypes DEF BindingReasons
<1>3. QED
  BY <1>1, <1>2, BStatusErrorTyped DEF BBadUrl

\* Saving the URL completed by its scheme (assureProperValuesInBinding) keeps
\* every variable in its type.
LEMMA BSaveUrlTyped == Typed /\ BSaveUrl => Typed'
<1> SUFFICES ASSUME Typed, BSaveUrl PROVE Typed'
  OBVIOUS
<1>1. bw.pc # "idle"
  BY DEF BSaveUrl
<1>2. CASE BCallFails(bw.stale)
  BY <1>1, <1>2, BCallFailsTyped, BCopyTyped
<1>3. CASE ~BCallFails(bw.stale)
  <2> DEFINE new == [bnd[bKey] EXCEPT !.spec.url = "ok"]
  <2>1. new \in BindingType
    BY <1>1, BCopyTyped DEF BindingType, BindingSpecType
  <2>2. BindingWorkerOK(bw') /\ tTimer' \subseteq Tokens /\ bTimer' \subseteq Bindings
    BY <1>3, BReturnTyped DEF BSaveUrl, Typed, TypeOK
  <2>3. QED
    BY <1>1, <1>3, <2>1, <2>2, BWriteTyped DEF BSaveUrl
<1>4. QED
  BY <1>2, <1>3

\* Renaming the deprecated finalizer (migrateFinalizers) keeps every variable
\* in its type.
LEMMA BMigrateFinalizersTyped == Typed /\ BMigrateFinalizers => Typed'
<1> SUFFICES ASSUME Typed, BMigrateFinalizers PROVE Typed'
  OBVIOUS
<1>1. bw.pc # "idle"
  BY DEF BMigrateFinalizers, ProperValues
<1>2. CASE BCallFails(bw.stale)
  BY <1>1, <1>2, BCallFailsTyped, BCopyTyped
<1>3. CASE ~BCallFails(bw.stale)
  <2> DEFINE new == [bnd[bKey] EXCEPT !.fin = "new"]
  <2>1. new \in BindingType
    BY <1>1, BCopyTyped DEF BindingType
  <2>2. bw' = [bw EXCEPT !.obj = bnd'[bKey]] /\ BPut(new)
    BY <1>3 DEF BMigrateFinalizers
  <2>3. bnd'[bKey] \in BindingType
    BY <1>1, <2>1, <2>2, BCopyTyped, PutBindingTyped DEF BPut
  <2>4. BindingWorkerOK(bw') /\ tTimer' \subseteq Tokens /\ bTimer' \subseteq Bindings
    BY <1>1, <1>3, <2>2, <2>3, BMoveTyped DEF BMigrateFinalizers, Typed, TypeOK
  <2>5. QED
    BY <1>1, <2>1, <2>2, <2>4, BWriteTyped
<1>4. QED
  BY <1>2, <1>3

\* Saving migrated quay permission areas (checkQuayPermissionAreasMigration)
\* keeps every variable in its type.
LEMMA BMigrateAreasTyped == Typed /\ BMigrateAreas => Typed'
<1> SUFFICES ASSUME Typed, BMigrateAreas PROVE Typed'
  OBVIOUS
<1>1. bw.pc # "idle"
  BY DEF BMigrateAreas, ProviderKnown, ProperValues
<1> DEFINE refused == bw.stale \/ RenamesFinalizer
<1>2. CASE BCallFails(refused)
  <2>1. refused \in BOOLEAN
    BY DEF RenamesFinalizer
  <2> HIDE DEF refused
  <2> QED
    BY <1>1, <1>2, <2>1, BCallFailsTyped
<1>3. CASE ~BCallFails(refused)
  <2> DEFINE new == [bnd[bKey] EXCEPT !.spec.areas = "current"]
  <2>1. new \in BindingType
    BY <1>1, BCopyTyped DEF BindingType, BindingSpecType
  <2>2. BindingWorkerOK(bw') /\ tTimer' \subseteq Tokens /\ bTimer' \subseteq Bindings
    BY <1>3, BReturnTyped DEF BMigrateAreas, Typed, TypeOK
  <2>3. QED
    BY <1>1, <1>3, <2>1, <2>2, BWriteTyped DEF BMigrateAreas
<1>4. QED
  BY <1>2, <1>3

\* Adding the finalizer of a live binding keeps every variable in its type.
LEMMA BAddFinalizerTyped == Typed /\ BAddFinalizer => Typed'
<1> SUFFICES ASSUME Typed, BAddFinalizer PROVE Typed'
  OBVIOUS
<1>1. bw.pc # "idle"
  BY DEF BAddFinalizer, Migrated, ProviderKnown, ProperValues
<1>2. CASE BCallFails(bw.stale)
  BY <1>1, <1>2, BCallFailsTyped, BCopyTyped
<1>3. CASE ~BCallFails(bw.stale)
  <2> DEFINE new == [bnd[bKey] EXCEPT !.fin = "new"]
  <2>1. new \in BindingType
    BY <1>1, BCopyTyped DEF BindingType
  <2>2. bw' = [bw EXCEPT !.obj = bnd'[bKey]] /\ BPut(new)
    BY <1>3 DEF BAddFinalizer
  <2>3. bnd'[bKey] \in BindingType
    BY <1>1, <2>1, <2>2, BCopyTyped, PutBindingTyped DEF BPut
  <2>4. BindingWorkerOK(bw') /\ tTimer' \subseteq Tokens /\ bTimer' \subseteq Bindings
    BY <1>1, <1>3, <2>2, <2>3, BMoveTyped DEF BAddFinalizer, Typed, TypeOK
  <2>5. QED
    BY <1>1, <2>1, <2>2, <2>4, BWriteTyped
<1>4. QED
  BY <1>2, <1>3

\* Reporting an invalid lifetime (bindingLifetime) keeps every variable in its
\* type.
LEMMA BBadLifetimeTyped == Typed /\ BBadLifetime => Typed'
<1> SUFFICES ASSUME Typed, BBadLifetime PROVE Typed'
  OBVIOUS
<1>1. bw.pc # "idle"
  BY DEF BBadLifetime, Finalized, Migrated, ProviderKnown, ProperValues
<1>2. Erroneous(binding, "InvalidLifetime") \in BindingType
  BY <1>1, BCopyTyped, StatusTypes DEF BindingReasons
<1>3. QED
  BY <1>1, <1>2, BStatusErrorTyped DEF BBadLifetime

\* Reporting a spec that does not validate keeps every variable in its type.
LEMMA BInvalidTyped == Typed /\ BInvalid => Typed'
<1> SUFFICES ASSUME Typed, BInvalid PROVE Typed'
  OBVIOUS
<1>1. bw.pc # "idle"
  BY DEF BInvalid, Current, Finalized, Migrated, ProviderKnown, ProperValues
<1>2. Erroneous(binding, "UnsupportedPermissions") \in BindingType
  BY <1>1, BCopyTyped, StatusTypes DEF BindingReasons
<1>3. QED
  BY <1>1, <1>2, BStatusErrorTyped DEF BInvalid

\* Reporting a failed lookup keeps every variable in its type.
LEMMA BLookupFailsTyped == Typed /\ BLookupFails => Typed'
<1> SUFFICES ASSUME Typed, BLookupFails PROVE Typed'
  OBVIOUS
<1>1. bw.pc # "idle"
  BY DEF BLookupFails
<1>2. [binding EXCEPT !.reason = "TokenLookup"] \in BindingType
  BY <1>1, BCopyTyped, StatusTypes DEF BindingReasons
<1>3. QED
  BY <1>1, <1>2, BStatusErrorTyped DEF BLookupFails

\* Reporting a linked token that is ready but does not match keeps every
\* variable in its type.
LEMMA BMismatchTyped == Typed /\ BMismatch => Typed'
<1> SUFFICES ASSUME Typed, BMismatch PROVE Typed'
  OBVIOUS
<1>1. bw.pc # "idle"
  BY DEF BMismatch, Linked
<1>2. Erroneous(binding, "LinkedToken") \in BindingType
  BY <1>1, BCopyTyped, StatusTypes DEF BindingReasons
<1>3. QED
  BY <1>1, <1>2, BStatusErrorTyped DEF BMismatch

\* Reporting an unknown service provider (getServiceProvider) keeps every
\* variable in its type.
LEMMA BNoProviderTyped == Typed /\ BNoProvider => Typed'
<1> SUFFICES ASSUME Typed, BNoProvider PROVE Typed'
  OBVIOUS
<1> DEFINE o == Erroneous(binding, "UnknownServiceProviderType")
<1>1. bw.pc # "idle"
  BY DEF BNoProvider, ProperValues
<1>2. o \in BindingType
  BY <1>1, BCopyTyped, StatusTypes DEF BindingReasons
<1>3. CASE BStatusError(o, "done")
  BY <1>1, <1>2, <1>3, BStatusErrorTyped
<1>4. CASE Fault /\ BFailWith(o, "done") /\ BLocal
  BY <1>1, <1>2, <1>4, BFailWithTyped, FaultsTyped, BLocalTyped
<1>5. QED
  BY <1>3, <1>4 DEF BNoProvider

\* Deleting some of a binding's secrets keeps the secrets in their type.
LEMMA CleanedUpTyped ==
  ASSUME Typed, NEW b \in Bindings, NEW names, CleanedUp(b, names)
  PROVE  sec' \in [Bindings -> [Secrets -> OptData]]
  BY DEF CleanedUp, Typed, TypeOK, OptData

\* Running linkedObjectsFinalizer keeps every variable in its type.
LEMMA BFinalizeTyped == Typed /\ BFinalize => Typed'
<1> SUFFICES ASSUME Typed, BFinalize PROVE Typed'
  OBVIOUS
<1>1. bw.pc # "idle"
  BY DEF BFinalize, Migrated, ProviderKnown, ProperValues
<1>2. sec' \in [Bindings -> [Secrets -> OptData]] /\ UNCHANGED <<tok, bnd, store, du, tAge, bAge>>
  BY <1>1, BCopyTyped, CleanedUpTyped DEF BFinalize, CleanedUp
<1>3. BindingWorkerOK(bw') /\ bq' \subseteq Bindings
  <2>1. CASE BReturnErr
    BY <1>1, <2>1, BReturnTyped
  <2>2. CASE bw' = [bw EXCEPT !.pc = "unfinalize", !.obj.fin = "none"] /\ bq' = bq \cup Woken(bKey, Secrets)
    <3>1. [binding EXCEPT !.fin = "none"] \in BindingType
      BY <1>1, BCopyTyped DEF BindingType
    <3>2. bw' = [bw EXCEPT !.pc = "unfinalize", !.obj = [binding EXCEPT !.fin = "none"]]
      BY <2>2 DEF Typed, TypeOK, BindingWorkerType, binding
    <3>3. BindingWorkerOK(bw')
      BY <1>1, <3>1, <3>2, BMoveTyped DEF BindingPcs
    <3>4. QED
      BY <1>1, <2>2, <3>3, BCopyTyped DEF Woken, Typed, TypeOK
  <2>3. QED
    BY <2>1, <2>2 DEF BFinalize
<1>4. faults' \in 0..MaxFaults
  BY FaultsTyped DEF BFinalize
<1>5. QED
  BY <1>2, <1>3, <1>4
  DEF BFinalize, Typed, TypeOK, TokenWorkerOK, BindingWorkerOK, UploaderOK, outside

\* Persisting the removal of the finalizer keeps every variable in its type.
LEMMA BUnfinalizeTyped == Typed /\ BUnfinalize => Typed'
<1> SUFFICES ASSUME Typed, BUnfinalize PROVE Typed'
  OBVIOUS
<1>1. bw.pc # "idle"
  BY DEF BUnfinalize
<1>2. CASE BCallFails(bw.stale)
  BY <1>1, <1>2, BCallFailsTyped, BCopyTyped
<1>3. CASE ~BCallFails(bw.stale)
  <2>1. [bnd[bKey] EXCEPT !.fin = "none"] \in BindingType
    BY <1>1, BCopyTyped DEF BindingType
  <2>2. SettleBinding([bnd[bKey] EXCEPT !.fin = "none"]) \in BindingType
    BY <2>1, BindingTypes
  <2>3. BindingWorkerOK(bw') /\ tTimer' \subseteq Tokens /\ bTimer' \subseteq Bindings
    BY <1>3, BReturnTyped DEF BUnfinalize, Typed, TypeOK
  <2>4. QED
    BY <1>1, <1>3, <2>2, <2>3, BWriteTyped DEF BUnfinalize
<1>4. QED
  BY <1>2, <1>3

\* Deleting a binding past its lifetime keeps every variable in its type.
LEMMA BDeleteTyped == Typed /\ BDelete => Typed'
<1> SUFFICES ASSUME Typed, BDelete PROVE Typed'
  OBVIOUS
<1>1. bw.pc # "idle" /\ Present(bnd[bKey]) \in BOOLEAN
  BY DEF BDelete, Present, Finalized, Migrated, ProviderKnown, ProperValues
<1>2. CASE BCallFails(~Present(bnd[bKey]))
  BY <1>1, <1>2, BCallFailsTyped
<1>3. CASE ~BCallFails(~Present(bnd[bKey]))
  <2>1. bKey \in Bindings /\ DeletedBinding(bnd[bKey]) \in BindingType
    BY <1>1, BCopyTyped, BindingTypes
  <2>2. bnd' \in [Bindings -> BindingType] /\ bq' \subseteq Bindings /\ tq' \subseteq Tokens
    BY <1>3, <2>1, PutBindingTyped DEF BDelete
  <2>3. BindingWorkerOK(bw') /\ faults' \in 0..MaxFaults
    BY <1>3, BReturnTyped, FaultsTyped DEF BDelete
  <2>4. QED
    BY <1>3, <2>2, <2>3
    DEF BDelete, Typed, TypeOK, TokenWorkerOK, BindingWorkerOK, UploaderOK, outside
<1>4. QED
  BY <1>2, <1>3

\* Listing the candidate tokens (Lookup) keeps every variable in its type.
LEMMA BLookupTyped == Typed /\ BLookup => Typed'
<1> SUFFICES ASSUME Typed, BLookup PROVE Typed'
  OBVIOUS
<1>1. bw.pc # "idle"
  BY DEF BLookup, Current, Finalized, Migrated, ProviderKnown, ProperValues
<1>2. Entered(binding) \in BindingType /\ [Entered(binding) EXCEPT !.reason = "TokenLookup"] \in BindingType
  BY <1>1, BCopyTyped, StatusTypes DEF BindingReasons
<1>3. BindingWorkerOK(bw')
  <2>1. CASE BFailWith([Entered(binding) EXCEPT !.reason = "TokenLookup"], "requeue")
    BY <1>1, <1>2, <2>1, BFailWithTyped
  <2>2. CASE ~BFailWith([Entered(binding) EXCEPT !.reason = "TokenLookup"], "requeue")
    <3> DEFINE bare == {t \in ReadyTokens : tok[t].meta = NoData}
    <3>1. PICK todo \in SUBSET ReadyTokens :
            bw' = [bw EXCEPT !.pc = "lookup", !.todo = todo, !.had = todo \ bare,
                     !.cand = {t \in ReadyTokens \ todo : <<bKey, tok[t].meta>> \in Matches},
                     !.obj = Entered(@)]
      BY <2>2 DEF BLookup
    <3>2. ReadyTokens \subseteq Tokens
      BY DEF ReadyTokens, LiveTokens
    <3>3. QED
      BY <1>1, <1>2, <3>1, <3>2
      DEF Typed, TypeOK, BindingWorkerOK, BindingWorkerType, BindingPcs, binding
  <2>3. QED
    BY <2>1, <2>2
<1>4. faults' \in 0..MaxFaults
  BY FaultsTyped DEF BLookup
<1>5. QED
  BY <1>3, <1>4, BLocalTyped DEF BLookup

\* Refreshing the metadata of a candidate (MetadataCache.Ensure in Lookup)
\* keeps every variable in its type.
LEMMA BEnsureTyped == Typed /\ BEnsure => Typed'
<1> SUFFICES ASSUME Typed, BEnsure PROVE Typed'
  OBVIOUS
<1>1. bw.pc = "lookup"
  BY DEF BEnsure
<1> DEFINE rest(t) == [bw EXCEPT !.todo = @ \ {t}, !.had = @ \ {t}, !.moved = @ \ {t}]
           persists(t) == t \in bw.had \/ store[t] # NoData
           new(t) == IF persists(t) THEN [tok[t] EXCEPT !.meta = store[t]] ELSE tok[t]
           changed(t) == persists(t) /\ Restamped(t, new(t))
           found(t) == IF <<bKey, store[t]>> \in Matches THEN {t} ELSE {}
<1>2. PICK t \in bw.todo :
        \/ /\ SendToken(t, new(t), changed(t)) /\ OutdateToken(t, changed(t))
           /\ bw' = [rest(t) EXCEPT !.cand = @ \cup found(t)]
        \/ /\ bw' = [rest(t) EXCEPT !.then = "requeue"]
           /\ UNCHANGED <<tok, tw, tq, bq>>
  BY DEF BEnsure
<1>3. t \in Tokens /\ new(t) \in TokenType /\ changed(t) \in BOOLEAN
  <2>1. t \in Tokens
    BY DEF Typed, TypeOK, BindingWorkerType
  <2>2. QED
    BY <2>1 DEF Typed, TypeOK, TokenType, Restamped
<1>4. BindingWorkerOK(bw')
  <2>1. BindingWorkerOK(rest(t))
    BY <1>1 DEF Typed, TypeOK, BindingWorkerOK, BindingWorkerType
  <2>2. rest(t).pc = "lookup" /\ found(t) \subseteq Tokens
    BY <1>1, <1>3 DEF Typed, TypeOK, BindingWorkerType
  <2>3. BindingWorkerOK([rest(t) EXCEPT !.cand = @ \cup found(t)])
    BY <2>1, <2>2 DEF BindingWorkerOK, BindingWorkerType
  <2>4. BindingWorkerOK([rest(t) EXCEPT !.then = "requeue"])
    BY <2>1, <2>2 DEF BindingWorkerOK, BindingWorkerType
  <2>5. QED
    BY <1>2, <2>1, <2>3, <2>4
<1>5. /\ tok' \in [Tokens -> TokenType] /\ tq' \subseteq Tokens /\ bq' \subseteq Bindings
      /\ TokenWorkerOK(tw')
  <2>1. CASE SendToken(t, new(t), changed(t)) /\ OutdateToken(t, changed(t))
    BY <1>3, <2>1, SendTokenTyped, OutdateTokenTyped
  <2>2. CASE UNCHANGED <<tok, tw, tq, bq>>
    BY <2>2 DEF Typed, TypeOK, TokenWorkerOK
  <2>3. QED
    BY <1>2, <2>1, <2>2
<1>6. faults' \in 0..MaxFaults
  BY FaultsTyped DEF BEnsure
<1>7. QED
  BY <1>4, <1>5, <1>6
  DEF BEnsure, Typed, TypeOK, TokenWorkerOK, BindingWorkerOK, UploaderOK, outside

\* A worker that has chosen a token to link is well typed.
LEMMA LinkTyped ==
  ASSUME Typed, bw.pc # "idle", NEW t \in Tokens, NEW ready \in BOOLEAN, NEW matching \in BOOLEAN,
         NEW created \in BOOLEAN
  PROVE  BindingWorkerOK(Link(t, ready, matching, created))
  BY DEF Link, Typed, TypeOK, BindingWorkerOK, BindingWorkerType, BindingPcs, OptTok

\* Choosing a matching token (linkToken) keeps every variable in its type.
LEMMA BLinkMatchTyped == Typed /\ BLinkMatch => Typed'
<1> SUFFICES ASSUME Typed, BLinkMatch PROVE Typed'
  OBVIOUS
<1>1. bw.pc # "idle" /\ bw.cand \subseteq Tokens
  BY DEF BLinkMatch, LookedUp, Typed, TypeOK, BindingWorkerType
<1>2. BindingWorkerOK(bw')
  BY <1>1, LinkTyped DEF BLinkMatch
<1>3. QED
  BY <1>2, FaultsTyped, BLocalTyped DEF BLinkMatch

\* Loading the token already linked (linkToken) keeps every variable in its
\* type.
LEMMA BLoadLinkedTyped == Typed /\ BLoadLinked => Typed'
<1> SUFFICES ASSUME Typed, BLoadLinked PROVE Typed'
  OBVIOUS
<1>1. bw.pc # "idle" /\ Present(tok[binding.linked]) \in BOOLEAN
  BY DEF BLoadLinked, LookedUp, Present
<1>2. binding.linked \in Tokens
  BY <1>1, BCopyTyped DEF BLoadLinked, BindingType, OptTok
<1>3. CASE BCallFails(~Present(tok[binding.linked]))
  BY <1>1, <1>3, BCallFailsTyped
<1>4. CASE ~BCallFails(~Present(tok[binding.linked]))
  <2>1. BindingWorkerOK(bw')
    BY <1>1, <1>2, <1>4, LinkTyped DEF BLoadLinked
  <2>2. QED
    BY <1>4, <2>1, FaultsTyped, BLocalTyped DEF BLoadLinked
<1>5. QED
  BY <1>3, <1>4

\* Creating a token for the binding (linkToken) keeps every variable in its
\* type.
LEMMA BCreateTokenTyped == Typed /\ BCreateToken => Typed'
<1> SUFFICES ASSUME Typed, BCreateToken PROVE Typed'
  OBVIOUS
<1> DEFINE failed == [binding EXCEPT !.reason = "LinkedToken"]
<1>1. bw.pc # "idle"
  BY DEF BCreateToken, LookedUp
<1>2. CASE Fault /\ BFailWith(failed, "requeue") /\ BLocal
  <2>1. failed \in BindingType
    BY <1>1, BCopyTyped, StatusTypes DEF BindingReasons
  <2>2. QED
    BY <1>1, <1>2, <2>1, BFailWithTyped, FaultsTyped, BLocalTyped
<1>3. CASE ~(Fault /\ BFailWith(failed, "requeue") /\ BLocal)
  <2>1. PICK t \in Tokens : PutToken(t, NewToken("ok")) /\ bw' = Link(t, FALSE, TRUE, TRUE)
    BY <1>3 DEF BCreateToken
  <2>2. NewToken("ok") \in TokenType
    BY TokenTypes DEF TokenSpecType
  <2>3. tok' \in [Tokens -> TokenType] /\ tq' \subseteq Tokens /\ bq' \subseteq Bindings
    BY <2>1, <2>2, SendTokenTyped DEF PutToken
  <2>4. BindingWorkerOK(bw') /\ faults' \in 0..MaxFaults
    BY <1>1, <1>3, <2>1, LinkTyped, FaultsTyped DEF BCreateToken
  <2>5. QED
    BY <1>3, <2>3, <2>4
    DEF BCreateToken, Typed, TypeOK, TokenWorkerOK, BindingWorkerOK, UploaderOK, outside
<1>4. QED
  BY <1>2, <1>3

\* Writing the link label (persistWithMatchingLabels) keeps every variable in
\* its type.
LEMMA BLabelTyped == Typed /\ BLabel => Typed'
<1> SUFFICES ASSUME Typed, BLabel PROVE Typed'
  OBVIOUS
<1> DEFINE failed == [binding EXCEPT !.reason = "LinkedToken"]
           new == [bnd[bKey] EXCEPT !.label = bw.token]
<1>1. bw.pc # "idle" /\ bw.token \in Tokens
  BY DEF BLabel, Typed, BindingWorkerOK
<1>2. CASE WriteFails(bw.stale) /\ BFailWith(failed, AbandonLink) /\ BLocal
  <2>1. failed \in BindingType /\ AbandonLink \in {"done", "requeue", "undo", "revert"}
    BY <1>1, BCopyTyped, StatusTypes DEF BindingReasons, AbandonLink
  <2>2. BindingWorkerOK(bw')
    BY <1>1, <1>2, <2>1, BFailWithTyped
  <2>3. QED
    BY <1>1, <1>2, <2>2, BCopyTyped, FaultsTyped, BLocalTyped
<1>3. CASE BPut(new) /\ bw' = [bw EXCEPT !.obj = bnd'[bKey]] /\ UNCHANGED <<tTimer, bTimer>>
  <2>1. new \in BindingType
    BY <1>1, BCopyTyped DEF BindingType, OptTok
  <2>2. bnd'[bKey] \in BindingType
    BY <1>1, <1>3, <2>1, BCopyTyped, PutBindingTyped DEF BPut
  <2>3. BindingWorkerOK(bw') /\ tTimer' \subseteq Tokens /\ bTimer' \subseteq Bindings
    BY <1>1, <1>3, <2>2, BMoveTyped DEF Typed, TypeOK
  <2>4. QED
    BY <1>1, <1>3, <2>1, <2>3, BWriteTyped
<1>4. QED
  BY <1>2, <1>3 DEF BLabel

\* Writing the link to the status (persistWithMatchingLabels) keeps every
\* variable in its type.
LEMMA BLinkStatusTyped == Typed /\ BLinkStatus => Typed'
<1> SUFFICES ASSUME Typed, BLinkStatus PROVE Typed'
  OBVIOUS
<1> DEFINE o == [binding EXCEPT !.linked = bw.token, !.reason = ""]
           failed == [o EXCEPT !.reason = "LinkedToken"]
<1>1. bw.pc # "idle" /\ bw.token \in Tokens
  BY DEF BLinkStatus, Typed, BindingWorkerOK
<1>2. o \in BindingType
  BY <1>1, BCopyTyped DEF BindingType, BindingReasons, OptTok
<1>3. CASE WriteFails(bw.stale) /\ BFailWith(failed, AbandonLink) /\ BLocal
  <2>1. failed \in BindingType /\ AbandonLink \in {"done", "requeue", "undo", "revert"}
    BY <1>2, StatusTypes DEF BindingReasons, AbandonLink
  <2>2. BindingWorkerOK(bw')
    BY <1>1, <1>3, <2>1, BFailWithTyped
  <2>3. QED
    BY <1>1, <1>3, <2>2, BCopyTyped, FaultsTyped, BLocalTyped
<1>4. CASE BPut(BWithStatus(o)) /\ bw' = [bw EXCEPT !.obj = o] /\ UNCHANGED <<tTimer, bTimer>>
  <2>1. BWithStatus(o) \in BindingType
    BY <1>1, <1>2, BWithStatusTyped
  <2>2. BindingWorkerOK(bw') /\ tTimer' \subseteq Tokens /\ bTimer' \subseteq Bindings
    BY <1>1, <1>2, <1>4, BMoveTyped DEF Typed, TypeOK
  <2>3. QED
    BY <1>1, <1>4, <2>1, <2>2, BWriteTyped
<1>5. QED
  BY <1>3, <1>4 DEF BLinkStatus

\* Deleting the token created for a link that failed keeps every variable in
\* its type.
LEMMA BUndoTyped == Typed /\ BUndo => Typed'
<1> SUFFICES ASSUME Typed, BUndo PROVE Typed'
  OBVIOUS
<1> DEFINE t == bw.token
           gone == DeletedToken(tok[t])
<1>1. bw.pc # "idle" /\ t \in Tokens /\ bKey \in Bindings /\ Present(tok[t]) \in BOOLEAN
  BY DEF BUndo, Typed, BindingWorkerOK, bKey, Present
<1>2. gone \in TokenType
  BY <1>1, TokenTypes DEF Typed, TypeOK
<1>3. BindingWorkerOK(bw') /\ faults' \in 0..MaxFaults
  BY <1>1, BReturnTyped, FaultsTyped DEF BUndo
<1>4. /\ tok' \in [Tokens -> TokenType] /\ tq' \subseteq Tokens /\ bq' \subseteq Bindings
      /\ TokenWorkerOK(tw')
  <2>1. CASE /\ tok' = [tok EXCEPT ![t] = gone]
             /\ tq' = tq \cup TokensWokenBy(t, gone # tok[t])
             /\ bq' = bq \cup {bKey} \cup BindingsWokenBy(gone # tok[t])
             /\ OutdateToken(t, gone # tok[t])
    <3>1. TokenWorkerOK(tw')
      BY <2>1, OutdateTokenTyped
    <3>2. QED
      BY <1>1, <1>2, <2>1, <3>1 DEF TokensWokenBy, BindingsWokenBy, LiveBindings, Typed, TypeOK
  <2>2. CASE bq' = bq \cup {bKey} /\ UNCHANGED <<tok, tw, tq>>
    BY <1>1, <2>2 DEF Typed, TypeOK, TokenWorkerOK
  <2>3. QED
    BY <2>1, <2>2 DEF BUndo
<1>5. QED
  BY <1>3, <1>4
  DEF BUndo, Typed, TypeOK, TokenWorkerOK, BindingWorkerOK, UploaderOK, outside

\* Taking the checkpoint and reading the token data keeps every variable in its
\* type.
LEMMA BPrepareTyped == Typed /\ BPrepare => Typed'
<1> SUFFICES ASSUME Typed, BPrepare PROVE Typed'
  OBVIOUS
<1> DEFINE d == IF bw.ready THEN store[bw.token] ELSE NoData
           noted == [bw EXCEPT !.keep = Existing]
<1>1. bw.pc = "link" /\ bw.token \in Tokens
  BY DEF BPrepare, Linked, Typed, BindingWorkerOK
<1>2. BindingWorkerOK(noted) /\ noted.obj = binding /\ noted.token = bw.token
  BY DEF Typed, TypeOK, BindingWorkerOK, BindingWorkerType, Existing, binding
<1>3. /\ d \in OptData
      /\ Awaiting(binding) \in BindingType
      /\ Erroneous(binding, "ServiceAccountUpdate") \in BindingType
      /\ Erroneous(binding, "TokenRetrieval") \in BindingType
  <2>1. d \in OptData
    BY <1>1 DEF Typed, TypeOK, OptData
  <2>2. binding \in BindingType
    BY <1>1, BCopyTyped
  <2>3. QED
    BY <2>1, <2>2, StatusTypes DEF BindingReasons
<1>4. BindingWorkerOK(bw')
  <2>1. CASE bw' = [noted EXCEPT !.pc = "finish", !.obj = Awaiting(@)]
    <3>1. bw' = [noted EXCEPT !.pc = "finish", !.obj = Awaiting(binding)]
      BY <1>2, <2>1
    <3>2. noted.pc = "link" /\ noted \in BindingWorkerType /\ noted.key \in Bindings
      BY <1>1, <1>2 DEF BindingWorkerOK, Typed, TypeOK, BindingWorkerType
    <3>3. QED
      BY <1>3, <3>1, <3>2 DEF BindingWorkerOK, BindingWorkerType, BindingPcs
  <2>2. CASE bw' = [noted EXCEPT !.pc = "inject", !.data = d]
    BY <1>1, <1>2, <1>3, <2>2 DEF BindingWorkerOK, BindingWorkerType, BindingPcs
  <2>3. CASE BFailWith(Erroneous(binding, "ServiceAccountUpdate"), "requeue")
    BY <1>1, <1>3, <2>3, BFailWithTyped
  <2>4. CASE bw' = [noted EXCEPT !.pc = "fail", !.then = "revert", !.obj = Erroneous(@, "TokenRetrieval")]
    BY <1>1, <1>2, <1>3, <2>4 DEF BindingWorkerOK, BindingWorkerType, BindingPcs
  <2>5. QED
    BY <2>1, <2>2, <2>3, <2>4 DEF BPrepare
<1>5. QED
  BY <1>4, FaultsTyped, BLocalTyped DEF BPrepare

\* Writing the secret (Sync) keeps every variable in its type.
LEMMA BInjectTyped == Typed /\ BInject => Typed'
<1> SUFFICES ASSUME Typed, BInject PROVE Typed'
  OBVIOUS
<1>1. bw.pc # "idle"
  BY DEF BInject
<1>2. binding \in BindingType /\ bKey \in Bindings
  BY <1>1, BCopyTyped
<1>3. CASE Fault /\ BFailWith(Erroneous(binding, "TokenSync"), "revert") /\ BLocal
  <2>1. Erroneous(binding, "TokenSync") \in BindingType
    BY <1>2, StatusTypes DEF BindingReasons
  <2>2. QED
    BY <1>1, <1>3, <2>1, BFailWithTyped, FaultsTyped, BLocalTyped
<1>4. CASE ~(Fault /\ BFailWith(Erroneous(binding, "TokenSync"), "revert") /\ BLocal)
  <2>1. PICK s \in SecretNames :
          /\ sec' = [sec EXCEPT ![bKey][s] = bw.data]
          /\ bw' = [bw EXCEPT !.pc = "finish", !.data = NoData,
                       !.obj = [@ EXCEPT !.phase = "Injected", !.synced = s]]
          /\ bq' = bq \cup (IF sec' = sec THEN {} ELSE SecretWakes(bKey, s))
    BY <1>4 DEF BInject
  <2>2. s \in Secrets
    BY <1>2, ConstantsAssumption DEF SecretNames, BindingType, OptSec
  <2>3. [binding EXCEPT !.phase = "Injected", !.synced = s] \in BindingType
    BY <1>2, <2>2 DEF BindingType, BindingPhases, OptSec
  <2>4. BindingWorkerOK(bw')
    <3>1. bw' = [bw EXCEPT !.pc = "finish", !.data = NoData,
                   !.obj = [binding EXCEPT !.phase = "Injected", !.synced = s]]
      BY <2>1 DEF binding
    <3>2. bw \in BindingWorkerType /\ bw.key \in Bindings
      BY <1>1 DEF Typed, BindingWorkerOK
    <3>3. QED
      BY <2>3, <3>1, <3>2 DEF BindingWorkerOK, BindingWorkerType, BindingPcs, OptData
  <2>5. sec' \in [Bindings -> [Secrets -> OptData]] /\ bq' \subseteq Bindings
    BY <1>2, <2>1 DEF Typed, TypeOK, BindingWorkerType, SecretWakes
  <2>6. faults' \in 0..MaxFaults
    BY <1>4, FaultsTyped DEF BInject
  <2>7. QED
    BY <1>4, <2>4, <2>5, <2>6
    DEF BInject, Typed, TypeOK, TokenWorkerOK, BindingWorkerOK, UploaderOK, outside
<1>5. QED
  BY <1>3, <1>4

\* Writing the final status (updateBindingStatusSuccess) keeps every variable
\* in its type.
LEMMA BFinishTyped == Typed /\ BFinish => Typed'
<1> SUFFICES ASSUME Typed, BFinish PROVE Typed'
  OBVIOUS
<1> DEFINE o == [binding EXCEPT !.reason = ""]
<1>1. bw.pc # "idle"
  BY DEF BFinish
<1>2. o \in BindingType
  BY <1>1, BCopyTyped, StatusTypes DEF BindingReasons
<1>3. CASE WriteFails(bw.stale) /\ bw' = [bw EXCEPT !.pc = "revert"] /\ BLocal
  <2>1. BindingWorkerOK(bw')
    BY <1>1, <1>2, <1>3, BMoveTyped DEF BindingPcs
  <2>2. QED
    BY <1>1, <1>3, <2>1, BCopyTyped, FaultsTyped, BLocalTyped
<1>4. CASE ~(WriteFails(bw.stale) /\ bw' = [bw EXCEPT !.pc = "revert"] /\ BLocal)
  <2>1. BWithStatus(o) \in BindingType
    BY <1>1, <1>2, BWithStatusTyped
  <2>2. BindingWorkerOK(bw') /\ bTimer' \subseteq Bindings
    <3>1. CASE binding.phase = "Injected"
      BY <1>1, <1>4, <3>1, BCopyTyped, BReturnTyped DEF BFinish, ArmBindingTimer, Typed, TypeOK
    <3>2. CASE binding.phase # "Injected"
      <4>1. bw' = [bw EXCEPT !.pc = "cleanup", !.obj = o]
        BY <1>4, <3>2 DEF BFinish, Typed, TypeOK, BindingWorkerType, binding
      <4>2. QED
        BY <1>1, <1>2, <1>4, <3>2, <4>1, BMoveTyped DEF BFinish, BindingPcs, Typed, TypeOK
    <3>3. QED
      BY <3>1, <3>2
  <2>3. tTimer' \subseteq Tokens
    BY <1>4 DEF BFinish, Typed, TypeOK
  <2>4. QED
    BY <1>1, <1>4, <2>1, <2>2, <2>3, BWriteTyped DEF BFinish
<1>5. QED
  BY <1>3, <1>4

\* Deleting the secrets of a binding that is not injected keeps every variable
\* in its type.
LEMMA BCleanupTyped == Typed /\ BCleanup => Typed'
<1> SUFFICES ASSUME Typed, BCleanup PROVE Typed'
  OBVIOUS
<1>1. bw.pc # "idle"
  BY DEF BCleanup
<1>2. bKey \in Bindings /\ [binding EXCEPT !.reason = "TokenSync"] \in BindingType
  BY <1>1, BCopyTyped, StatusTypes DEF BindingReasons
<1>3. sec' \in [Bindings -> [Secrets -> OptData]] /\ UNCHANGED <<tok, bnd, store, du, tAge, bAge>>
  BY <1>2, CleanedUpTyped DEF BCleanup, CleanedUp
<1>4. BindingWorkerOK(bw')
  BY <1>1, <1>2, BReturnTyped, BFailWithTyped DEF BCleanup
<1>5. bq' \subseteq Bindings /\ bTimer' \subseteq Bindings
  BY <1>2 DEF BCleanup, Woken, ArmBindingTimer, Typed, TypeOK
<1>6. faults' \in 0..MaxFaults
  BY FaultsTyped DEF BCleanup
<1>7. QED
  BY <1>3, <1>4, <1>5, <1>6
  DEF BCleanup, Typed, TypeOK, TokenWorkerOK, BindingWorkerOK, UploaderOK, outside

\* Reverting what Sync created (RevertTo) keeps every variable in its type.
LEMMA BRevertTyped == Typed /\ BRevert => Typed'
<1> SUFFICES ASSUME Typed, BRevert PROVE Typed'
  OBVIOUS
<1>1. bw.pc # "idle"
  BY DEF BRevert
<1>2. sec' \in [Bindings -> [Secrets -> OptData]] /\ UNCHANGED <<tok, bnd, store, du, tAge, bAge>>
  BY <1>1, BCopyTyped, CleanedUpTyped DEF BRevert, CleanedUp, objects, Typed, TypeOK
<1>3. BindingWorkerOK(bw') /\ bq' \subseteq Bindings /\ faults' \in 0..MaxFaults
  BY <1>1, BReturnTyped, FaultsTyped DEF BRevert
<1>4. QED
  BY <1>2, <1>3
  DEF BRevert, Typed, TypeOK, TokenWorkerOK, BindingWorkerOK, UploaderOK, outside

\* Writing the status of an earlier error (updateBindingStatusError) keeps
\* every variable in its type.
LEMMA BFailTyped == Typed /\ BFail => Typed'
<1> SUFFICES ASSUME Typed, BFail PROVE Typed'
  OBVIOUS
<1>1. bw.pc = "fail" /\ bw.then \in {"done", "requeue", "undo", "revert"}
  BY DEF BFail, Typed, TypeOK, BindingWorkerType
<1>2. bw.then = "undo" => bw.token \in Tokens
  BY <1>1 DEF Typed, BindingWorkerOK
<1>3. QED
  BY <1>1, <1>2, BCopyTyped, BStatusErrorTyped DEF BFail

\* A RequeueAfter of a binding keeps every variable in its type.
LEMMA BindingTimerTyped == Typed /\ BindingTimer => Typed'
  BY DEF BindingTimer, Typed, TypeOK, TokenWorkerOK, BindingWorkerOK, UploaderOK, objects, workers, outside

\* Every step of the binding controller keeps every variable in its type.
LEMMA BindingReconcileTyped == Typed /\ BindingReconcile => Typed'
  BY BGetTyped, BBadUrlTyped, BSaveUrlTyped, BMigrateFinalizersTyped, BNoProviderTyped,
     BMigrateAreasTyped, BFinalizeTyped, BUnfinalizeTyped, BAddFinalizerTyped, BBadLifetimeTyped,
     BDeleteTyped, BInvalidTyped, BLookupTyped, BEnsureTyped, BLookupFailsTyped, BLinkMatchTyped,
     BLoadLinkedTyped, BCreateTokenTyped, BLabelTyped, BLinkStatusTyped, BUndoTyped, BMismatchTyped,
     BPrepareTyped, BInjectTyped, BFinishTyped, BCleanupTyped, BRevertTyped, BFailTyped
  DEF BindingReconcile

-----------------------------------------------------------------------------
(* The service, the users, time and restarts; the theorem.                     *)

\* The operator starts in a well-typed state.
LEMMA InitTyped == Init => Typed
<1>1. AbsentToken("none") \in TokenType /\ AbsentBinding("none") \in BindingType
  BY TokenTypes, BindingTypes DEF TokenStates
<1>2. [NewBinding(PlainSpec) EXCEPT !.fin = "old"] \in BindingType
  <2>1. PlainSpec \in BindingSpecType
    BY DEF PlainSpec, BindingSpecType
  <2>2. QED
    BY <2>1, BindingTypes DEF BindingType
<1>3. QED
  BY <1>1, <1>2, IdleTypes, ConstantsAssumption DEF Init, Typed, TypeOK, TokenWorkerOK, BindingWorkerOK, UploaderOK, OptData,
     IdleTokenWorker, IdleBindingWorker, IdleUploader

\* An upload that finds its token keeps every variable in its type.
LEMMA UploadGetTyped == Typed /\ UploadGet => Typed'
<1> SUFFICES ASSUME Typed, UploadGet PROVE Typed'
  OBVIOUS
<1>1. UploaderOK(up')
  <2>1. PICK t \in Tokens, d \in Data : up' = [up EXCEPT !.pc = "store", !.key = t, !.data = d]
    BY DEF UploadGet, LiveTokens
  <2>2. QED
    BY <2>1 DEF UploaderOK, UploaderType, OptTok, OptData, Typed, TypeOK
<1>2. ops' \in 0..MaxOps
  BY ConstantsAssumption DEF UploadGet, Typed, TypeOK
<1>3. QED
  BY <1>1, <1>2 DEF UploadGet, Typed, TypeOK, TokenWorkerOK, BindingWorkerOK, UploaderOK, objects, workers, queues

\* Storing the uploaded data keeps every variable in its type.
LEMMA UploadStoreTyped == Typed /\ UploadStore => Typed'
<1> SUFFICES ASSUME Typed, UploadStore PROVE Typed'
  OBVIOUS
<1>1. faults' \in 0..MaxFaults
  BY FaultsTyped DEF UploadStore
<1>2. store' \in [Tokens -> OptData]
  BY DEF UploadStore, Typed, TypeOK, UploaderType
<1>3. UploaderOK(up')
  <2>1. Uploaded(up.lost) \in UploaderType /\ Uploaded(up.lost).pc = "idle"
    BY IdleTypes DEF Typed, TypeOK, Uploaded, IdleUploader, UploaderType
  <2>2. QED
    BY <2>1 DEF UploadStore, Typed, TypeOK, UploaderOK, UploaderType, OptData
<1>4. QED
  BY <1>1, <1>2, <1>3 DEF UploadStore, Typed, TypeOK, TokenWorkerOK, BindingWorkerOK, UploaderOK, workers, queues

\* Creating the data update (createDataUpdate) keeps every variable in its
\* type.
LEMMA UploadNotifyTyped == Typed /\ UploadNotify => Typed'
<1> SUFFICES ASSUME Typed, UploadNotify PROVE Typed'
  OBVIOUS
<1>1. faults' \in 0..MaxFaults
  BY FaultsTyped DEF UploadNotify
<1>2. up.key \in Tokens
  BY DEF UploadNotify, Typed, UploaderOK
<1>3. du' \subseteq Tokens /\ tq' \subseteq Tokens /\ bq' \subseteq Bindings
  BY <1>2 DEF UploadNotify, Typed, TypeOK, LinkedTo, LiveBindings, DataUpdateOwner
<1>4. UploaderOK(up')
  <2>1. \A lost \in SUBSET Tokens : Uploaded(lost) \in UploaderType /\ Uploaded(lost).pc = "idle"
    BY IdleTypes DEF Uploaded, IdleUploader, UploaderType
  <2>2. up.lost \in SUBSET Tokens
    BY DEF Typed, TypeOK, UploaderType
  <2>3. QED
    BY <1>2, <2>1, <2>2 DEF UploadNotify, UploaderOK
<1>5. QED
  BY <1>1, <1>3, <1>4 DEF UploadNotify, Typed, TypeOK, TokenWorkerOK, BindingWorkerOK, UploaderOK, workers

\* Deleting a data update keeps every variable in its type.
LEMMA ProcessDataUpdateTyped == Typed /\ ProcessDataUpdate => Typed'
  BY DEF ProcessDataUpdate, Typed, TypeOK, TokenWorkerOK, BindingWorkerOK, UploaderOK,
     DataUpdateOwner, LinkedTo, LiveBindings, workers, budgets

\* A user's operation keeps the budgets in their ranges.
LEMMA UserOpTyped ==
  ASSUME Typed, NEW kind, UserOp(kind)
  PROVE  ops' \in 0..MaxOps /\ faults' \in 0..MaxFaults /\ restarts' \in 0..MaxRestarts /\ UploaderOK(up')
  BY ConstantsAssumption DEF UserOp, Typed, TypeOK, UploaderOK

\* A user creating a binding keeps every variable in its type.
LEMMA CreateBindingTyped == Typed /\ CreateBinding => Typed'
<1> SUFFICES ASSUME Typed, CreateBinding PROVE Typed'
  OBVIOUS
<1>1. PICK b \in Bindings, spec \in BindingSpecs : PutBinding(b, NewBinding(spec))
  BY DEF CreateBinding
<1>2. NewBinding(spec) \in BindingType
  BY BindingTypes, ConstantsAssumption
<1>3. bnd' \in [Bindings -> BindingType] /\ bq' \subseteq Bindings /\ tq' \subseteq Tokens
  BY <1>1, <1>2, PutBindingTyped
<1>4. QED
  BY <1>3, UserOpTyped DEF CreateBinding, Typed, TypeOK, TokenWorkerOK, BindingWorkerOK, UploaderOK, workers

\* A user deleting a binding keeps every variable in its type.
LEMMA DeleteBindingTyped == Typed /\ DeleteBinding => Typed'
<1> SUFFICES ASSUME Typed, DeleteBinding PROVE Typed'
  OBVIOUS
<1>1. PICK b \in Bindings : /\ PutBinding(b, DeletedBinding(bnd[b]))
                            /\ OutdateBinding(b, DeletedBinding(bnd[b]))
  BY DEF DeleteBinding
<1>2. DeletedBinding(bnd[b]) \in BindingType
  BY BindingTypes DEF Typed, TypeOK
<1>3. bnd' \in [Bindings -> BindingType] /\ bq' \subseteq Bindings /\ tq' \subseteq Tokens
  BY <1>1, <1>2, PutBindingTyped
<1>4. BindingWorkerOK(bw')
  BY <1>1 DEF OutdateBinding, Typed, TypeOK, BindingWorkerOK, BindingWorkerType
<1>5. QED
  BY <1>3, <1>4, UserOpTyped DEF DeleteBinding, Typed, TypeOK, TokenWorkerOK, BindingWorkerOK, UploaderOK

\* A user's write of a token keeps objects, queues and workers in their types.
LEMMA PutTokenByUserTyped ==
  ASSUME Typed, NEW t \in Tokens, NEW new \in TokenType, PutTokenByUser(t, new)
  PROVE  /\ tok' \in [Tokens -> TokenType] /\ tq' \subseteq Tokens /\ bq' \subseteq Bindings
         /\ TokenWorkerOK(tw') /\ BindingWorkerOK(bw')
<1>1. tok' \in [Tokens -> TokenType] /\ tq' \subseteq Tokens /\ bq' \subseteq Bindings
  BY SendTokenTyped DEF PutTokenByUser, PutToken
<1>2. TokenWorkerOK(tw') /\ BindingWorkerOK(bw')
  BY OutdateTokenTyped, OutdateLookupTyped DEF PutTokenByUser
<1>3. QED
  BY <1>1, <1>2

\* A user creating a token keeps every variable in its type.
LEMMA CreateTokenTyped == Typed /\ CreateToken => Typed'
<1> SUFFICES ASSUME Typed, CreateToken PROVE Typed'
  OBVIOUS
<1>1. PICK t \in Tokens, spec \in TokenSpecs : PutTokenByUser(t, NewToken(spec))
  BY DEF CreateToken
<1>2. NewToken(spec) \in TokenType
  BY TokenTypes, ConstantsAssumption
<1>3. /\ tok' \in [Tokens -> TokenType] /\ tq' \subseteq Tokens /\ bq' \subseteq Bindings
      /\ TokenWorkerOK(tw') /\ BindingWorkerOK(bw')
  BY <1>1, <1>2, PutTokenByUserTyped
<1>4. QED
  BY <1>3, UserOpTyped DEF CreateToken, Typed, TypeOK, TokenWorkerOK, BindingWorkerOK, UploaderOK

\* A user deleting a token keeps every variable in its type.
LEMMA DeleteTokenTyped == Typed /\ DeleteToken => Typed'
<1> SUFFICES ASSUME Typed, DeleteToken PROVE Typed'
  OBVIOUS
<1>1. PICK t \in Tokens : PutTokenByUser(t, DeletedToken(tok[t]))
  BY DEF DeleteToken
<1>2. DeletedToken(tok[t]) \in TokenType
  BY TokenTypes DEF Typed, TypeOK
<1>3. /\ tok' \in [Tokens -> TokenType] /\ tq' \subseteq Tokens /\ bq' \subseteq Bindings
      /\ TokenWorkerOK(tw') /\ BindingWorkerOK(bw')
  BY <1>1, <1>2, PutTokenByUserTyped
<1>4. QED
  BY <1>3, UserOpTyped DEF DeleteToken, Typed, TypeOK, TokenWorkerOK, BindingWorkerOK, UploaderOK

\* A user asking for a refresh keeps every variable in its type.
LEMMA RequestRefreshTyped == Typed /\ RequestRefresh => Typed'
<1> SUFFICES ASSUME Typed, RequestRefresh PROVE Typed'
  OBVIOUS
<1>1. PICK t \in Tokens : PutTokenByUser(t, [tok[t] EXCEPT !.refresh = TRUE])
  BY DEF RequestRefresh
<1>2. [tok[t] EXCEPT !.refresh = TRUE] \in TokenType
  BY DEF Typed, TypeOK, TokenType
<1>3. /\ tok' \in [Tokens -> TokenType] /\ tq' \subseteq Tokens /\ bq' \subseteq Bindings
      /\ TokenWorkerOK(tw') /\ BindingWorkerOK(bw')
  BY <1>1, <1>2, PutTokenByUserTyped
<1>4. QED
  BY <1>3, UserOpTyped DEF RequestRefresh, Typed, TypeOK, TokenWorkerOK, BindingWorkerOK, UploaderOK

\* A user deleting a secret keeps every variable in its type.
LEMMA DeleteSecretTyped == Typed /\ DeleteSecret => Typed'
<1> SUFFICES ASSUME Typed, DeleteSecret PROVE Typed'
  OBVIOUS
<1>1. sec' \in [Bindings -> [Secrets -> OptData]] /\ bq' \subseteq Bindings
  BY DEF DeleteSecret, SecretWakes, Typed, TypeOK, OptData
<1>2. QED
  BY <1>1, UserOpTyped DEF DeleteSecret, Typed, TypeOK, TokenWorkerOK, BindingWorkerOK, UploaderOK, workers

\* The passing of time keeps every variable in its type.
LEMMA TimeTyped == Typed /\ (TokenAges \/ BindingAges) => Typed'
<1> SUFFICES ASSUME Typed, TokenAges \/ BindingAges PROVE Typed'
  OBVIOUS
<1>1. tAge' \in [Tokens -> 0..3] /\ bAge' \in [Bindings -> 0..2]
  BY DEF TokenAges, BindingAges, Typed, TypeOK, LiveTokens, LiveBindings
<1>2. QED
  BY <1>1 DEF TokenAges, BindingAges, Typed, TypeOK, TokenWorkerOK, BindingWorkerOK, UploaderOK, workers, queues, budgets

\* A process that starts over has idle workers and queues of existing objects.
LEMMA StartOverTyped ==
  ASSUME Typed, StartOver, restarts' \in 0..MaxRestarts
  PROVE  Typed'
<1>1. TokenWorkerOK(tw') /\ BindingWorkerOK(bw')
  BY IdleTypes DEF StartOver, TokenWorkerOK, BindingWorkerOK, IdleTokenWorker, IdleBindingWorker
<1>2. QED
  BY <1>1 DEF StartOver, Typed, TypeOK, TokenWorkerOK, BindingWorkerOK, UploaderOK, LiveTokens, LiveBindings, objects

\* A restart or a panic of the process keeps every variable in its type.
LEMMA RestartTyped == Typed /\ (Restart \/ RefreshPanics) => Typed'
<1> SUFFICES ASSUME Typed, Restart \/ RefreshPanics PROVE Typed'
  OBVIOUS
<1>1. restarts' \in 0..MaxRestarts
  BY ConstantsAssumption DEF Restart, RefreshPanics, Typed, TypeOK
<1>2. QED
  BY <1>1, StartOverTyped DEF Restart, RefreshPanics

\* Every step of the operator keeps every variable in its type.
LEMMA NextTyped == Typed /\ [Next]_vars => Typed'
<1> SUFFICES ASSUME Typed, [Next]_vars PROVE Typed'
  OBVIOUS
<1>1. CASE Controllers
  BY <1>1, TokenReconcileTyped, BindingReconcileTyped, TokenTimerTyped, BindingTimerTyped DEF Controllers
<1>2. CASE Service
  BY <1>2, UploadStoreTyped, UploadNotifyTyped, ProcessDataUpdateTyped DEF Service
<1>3. CASE Users
  BY <1>3, UploadGetTyped, CreateBindingTyped, DeleteBindingTyped, CreateTokenTyped, DeleteTokenTyped,
     RequestRefreshTyped, DeleteSecretTyped DEF Users
<1>4. CASE Environment
  BY <1>4, TimeTyped, RestartTyped DEF Environment
<1>5. CASE UNCHANGED vars
  BY <1>5 DEF vars, objects, workers, queues, budgets, Typed, TypeOK, TokenWorkerOK, BindingWorkerOK, UploaderOK
<1>6. QED
  BY <1>1, <1>2, <1>3, <1>4, <1>5 DEF Next

\* Every reachable state of the operator has its type: whatever the
\* controllers, users, failures and restarts do, queues hold names of objects,
\* statuses refer to tokens and secrets that exist in the model, and workers
\* hold copies of the objects they reconcile.
THEOREM TypeCorrect == Spec => []TypeOK
<1>1. Typed => TypeOK
  BY DEF Typed
<1>2. QED
  BY <1>1, InitTyped, NextTyped, PTL DEF Spec
=============================================================================
