----------------------------- MODULE TaskProofs -----------------------------
(***************************************************************************)
(* What the host guarantees of tasks.  First the workflows, for any number *)
(* of submitters, observers, cancellers and requests: the inductive        *)
(* invariant says who may still send, what the facts in the workers' hands *)
(* are evidence of, and which outcomes have been given out.  Then the      *)
(* wait, for every deadline and interval: `seen` is no later than the poll *)
(* it belongs to, and an inspection is paid for by an interval of time, or *)
(* by a sleep that lasts until the deadline.                               *)
(***************************************************************************)
EXTENDS TaskWorkflow, TaskWait, TLAPS

(* A record without a task is blank, and before its dispatch a task is     *)
(* prepared or cancelled.                                                  *)
Grounded(s) ==
    /\ s.request = NoRequest => s.execution = "Absent" /\ ~s.dispatched
    /\ ~s.dispatched => s.execution \in {"Absent", "Queued", "Cancelled"}

(* Nobody sends, queries or applies for a task that was not dispatched. *)
Founded ==
    /\ Grounded(store)
    /\ \A w \in Workers : pc[w] \in {"send", "record", "query", "apply"} => store.dispatched

(* The dispatch claim was won by one worker, who has sent or is about to. *)
OneSender ==
    /\ sends \in {0, 1}
    /\ ~store.dispatched => sends = 0
    /\ sends = 0 => upstream = "unsent" /\ \A w \in Workers : pc[w] # "record"
    /\ \A w \in Workers : pc[w] = "send" => sends = 0
    /\ \A v, w \in Workers : pc[v] = "send" /\ pc[w] = "send" => v = w

(* What is in a worker's hands was told by the upstream. *)
Witnessed(f) ==
    /\ f = "Rejected" => upstream = "rejected"
    /\ f = "Failed" => upstream \in {"rejected", "Failed"}
    /\ f \in {"Succeeded", "CancelledNoCharge"} => upstream = f
    /\ f = "CancelledUnknown" => upstream \in {"CancelledUnknown", "CancelledNoCharge"}

FactsWitnessed ==
    \A w \in Workers :
        /\ pc[w] \in {"record", "apply"} => Witnessed(fact[w])
        /\ pc[w] = "record" => fact[w] \in {"Accepted", "Rejected", "Unknown"}
        /\ pc[w] = "apply" => fact[w] \in Completions \union {"Running", "Unknown"}

(* A worker is only ever at a step of its own workflow. *)
OwnSteps ==
    \A w \in Workers :
        /\ pc[w] \in {"begin", "send", "record"} => w \in Submitters
        /\ pc[w] \in {"query", "apply"} => w \in Observers
        /\ pc[w] \in {"cancelPrepared", "intent"} => w \in Cancellers

IInv ==
    /\ TypeOK /\ Founded /\ OneSender /\ FactsWitnessed /\ OwnSteps
    /\ ClosedOnEvidence /\ FinalAnswersAgree

(* What a transaction may do to the record, whichever it is: a task keeps  *)
(* its request and its dispatch, and a terminal one its execution, its     *)
(* event and what was released.                                            *)
Moves(s, t) ==
    /\ s.request # NoRequest => t.request = s.request
    /\ s.dispatched => t.dispatched
    /\ Terminal(s) => /\ t.execution = s.execution
                      /\ t.events = s.events
                      /\ ~s.held => ~t.held /\ t.closes = s.closes
-----------------------------------------------------------------------------
(* The transactions, field by field.                                       *)

(* prepare creates the task or leaves it alone. *)
LEMMA PreparedFields ==
    ASSUME NEW s \in Stores, NEW request \in Requests,
           s.request = NoRequest => s.execution = "Absent" /\ ~s.dispatched
    PROVE  /\ Prepared(s, request) \in Stores
           /\ Moves(s, Prepared(s, request))
           /\ s.request # NoRequest => Prepared(s, request) = s
           /\ s.request = NoRequest =>
                 /\ Prepared(s, request).request = request
                 /\ Prepared(s, request).execution = "Queued"
                 /\ Prepared(s, request).dispatched = FALSE
<1>1. Prepared(s, request) \in Stores
  BY DEF Stores, Prepared, Executions
<1>2. Moves(s, Prepared(s, request))
  <2>1. CASE s.request = NoRequest
    BY <2>1 DEF Moves, Prepared, Terminal, Finals
  <2>2. CASE s.request # NoRequest
    BY <2>2 DEF Moves, Prepared
  <2> QED  BY <2>1, <2>2
<1> QED  BY <1>1, <1>2 DEF Prepared

(* begin_dispatch sets the mark and nothing else the workflows read. *)
LEMMA DispatchedFields ==
    ASSUME NEW s \in Stores, MayDispatch(s)
    PROVE  /\ Dispatched(s) \in Stores
           /\ Moves(s, Dispatched(s))
           /\ Dispatched(s).request = s.request
           /\ Dispatched(s).execution = s.execution
           /\ Dispatched(s).held = s.held
           /\ Dispatched(s).dispatched
           /\ ~Terminal(Dispatched(s))
<1>0. s.version + 1 \in Nat
  BY DEF Stores
<1>1. Dispatched(s) \in Stores
  BY <1>0, Zenon DEF Stores, Dispatched
<1>2. /\ Dispatched(s).request = s.request
      /\ Dispatched(s).execution = s.execution
      /\ Dispatched(s).held = s.held
      /\ Dispatched(s).dispatched
  BY DEF Stores, Dispatched
<1> QED  BY <1>1, <1>2 DEF MayDispatch, Moves, Terminal

(* A takeover changes the version only. *)
LEMMA TakenOverFields ==
    ASSUME NEW s \in Stores
    PROVE  /\ TakenOver(s) \in Stores
           /\ Moves(s, TakenOver(s))
           /\ TakenOver(s).request = s.request
           /\ TakenOver(s).execution = s.execution
           /\ TakenOver(s).held = s.held
           /\ TakenOver(s).dispatched = s.dispatched
  BY DEF Stores, TakenOver, Moves, Terminal

(* A completion, whoever is allowed to commit it. *)
LEMMA CompletedFields ==
    ASSUME NEW s \in Stores, NEW completion \in Completions
    PROVE  /\ Completed(s, completion) \in Stores
           /\ Completed(s, completion).request = s.request
           /\ Completed(s, completion).execution = Execution(completion)
           /\ Completed(s, completion).held = (completion = "CancelledUnknown")
           /\ Completed(s, completion).dispatched = s.dispatched
           /\ Completed(s, completion).events = IF Terminal(s) THEN s.events ELSE s.events + 1
           /\ Execution(completion) \in Finals
<1>1. Execution(completion) \in Finals
  BY DEF Completions, Execution, Finals
<1>0. /\ s.version + 1 \in Nat
      /\ (IF completion = "CancelledUnknown" THEN s.closes ELSE s.closes + 1) \in Nat
      /\ (IF Terminal(s) THEN s.events ELSE s.events + 1) \in Nat
      /\ (completion = "CancelledUnknown") \in BOOLEAN
  BY DEF Stores
<1>2. Completed(s, completion) \in Stores
  BY <1>0, <1>1, Zenon DEF Stores, Completed, Executions
<1>3. /\ Completed(s, completion).request = s.request
      /\ Completed(s, completion).execution = Execution(completion)
      /\ Completed(s, completion).held = (completion = "CancelledUnknown")
      /\ Completed(s, completion).dispatched = s.dispatched
      /\ Completed(s, completion).events = IF Terminal(s) THEN s.events ELSE s.events + 1
  BY DEF Stores, Completed
<1> QED  BY <1>1, <1>2, <1>3

(* An open fact replaces the execution of an open task. *)
LEMMA ProgressedFields ==
    ASSUME NEW s \in Stores, NEW execution \in {"Running", "Unknown"}
    PROVE  /\ Progressed(s, execution) \in Stores
           /\ Progressed(s, execution).request = s.request
           /\ Progressed(s, execution).execution = execution
           /\ Progressed(s, execution).held = s.held
           /\ Progressed(s, execution).dispatched = s.dispatched
           /\ ~Terminal(Progressed(s, execution))
<1>0. s.version + 1 \in Nat
  BY DEF Stores
<1>1. Progressed(s, execution) \in Stores
  BY <1>0, Zenon DEF Stores, Progressed, Executions
<1>2. /\ Progressed(s, execution).request = s.request
      /\ Progressed(s, execution).execution = execution
      /\ Progressed(s, execution).held = s.held
      /\ Progressed(s, execution).dispatched = s.dispatched
  BY DEF Stores, Progressed
<1> QED  BY <1>1, <1>2 DEF Finals, Terminal

(* An intent changes nothing the workflows read. *)
LEMMA IntendedFields ==
    ASSUME NEW s \in Stores
    PROVE  /\ Intended(s) \in Stores
           /\ Moves(s, Intended(s))
           /\ Intended(s).request = s.request
           /\ Intended(s).execution = s.execution
           /\ Intended(s).held = s.held
           /\ Intended(s).dispatched = s.dispatched
  BY Zenon DEF Stores, Intended, Moves, Terminal

(* A completion under the guard of MayApply moves the record. *)
LEMMA ApplyMoves ==
    ASSUME NEW s \in Stores, NEW guard, NEW completion \in Completions, MayApply(s, guard, completion)
    PROVE  Moves(s, Completed(s, completion))
<1>1. CASE ~Terminal(s)
  BY <1>1, CompletedFields DEF Moves, MayApply
<1>2. CASE Terminal(s)
  BY <1>2, CompletedFields DEF Moves, MayApply, Execution
<1> QED  BY <1>1, <1>2

(* So does an open fact under the same guard. *)
LEMMA ProgressMoves ==
    ASSUME NEW s \in Stores, NEW execution \in {"Running", "Unknown"}, ~Terminal(s)
    PROVE  Moves(s, Progressed(s, execution))
  BY ProgressedFields DEF Moves
-----------------------------------------------------------------------------
(* Initially there is no task and nobody has begun. *)
LEMMA InitInv == Init => IInv
<1> SUFFICES ASSUME Init PROVE IInv
  OBVIOUS
<1> USE DEF Init
<1>1. TypeOK
  BY DEF TypeOK, Empty, Stores, Executions, Upstreams, Labels, Facts, Results, Outcomes, NoResult, NoOutcome
<1>2. Founded /\ OneSender
  BY StoreAssumption DEF Founded, Grounded, OneSender, Empty
<1>3. FactsWitnessed /\ OwnSteps
  BY DEF FactsWitnessed, OwnSteps
<1>4. ClosedOnEvidence /\ FinalAnswersAgree
  BY DEF ClosedOnEvidence, FinalAnswersAgree, Terminal, Finals, Empty, NoResult, NoOutcome
<1> QED  BY <1>1, <1>2, <1>3, <1>4 DEF IInv

(* Where a worker goes, and what it answers, leaves the others alone; what *)
(* it answers is the record as it then stands, or an error.                *)
Answers(w) ==
    /\ result' \in [Workers -> Results]
    /\ \A v \in Workers \ {w} : result'[v] = result[v]
    /\ result'[w] = result[w] \/ result'[w].outcome.execution \in {"Absent", store'.execution}

(* The outcome of a record is one a worker may answer with. *)
LEMMA OutcomeType ==
    ASSUME NEW s \in Stores
    PROVE  Outcome(s) \in Outcomes /\ Outcome(s).execution = s.execution
  BY DEF Outcome, Outcomes, Stores

(* A worker that goes on has answered nothing yet. *)
LEMMA GotoAnswers ==
    ASSUME IInv, NEW w \in Workers, NEW label \in Labels, Goto(w, label)
    PROVE  Answers(w) /\ pc' = [pc EXCEPT ![w] = label] /\ pc' \in [Workers -> Labels]
  BY DEF IInv, TypeOK, Goto, Answers

(* A worker that fails answers with no outcome. *)
LEMMA FailAnswers ==
    ASSUME IInv, NEW w \in Workers, Fail(w)
    PROVE  Answers(w) /\ pc' = [pc EXCEPT ![w] = "done"] /\ pc' \in [Workers -> Labels]
<1>1. [kind |-> "Err", disposition |-> "none", outcome |-> NoOutcome] \in Results
  BY DEF Results, Outcomes, NoOutcome, Executions
<1>2. result' \in [Workers -> Results] /\ result'[w].outcome.execution = "Absent"
  BY <1>1 DEF IInv, TypeOK, Fail, NoOutcome
<1> QED  BY <1>2 DEF IInv, TypeOK, Fail, Answers, Labels

(* A worker that returns answers with the record's outcome. *)
LEMMA ReturnAnswers ==
    ASSUME IInv, NEW w \in Workers, NEW disposition \in {"none", "Applied", "Replayed", "Conflict"},
           store' \in Stores, Return(w, disposition, Outcome(store'))
    PROVE  Answers(w) /\ pc' = [pc EXCEPT ![w] = "done"] /\ pc' \in [Workers -> Labels]
<1>1. [kind |-> "Ok", disposition |-> disposition, outcome |-> Outcome(store')] \in Results
  BY OutcomeType DEF Results
<1>2. result' \in [Workers -> Results] /\ result'[w].outcome.execution = store'.execution
  BY <1>1, OutcomeType DEF IInv, TypeOK, Return
<1> QED  BY <1>2 DEF IInv, TypeOK, Return, Answers, Labels

(* Final answers keep agreeing with a record that moves. *)
LEMMA AnswersAgree ==
    ASSUME IInv, NEW w \in Workers, Answers(w), Moves(store, store'), store' \in Stores
    PROVE  FinalAnswersAgree'
<1> SUFFICES ASSUME NEW v \in Workers, result'[v].outcome.execution \in Finals
             PROVE  result'[v].outcome.execution = store'.execution
  BY DEF FinalAnswersAgree
<1>1. CASE result'[v] = result[v]
  BY <1>1 DEF IInv, FinalAnswersAgree, Moves, Terminal
<1>2. CASE result'[v] # result[v]
  <2>1. result'[v].outcome.execution \in {"Absent", store'.execution}
    BY <1>2 DEF Answers
  <2> QED  BY <2>1 DEF Finals
<1> QED  BY <1>1, <1>2
-----------------------------------------------------------------------------
(* ClosedOnEvidence of a record that is about to be committed. *)
Evident(s) ==
    Terminal(s) =>
        \/ ~s.dispatched /\ sends = 0 /\ s.execution = "Cancelled"
        \/ upstream = "rejected" /\ s.execution = "Failed"
        \/ upstream \in Completions /\ s.execution = Execution(upstream)
           /\ (~s.held => upstream # "CancelledUnknown")

(* What a transaction may commit. *)
Sound(s) == s \in Stores /\ Moves(store, s) /\ Grounded(s) /\ Evident(s)

(* A transaction that does not commit is sound. *)
LEMMA StoreSound == ASSUME IInv PROVE Sound(store)
  BY DEF IInv, TypeOK, Founded, ClosedOnEvidence, Sound, Moves, Evident

(* Preparing a task. *)
LEMMA PreparedSound ==
    ASSUME IInv, NEW request \in Requests
    PROVE  Sound(Prepared(store, request))
<1>1. CASE store.request # NoRequest
  BY <1>1, StoreSound DEF Prepared
<1>2. CASE store.request = NoRequest
  <2>1. store \in Stores /\ Grounded(store)
    BY DEF IInv, TypeOK, Founded
  <2> QED  BY <1>2, <2>1, PreparedFields, StoreAssumption, Zenon DEF Sound, Grounded, Evident, Terminal, Finals
<1> QED  BY <1>1, <1>2

(* Dispatching a prepared task. *)
LEMMA DispatchedSound ==
    ASSUME IInv, MayDispatch(store)
    PROVE  Sound(Dispatched(store))
<1>1. store \in Stores
  BY DEF IInv, TypeOK
<1> QED  BY <1>1, DispatchedFields DEF Sound, Grounded, Evident, MayDispatch

(* Taking over the claim of a task. *)
LEMMA TakenOverSound ==
    ASSUME IInv
    PROVE  Sound(TakenOver(store))
<1>1. store \in Stores /\ Sound(store)
  BY StoreSound DEF IInv, TypeOK
<1> QED  BY <1>1, TakenOverFields DEF Sound, Grounded, Evident, Terminal

(* Noting that a task is to be cancelled. *)
LEMMA IntendedSound ==
    ASSUME IInv
    PROVE  Sound(Intended(store))
<1>1. store \in Stores /\ Sound(store)
  BY StoreSound DEF IInv, TypeOK
<1> QED  BY <1>1, IntendedFields DEF Sound, Grounded, Evident, Terminal

(* An open fact does not close the task. *)
LEMMA ProgressedSound ==
    ASSUME IInv, store.dispatched, ~Terminal(store), NEW execution \in {"Running", "Unknown"}
    PROVE  Sound(Progressed(store, execution))
<1>1. store \in Stores /\ Grounded(store)
  BY DEF IInv, TypeOK, Founded
<1> QED  BY <1>1, ProgressedFields, ProgressMoves DEF Sound, Grounded, Evident

(* A completion that the upstream gave evidence of closes the task on it. *)
LEMMA CompletedSound ==
    ASSUME IInv, NEW guard, NEW completion \in Completions, MayApply(store, guard, completion),
           Witnessed(completion)
    PROVE  Sound(Completed(store, completion))
<1>1. store \in Stores /\ Grounded(store) /\ store.dispatched
  BY DEF IInv, TypeOK, Founded, MayApply
<1>2. Moves(store, Completed(store, completion))
  BY <1>1, ApplyMoves
<1>3. Grounded(Completed(store, completion))
  BY <1>1, CompletedFields DEF Grounded
<1>4. Evident(Completed(store, completion))
  <2>1. /\ Completed(store, completion).execution = Execution(completion)
        /\ Completed(store, completion).held = (completion = "CancelledUnknown")
    BY <1>1, CompletedFields
  <2>2. CASE completion = "Failed"
    BY <2>1, <2>2 DEF Evident, Witnessed, Completions, Execution
  <2>3. CASE completion \in {"Succeeded", "CancelledNoCharge"}
    BY <2>1, <2>3 DEF Evident, Witnessed, Completions, Execution
  <2>4. CASE completion = "CancelledUnknown"
    BY <2>1, <2>4, Zenon DEF Evident, Witnessed, Completions, Execution
  <2> QED  BY <2>2, <2>3, <2>4 DEF Completions
<1> QED  BY <1>1, <1>2, <1>3, <1>4, CompletedFields DEF Sound

(* Before its dispatch nothing was sent, and a cancellation may close. *)
LEMMA CancelledSound ==
    ASSUME IInv, MayCancelPrepared(store)
    PROVE  Sound(CancelledPrepared(store))
<1>1. store \in Stores /\ Grounded(store) /\ sends = 0
  BY DEF IInv, TypeOK, Founded, MayCancelPrepared, OneSender
<1>2. "CancelledNoCharge" \in Completions /\ Execution("CancelledNoCharge") = "Cancelled"
  BY DEF Completions, Execution
<1> QED  BY <1>1, <1>2, CompletedFields
         DEF Sound, Grounded, Evident, Moves, CancelledPrepared, MayCancelPrepared
-----------------------------------------------------------------------------
(* A step of one worker that neither sends nor hears from a send keeps the *)
(* invariant, if it commits something sound and goes where it may.         *)
LEMMA QuietInv ==
    ASSUME IInv, NEW w \in Workers, NEW label \in Labels \ {"record"},
           UNCHANGED <<upstream, sends>>, Sound(store'), Answers(w),
           pc' = [pc EXCEPT ![w] = label],
           claim' \in [Workers -> Nat], fact' \in [Workers -> Facts],
           \A v \in Workers \ {w} : fact'[v] = fact[v],
           label \in {"send", "query", "apply"} => store'.dispatched,
           label = "send" => ~store.dispatched,
           label = "apply" => Witnessed(fact'[w]) /\ fact'[w] \in Completions \union {"Running", "Unknown"},
           label \in {"begin", "send"} => w \in Submitters,
           label \in {"query", "apply"} => w \in Observers,
           label \in {"cancelPrepared", "intent"} => w \in Cancellers
    PROVE  IInv' /\ Moves(store, store')
<1> USE DEF Sound
<1>1. TypeOK'
  BY Zenon DEF IInv, TypeOK, Answers
<1>2. Founded'
  BY DEF IInv, TypeOK, Founded, Moves
<1>3. OneSender'
  <2>1. sends' \in {0, 1} /\ (sends' = 0 => upstream' = "unsent")
    BY DEF IInv, OneSender
  <2>2. ~store'.dispatched => sends' = 0
    BY DEF IInv, OneSender, Moves
  <2>3. \A v \in Workers : pc'[v] = "record" => pc[v] = "record"
    BY DEF IInv, TypeOK
  <2>4. \A v \in Workers : pc'[v] = "send" => sends' = 0
    BY DEF IInv, TypeOK, OneSender
  <2>5. \A u, v \in Workers : pc'[u] = "send" /\ pc'[v] = "send" => u = v
    BY DEF IInv, TypeOK, OneSender, Founded
  <2> QED  BY <2>1, <2>2, <2>3, <2>4, <2>5 DEF IInv, OneSender
<1>4. FactsWitnessed'
  BY DEF IInv, TypeOK, FactsWitnessed, Witnessed
<1>5. OwnSteps'
  BY DEF IInv, TypeOK, OwnSteps
<1>6. ClosedOnEvidence'
  BY DEF ClosedOnEvidence, Evident, Terminal
<1>7. FinalAnswersAgree'
  BY AnswersAgree
<1> QED  BY <1>1, <1>2, <1>3, <1>4, <1>5, <1>6, <1>7 DEF IInv
-----------------------------------------------------------------------------
(* One lemma for each action.                                              *)

(* A transaction that fails, with or without its commit, ends the worker. *)
LEMMA FaultedInv ==
    ASSUME IInv, NEW w \in Workers, NEW s, Sound(s), Faulted(w, s), claim' \in [Workers -> Nat],
           UNCHANGED <<upstream, sends, fact>>
    PROVE  IInv' /\ Moves(store, store')
<1>1. Sound(store') /\ Fail(w)
  BY StoreSound DEF Faulted
<1> QED  BY <1>1, FailAnswers, QuietInv DEF Labels, IInv, TypeOK

(* A submitter prepares the record. *)
LEMMA PrepareInv ==
    ASSUME IInv, NEW w \in Workers, NEW request \in Requests, Prepare(w, request)
    PROVE  IInv' /\ Moves(store, store')
<1>1. Sound(Prepared(store, request))
  BY PreparedSound
<1>2. /\ claim' \in [Workers -> Nat] /\ fact' \in [Workers -> Facts]
      /\ UNCHANGED <<upstream, sends, claim, fact>> /\ w \in Submitters
  BY DEF Prepare, Keep, IInv, TypeOK
<1>3. CASE store' = Prepared(store, request) /\ Verdict(store, request) = "Created" /\ Goto(w, "begin")
  BY <1>1, <1>2, <1>3, GotoAnswers, QuietInv DEF Labels
<1>4. CASE /\ store' = Prepared(store, request) /\ Verdict(store, request) # "Created"
           /\ Return(w, Verdict(store, request), Outcome(store))
  <2>1. store' = store
    BY <1>4 DEF Prepared, Verdict
  <2>2. Answers(w) /\ pc' = [pc EXCEPT ![w] = "done"]
    BY <1>4, <2>1, ReturnAnswers DEF Verdict, IInv, TypeOK
  <2> QED  BY <1>1, <1>2, <1>4, <2>2, QuietInv, Zenon DEF Labels
<1>5. CASE Faulted(w, Prepared(store, request))
  BY <1>1, <1>2, <1>5, FaultedInv
<1> QED  BY <1>3, <1>4, <1>5 DEF Prepare

(* A submitter claims the dispatch. *)
LEMMA BeginInv ==
    ASSUME IInv, NEW w \in Workers, Begin(w)
    PROVE  IInv' /\ Moves(store, store')
<1>1. /\ fact' \in [Workers -> Facts] /\ UNCHANGED <<upstream, sends, fact>> /\ w \in Submitters
  BY DEF Begin, IInv, TypeOK, OwnSteps
<1>2. CASE MayDispatch(store) /\ store' = Dispatched(store) /\ Goto(w, "send")
           /\ claim' = [claim EXCEPT ![w] = store.version + 1]
  <2>1. claim' \in [Workers -> Nat]
    BY <1>2 DEF IInv, TypeOK, Stores
  <2>2. Sound(store') /\ store'.dispatched /\ ~store.dispatched
    BY <1>2, DispatchedSound, DispatchedFields DEF MayDispatch, IInv, TypeOK
  <2> QED  BY <1>1, <1>2, <2>1, <2>2, GotoAnswers, QuietInv DEF Labels
<1>3. CASE Goto(w, "reload") /\ UNCHANGED <<store, claim>>
  <2>1. claim' \in [Workers -> Nat] /\ Sound(store')
    BY <1>3, StoreSound DEF IInv, TypeOK
  <2> QED  BY <1>1, <1>3, <2>1, GotoAnswers, QuietInv DEF Labels
<1>4. CASE Faulted(w, IF MayDispatch(store) THEN Dispatched(store) ELSE store) /\ UNCHANGED claim
  <2>1. claim' \in [Workers -> Nat] /\ Sound(IF MayDispatch(store) THEN Dispatched(store) ELSE store)
    BY <1>4, StoreSound, DispatchedSound DEF IInv, TypeOK
  <2> QED  BY <1>1, <1>4, <2>1, FaultedInv
<1> QED  BY <1>2, <1>3, <1>4 DEF Begin

(* A submitter records what the upstream answered. *)
LEMMA RecordInv ==
    ASSUME IInv, NEW w \in Workers, Record(w)
    PROVE  IInv' /\ Moves(store, store')
<1> DEFINE s == Recorded(store, fact[w])
<1>1. /\ claim' \in [Workers -> Nat] /\ fact' \in [Workers -> Facts] /\ UNCHANGED <<upstream, sends, claim, fact>>
  BY DEF Record, Keep, IInv, TypeOK
<1>2. Witnessed(fact[w]) /\ fact[w] \in {"Accepted", "Rejected", "Unknown"}
  BY DEF Record, IInv, FactsWitnessed
<1>3. MayApply(store, claim[w], "Failed") => Sound(s)
  <2> SUFFICES ASSUME MayApply(store, claim[w], "Failed") PROVE Sound(s)
    OBVIOUS
  <2>1. CASE fact[w] = "Rejected"
    <3>1. Witnessed("Failed") /\ "Failed" \in Completions
      BY <1>2, <2>1 DEF Witnessed, Completions
    <3> QED  BY <2>1, <3>1, CompletedSound DEF Recorded
  <2>2. CASE fact[w] # "Rejected"
    BY <2>2, ProgressedSound DEF Recorded, MayApply
  <2> QED  BY <2>1, <2>2
<1>4. CASE MayApply(store, claim[w], "Failed") /\ store' = s /\ Return(w, "Applied", Outcome(s))
  <2>1. Sound(store') /\ store' \in Stores
    BY <1>3, <1>4 DEF Sound
  <2>2. Answers(w) /\ pc' = [pc EXCEPT ![w] = "done"]
    BY <1>4, <2>1, ReturnAnswers
  <2> QED  BY <1>1, <2>1, <2>2, QuietInv, Zenon DEF Labels
<1>5. CASE UNCHANGED store /\ Goto(w, "reload")
  <2>1. Sound(store')
    BY <1>5, StoreSound
  <2> QED  BY <1>1, <1>5, <2>1, GotoAnswers, QuietInv DEF Labels
<1>6. CASE Faulted(w, IF MayApply(store, claim[w], "Failed") THEN s ELSE store)
  <2>1. Sound(IF MayApply(store, claim[w], "Failed") THEN s ELSE store)
    BY <1>3, StoreSound
  <2> QED  BY <1>1, <1>6, <2>1, FaultedInv
<1> QED  BY <1>4, <1>5, <1>6 DEF Record

(* A submitter reads back the record another worker moved. *)
LEMMA ReloadInv ==
    ASSUME IInv, NEW w \in Workers, Reload(w)
    PROVE  IInv' /\ Moves(store, store')
<1>1. /\ claim' \in [Workers -> Nat] /\ fact' \in [Workers -> Facts] /\ UNCHANGED <<store, upstream, sends, claim, fact>>
      /\ Sound(store') /\ store' \in Stores
  BY StoreSound DEF Reload, Keep, IInv, TypeOK
<1>2. Answers(w) /\ pc' = [pc EXCEPT ![w] = "done"]
  <2>1. CASE Fail(w)
    BY <2>1, FailAnswers
  <2>2. CASE Return(w, IF w \in Submitters THEN "Replayed" ELSE "none", Outcome(store'))
    BY <1>1, <2>2, ReturnAnswers
  <2> QED  BY <1>1, <2>1, <2>2 DEF Reload
<1> QED  BY <1>1, <1>2, QuietInv, Zenon DEF Labels

(* An observer takes the claim. *)
LEMMA LoadInv ==
    ASSUME IInv, NEW w \in Workers, Load(w)
    PROVE  IInv' /\ Moves(store, store')
<1>1. /\ fact' \in [Workers -> Facts] /\ UNCHANGED <<upstream, sends, fact>> /\ w \in Observers
  BY DEF Load, IInv, TypeOK
<1>2. CASE Claimable(store) /\ store' = TakenOver(store) /\ Goto(w, "query")
           /\ claim' = [claim EXCEPT ![w] = store.version + 1]
  <2>1. claim' \in [Workers -> Nat]
    BY <1>2 DEF IInv, TypeOK, Stores
  <2>2. Sound(store') /\ store'.dispatched
    BY <1>2, TakenOverSound, TakenOverFields DEF Claimable, IInv, TypeOK
  <2> QED  BY <1>1, <1>2, <2>1, <2>2, GotoAnswers, QuietInv DEF Labels
<1>3. CASE Return(w, "none", Outcome(store)) /\ UNCHANGED <<store, claim>>
  <2>1. claim' \in [Workers -> Nat] /\ Sound(store') /\ store' = store /\ store' \in Stores
    BY <1>3, StoreSound DEF IInv, TypeOK
  <2>2. Answers(w) /\ pc' = [pc EXCEPT ![w] = "done"]
    BY <1>3, <2>1, ReturnAnswers
  <2> QED  BY <1>1, <2>1, <2>2, QuietInv, Zenon DEF Labels
<1>4. CASE Faulted(w, IF Claimable(store) THEN TakenOver(store) ELSE store) /\ UNCHANGED claim
  <2>1. claim' \in [Workers -> Nat] /\ Sound(IF Claimable(store) THEN TakenOver(store) ELSE store)
    BY <1>4, StoreSound, TakenOverSound DEF IInv, TypeOK
  <2> QED  BY <1>1, <1>4, <2>1, FaultedInv
<1> QED  BY <1>2, <1>3, <1>4 DEF Load

(* An observer asks the upstream. *)
LEMMA QueryInv ==
    ASSUME IInv, NEW w \in Workers, Query(w)
    PROVE  IInv' /\ Moves(store, store')
<1>1. /\ claim' \in [Workers -> Nat] /\ UNCHANGED <<store, upstream, sends, claim>>
      /\ Sound(store') /\ store.dispatched /\ w \in Observers
  BY StoreSound DEF Query, IInv, TypeOK, Founded, OwnSteps
<1>2. CASE (\E f \in {Observation, "Unknown"} : fact' = [fact EXCEPT ![w] = f]) /\ Goto(w, "apply")
  <2>1. PICK f \in {Observation, "Unknown"} : fact' = [fact EXCEPT ![w] = f]
    BY <1>2, Zenon
  <2>2. Witnessed(f) /\ f \in Completions \union {"Running", "Unknown"}
    BY <2>1 DEF Observation, Witnessed, Completions
  <2>3. f \in Facts
    BY <2>2 DEF Facts
  <2>4. fact' \in [Workers -> Facts] /\ fact'[w] = f /\ \A v \in Workers \ {w} : fact'[v] = fact[v]
    BY <2>1, <2>3 DEF IInv, TypeOK
  <2> QED  BY <1>1, <1>2, <2>2, <2>4, GotoAnswers, QuietInv DEF Labels
<1>3. CASE Fail(w) /\ UNCHANGED fact
  <2>1. fact' \in [Workers -> Facts]
    BY <1>3 DEF IInv, TypeOK
  <2> QED  BY <1>1, <1>3, <2>1, FailAnswers, QuietInv DEF Labels
<1> QED  BY <1>2, <1>3 DEF Query

(* An observer applies what it saw. *)
LEMMA ApplyInv ==
    ASSUME IInv, NEW w \in Workers, Apply(w)
    PROVE  IInv' /\ Moves(store, store')
<1> DEFINE s == Observed(store, fact[w])
<1>1. /\ claim' \in [Workers -> Nat] /\ fact' \in [Workers -> Facts] /\ UNCHANGED <<upstream, sends, claim, fact>>
  BY DEF Apply, Keep, IInv, TypeOK
<1>2. Witnessed(fact[w]) /\ fact[w] \in Completions \union {"Running", "Unknown"}
  BY DEF Apply, IInv, FactsWitnessed
<1>3. MayApply(store, claim[w], fact[w]) => Sound(s)
  <2> SUFFICES ASSUME MayApply(store, claim[w], fact[w]) PROVE Sound(s)
    OBVIOUS
  <2>1. CASE fact[w] \in Completions
    BY <1>2, <2>1, CompletedSound DEF Observed
  <2>2. CASE fact[w] \notin Completions
    <3>1. ~Terminal(store) /\ store.dispatched /\ fact[w] \in {"Running", "Unknown"}
      BY <1>2, <2>2 DEF MayApply, Completions
    <3> QED  BY <2>2, <3>1, ProgressedSound DEF Observed
  <2> QED  BY <2>1, <2>2
<1>4. CASE MayApply(store, claim[w], fact[w]) /\ store' = s /\ Return(w, "none", Outcome(s))
  <2>1. Sound(store') /\ store' \in Stores
    BY <1>3, <1>4 DEF Sound
  <2>2. Answers(w) /\ pc' = [pc EXCEPT ![w] = "done"]
    BY <1>4, <2>1, ReturnAnswers
  <2> QED  BY <1>1, <2>1, <2>2, QuietInv, Zenon DEF Labels
<1>5. CASE UNCHANGED store /\ Goto(w, "reload")
  <2>1. Sound(store')
    BY <1>5, StoreSound
  <2> QED  BY <1>1, <1>5, <2>1, GotoAnswers, QuietInv DEF Labels
<1>6. CASE Faulted(w, IF MayApply(store, claim[w], fact[w]) THEN s ELSE store)
  <2>1. Sound(IF MayApply(store, claim[w], fact[w]) THEN s ELSE store)
    BY <1>3, StoreSound
  <2> QED  BY <1>1, <1>6, <2>1, FaultedInv
<1> QED  BY <1>4, <1>5, <1>6 DEF Apply

(* A canceller reads the record. *)
LEMMA LoadForCancelInv ==
    ASSUME IInv, NEW w \in Workers, LoadForCancel(w)
    PROVE  IInv' /\ Moves(store, store')
<1>1. /\ claim' \in [Workers -> Nat] /\ fact' \in [Workers -> Facts] /\ UNCHANGED <<store, upstream, sends, claim, fact>>
      /\ Sound(store') /\ store' \in Stores /\ w \in Cancellers
  BY StoreSound DEF LoadForCancel, Keep, IInv, TypeOK
<1>2. CASE Return(w, "none", Outcome(store'))
  BY <1>1, <1>2, ReturnAnswers, QuietInv DEF Labels
<1>3. ASSUME NEW label \in {"cancelPrepared", "intent"}, Goto(w, label)
      PROVE  IInv' /\ Moves(store, store')
  BY <1>1, <1>3, GotoAnswers, QuietInv DEF Labels
<1>4. CASE Fail(w)
  BY <1>1, <1>4, FailAnswers, QuietInv DEF Labels
<1> QED  BY <1>1, <1>2, <1>3, <1>4 DEF LoadForCancel

(* A canceller closes a task that was never sent. *)
LEMMA CancelPreparedInv ==
    ASSUME IInv, NEW w \in Workers, CancelPrepared(w)
    PROVE  IInv' /\ Moves(store, store')
<1> DEFINE s == CancelledPrepared(store)
<1>1. /\ claim' \in [Workers -> Nat] /\ fact' \in [Workers -> Facts] /\ UNCHANGED <<upstream, sends, claim, fact>>
      /\ w \in Cancellers
  BY DEF CancelPrepared, Keep, IInv, TypeOK, OwnSteps
<1>2. CASE MayCancelPrepared(store) /\ store' = s /\ Return(w, "none", Outcome(s))
  <2>1. Sound(store') /\ store' \in Stores
    BY <1>2, CancelledSound DEF Sound
  <2>2. Answers(w) /\ pc' = [pc EXCEPT ![w] = "done"]
    BY <1>2, <2>1, ReturnAnswers
  <2> QED  BY <1>1, <2>1, <2>2, QuietInv, Zenon DEF Labels
<1>3. CASE UNCHANGED store /\ Goto(w, "intent")
  <2>1. Sound(store')
    BY <1>3, StoreSound
  <2> QED  BY <1>1, <1>3, <2>1, GotoAnswers, QuietInv DEF Labels
<1>4. CASE Faulted(w, IF MayCancelPrepared(store) THEN s ELSE store)
  <2>1. Sound(IF MayCancelPrepared(store) THEN s ELSE store)
    BY CancelledSound, StoreSound
  <2> QED  BY <1>1, <1>4, <2>1, FaultedInv
<1> QED  BY <1>2, <1>3, <1>4 DEF CancelPrepared

(* A canceller records its intent. *)
LEMMA RecordCancelIntentInv ==
    ASSUME IInv, NEW w \in Workers, RecordCancelIntent(w)
    PROVE  IInv' /\ Moves(store, store')
<1>1. /\ claim' \in [Workers -> Nat] /\ fact' \in [Workers -> Facts] /\ UNCHANGED <<upstream, sends, claim, fact>>
  BY DEF RecordCancelIntent, Keep, IInv, TypeOK
<1>2. CASE store' = Intended(store) /\ Return(w, "none", Outcome(Intended(store)))
  <2>1. Sound(store') /\ store' \in Stores
    BY <1>2, IntendedSound DEF Sound
  <2>2. Answers(w) /\ pc' = [pc EXCEPT ![w] = "done"]
    BY <1>2, <2>1, ReturnAnswers
  <2> QED  BY <1>1, <2>1, <2>2, QuietInv, Zenon DEF Labels
<1>3. CASE Faulted(w, Intended(store))
  BY <1>1, <1>3, IntendedSound, FaultedInv
<1> QED  BY <1>2, <1>3 DEF RecordCancelIntent

(* The future of a worker is dropped. *)
LEMMA DropInv ==
    ASSUME IInv, NEW w \in Workers, Drop(w)
    PROVE  IInv' /\ Moves(store, store')
<1>1. /\ claim' \in [Workers -> Nat] /\ fact' \in [Workers -> Facts] /\ UNCHANGED <<upstream, sends, claim, fact>>
      /\ Sound(store') /\ Fail(w)
  BY StoreSound DEF Drop, Keep, IInv, TypeOK
<1> QED  BY <1>1, FailAnswers, QuietInv DEF Labels

(* The send: it is the only one, and the upstream had not heard of the     *)
(* task, so that nothing was final and no fact is contradicted.            *)
LEMMA SendInv ==
    ASSUME IInv, NEW w \in Workers, Send(w)
    PROVE  IInv' /\ Moves(store, store')
<1>1. /\ pc[w] = "send" /\ sends = 0 /\ sends' = 1 /\ store.dispatched /\ upstream = "unsent" /\ w \in Submitters
      /\ UNCHANGED <<store, claim>>
  BY DEF Send, IInv, Founded, OneSender, OwnSteps
<1>2. Answers(w) /\ pc' = [pc EXCEPT ![w] = "record"] /\ pc' \in [Workers -> Labels]
  BY GotoAnswers DEF Send, Labels
<1>3. PICK f \in {"Accepted", "Rejected", "Unknown"} :
         /\ fact' = [fact EXCEPT ![w] = f]
         /\ upstream' \in {"unsent", "accepted", "rejected"}
         /\ f = "Rejected" => upstream' = "rejected"
  BY DEF Send
<1>4. fact' \in [Workers -> Facts] /\ fact'[w] = f /\ \A v \in Workers \ {w} : fact'[v] = fact[v]
  BY <1>3 DEF IInv, TypeOK, Facts
<1>5. TypeOK'
  BY <1>1, <1>2, <1>3, <1>4 DEF IInv, TypeOK, Answers, Upstreams
<1>6. Founded' /\ OwnSteps'
  BY <1>1, <1>2 DEF IInv, TypeOK, Founded, Grounded, OwnSteps
<1>7. OneSender'
  <2>1. \A v \in Workers : pc'[v] # "send"
    BY <1>1, <1>2 DEF IInv, TypeOK, OneSender
  <2> QED  BY <1>1, <2>1 DEF OneSender
<1>8. FactsWitnessed'
  <2> SUFFICES ASSUME NEW v \in Workers
               PROVE  /\ pc'[v] \in {"record", "apply"} => Witnessed(fact[v])'
                      /\ pc'[v] = "record" => fact'[v] \in {"Accepted", "Rejected", "Unknown"}
                      /\ pc'[v] = "apply" => fact'[v] \in Completions \union {"Running", "Unknown"}
    BY DEF FactsWitnessed
  <2>1. CASE v = w
    BY <1>2, <1>3, <1>4, <2>1 DEF Witnessed, IInv, TypeOK
  <2>2. CASE v # w
    <3>1. pc'[v] = pc[v] /\ fact'[v] = fact[v] /\ pc[v] # "record"
      BY <1>1, <1>2, <1>4, <2>2 DEF IInv, TypeOK, OneSender
    <3> QED  BY <1>1, <3>1 DEF IInv, FactsWitnessed, Witnessed, Completions
  <2> QED  BY <2>1, <2>2
<1>9. ~Terminal(store)
  BY <1>1 DEF IInv, ClosedOnEvidence, Completions
<1>10. ClosedOnEvidence'
  BY <1>1, <1>9 DEF ClosedOnEvidence, Terminal
<1>11. FinalAnswersAgree'
  BY <1>1, <1>2, AnswersAgree DEF Moves, Terminal, IInv, TypeOK
<1> QED  BY <1>1, <1>5, <1>6, <1>7, <1>8, <1>10, <1>11 DEF IInv, Moves

(* The upstream only ever confirms what it has told. *)
LEMMA UpstreamInv ==
    ASSUME IInv, UpstreamProgress
    PROVE  IInv' /\ Moves(store, store')
<1>1. UNCHANGED <<store, sends, pc, claim, fact, result>>
  BY DEF UpstreamProgress
<1>2. /\ upstream \in {"accepted", "CancelledUnknown"} /\ upstream' \in Completions
      /\ upstream = "CancelledUnknown" => upstream' = "CancelledNoCharge"
  BY DEF UpstreamProgress, Completions
<1>3. TypeOK' /\ Founded' /\ OwnSteps' /\ FinalAnswersAgree'
  BY <1>1, <1>2 DEF IInv, TypeOK, Founded, Grounded, OwnSteps, FinalAnswersAgree, Upstreams
<1>4. OneSender'
  BY <1>1, <1>2 DEF IInv, OneSender
<1>5. FactsWitnessed'
  BY <1>1, <1>2 DEF IInv, FactsWitnessed, Witnessed, Completions
<1>6. ClosedOnEvidence'
  BY <1>1, <1>2 DEF IInv, ClosedOnEvidence, Terminal, Completions, Execution
<1> QED  BY <1>1, <1>3, <1>4, <1>5, <1>6 DEF IInv, Moves
-----------------------------------------------------------------------------
(* Every step keeps the invariant and moves the record as a transaction    *)
(* may.                                                                    *)
LEMMA NextInv == IInv /\ [Next]_vars => IInv' /\ Moves(store, store')
<1> SUFFICES ASSUME IInv, [Next]_vars PROVE IInv' /\ Moves(store, store')
  OBVIOUS
<1>1. ASSUME NEW w \in Workers, Step(w)
      PROVE  IInv' /\ Moves(store, store')
  BY <1>1, PrepareInv, BeginInv, SendInv, RecordInv, ReloadInv, LoadInv, QueryInv, ApplyInv,
     LoadForCancelInv, CancelPreparedInv, RecordCancelIntentInv, DropInv DEF Step
<1>2. CASE UpstreamProgress
  BY <1>2, UpstreamInv
<1>3. CASE UNCHANGED vars
  BY <1>3 DEF vars, IInv, TypeOK, Founded, Grounded, OneSender, FactsWitnessed, Witnessed, OwnSteps,
              ClosedOnEvidence, FinalAnswersAgree, Terminal, Moves
<1> QED  BY <1>1, <1>2, <1>3 DEF Next

(* The workflows keep the invariant. *)
THEOREM Invariance == Spec => []IInv
  BY InitInv, NextInv, PTL DEF Spec

(* However many workers submit, replay, crash or lose replies, the task is *)
(* sent at most once (south-task-core lib.rs:74, 89).                      *)
THEOREM SentOnce == Spec => []SentAtMostOnce
<1>1. IInv => SentAtMostOnce
  BY DEF IInv, OneSender, SentAtMostOnce
<1> QED  BY <1>1, Invariance, PTL

(* A final fact is recorded, and resources are released, only on evidence: *)
(* a definite rejection, a reported completion, or a cancellation before   *)
(* dispatch (lib.rs:74, 105, 198-200).                                     *)
THEOREM EvidenceFirst == Spec => []ClosedOnEvidence
<1>1. IInv => ClosedOnEvidence
  BY DEF IInv
<1> QED  BY <1>1, Invariance, PTL

(* A cancelling worker leaves execution and resources of a dispatched task *)
(* as they are: it finds that cancel_prepared is refused and records its   *)
(* intent.                                                                 *)
LEMMA CancellerKeeps ==
    ASSUME IInv, NEW w \in Workers, Step(w), NEW c \in Cancellers, pc[c] # pc'[c], store.dispatched
    PROVE  store'.execution = store.execution /\ store'.held = store.held
<1>1. c = w
  BY Zenon DEF Step, Prepare, Begin, Send, Record, Reload, Load, Query, Apply, LoadForCancel, CancelPrepared,
         RecordCancelIntent, Drop, Goto, Return, Fail, Faulted, IInv, TypeOK, Workers
<1>2. w \notin Submitters /\ w \notin Observers
  BY <1>1, RolesAssumption
<1>3. pc[w] \notin {"begin", "send", "record", "query", "apply"}
  BY <1>2 DEF IInv, OwnSteps
<1>4. CASE Reload(w) \/ LoadForCancel(w) \/ Drop(w)
  BY <1>4 DEF Reload, LoadForCancel, Drop
<1>5. CASE CancelPrepared(w)
  BY <1>5 DEF CancelPrepared, MayCancelPrepared, Faulted
<1>6. CASE RecordCancelIntent(w)
  BY <1>6, IntendedFields DEF RecordCancelIntent, Faulted, IInv, TypeOK
<1> QED  BY <1>2, <1>3, <1>4, <1>5, <1>6, Zenon DEF Step, Prepare, Begin, Send, Record, Load, Query, Apply

(* A task has one final answer: every worker that gives one gives the      *)
(* durable one; the durable one never changes, nor what was released; and  *)
(* no cancellation decides a dispatched task (lib.rs:35, 79, 86, 106-116,  *)
(* 311-317).                                                               *)
THEOREM OneAnswer == Spec => OneFinalAnswer
<1>1. IInv => FinalAnswersAgree
  BY DEF IInv
<1>2. IInv /\ [Next]_vars =>
         [Terminal(store) => /\ store'.execution = store.execution
                             /\ store'.events = store.events
                             /\ ~store.held => ~store'.held /\ store'.closes = store.closes]_vars
  BY NextInv DEF Moves
<1>3. Spec => TerminalIsFinal
  BY <1>2, Invariance, PTL DEF Spec, TerminalIsFinal
<1>4. IInv /\ [Next]_vars =>
         [\A w \in Cancellers : pc[w] # pc'[w] /\ store.dispatched =>
             store'.execution = store.execution /\ store'.held = store.held]_vars
  <2> SUFFICES ASSUME IInv, [Next]_vars, NEW c \in Cancellers, pc[c] # pc'[c], store.dispatched
               PROVE  store'.execution = store.execution /\ store'.held = store.held
    OBVIOUS
  <2>1. CASE UpstreamProgress \/ UNCHANGED vars
    BY <2>1 DEF UpstreamProgress, vars
  <2>2. CASE \E w \in Workers : Step(w)
    BY <2>2, CancellerKeeps
  <2> QED  BY <2>1, <2>2 DEF Next
<1>5. Spec => CancelNeverFreesDispatched
  BY <1>4, Invariance, PTL DEF Spec, CancelNeverFreesDispatched
<1> QED  BY <1>1, <1>3, <1>5, Invariance, PTL DEF OneFinalAnswer

-----------------------------------------------------------------------------
(* The wait of a call. *)

(* What the current poll has already ruled out. *)
Polled ==
    /\ arm \in {"pollTimer", "pollOperation"} => ~seen.token /\ remaining <= seen.left
    /\ arm = "pollOperation" => seen.left > 0
    /\ arm # "done" => answer = "none"

(* The inspections begun and the time they took. *)
Spaced ==
    /\ interval = 0 => inspected = 0 /\ arm \in {"enter", "done"}
    /\ reading # "unbegun" => inspected > 0
    /\ phase = "sleep" => reading # "unbegun"
    /\ inspected > 0 => (inspected - 1) * interval <= deadline - remaining
    /\ phase = "sleep" => inspected * interval <= (deadline - remaining) + nap \/ nap = remaining
    /\ phase = "inspect" /\ reading = "unbegun" =>
          inspected * interval <= deadline - remaining \/ (remaining = 0 /\ arm # "pollOperation")

WaitInv == WaitTypeOK /\ SignalsComeFirst /\ Polled /\ Spaced

(* The arithmetic of intervals. *)
LEMMA OneMoreInterval ==
    ASSUME NEW n \in Nat, NEW i \in Nat
    PROVE  (n + 1) * i = n * i + i /\ n * i \in Nat
  OBVIOUS

(* As many inspections as whole intervals fit into the time spent. *)
LEMMA WholeIntervals ==
    ASSUME NEW n \in Nat, NEW i \in Nat \ {0}, NEW e \in Nat, n * i <= e
    PROVE  n <= e \div i
  OBVIOUS

(* A bound on the time spent and the sleep ahead, carried to a later moment. *)
LEMMA TimePasses ==
    ASSUME NEW a \in Nat, NEW d \in Nat, NEW l \in Nat, NEW n \in Nat, NEW l2 \in Nat, NEW n2 \in Nat,
           a <= (d - l) + n, (d - l) + n <= (d - l2) + n2
    PROVE  a <= (d - l2) + n2
  OBVIOUS

(* A bound on the time spent, carried to a later moment. *)
LEMMA BudgetShrinks ==
    ASSUME NEW a \in Nat, NEW d \in Nat, NEW l \in Nat, NEW l2 \in Nat, a <= d - l, l2 <= l
    PROVE  a <= d - l2
  OBVIOUS

(* The clipped sleep is the shorter of the interval and the budget. *)
LEMMA SleepIsShorter ==
    ASSUME interval \in Nat, remaining \in Nat
    PROVE  Sleep = IF interval <= remaining THEN interval ELSE remaining
<1>1. \E x \in {interval, remaining} : \A y \in {interval, remaining} : x <= y
  OBVIOUS
<1> QED  BY <1>1 DEF Sleep, Min

(* The numbers of a state are numbers. *)
LEMMA WaitNumbers ==
    ASSUME WaitTypeOK
    PROVE  /\ deadline \in Nat /\ interval \in Nat /\ remaining \in Nat /\ nap \in Nat /\ inspected \in Nat
           /\ remaining <= deadline /\ nap <= remaining
  BY WaitAssumption DEF WaitTypeOK

(* A wait begins with its whole budget and no inspection. *)
LEMMA WaitInitInv ==
    ASSUME WaitInit
    PROVE  WaitInv
<1>1. deadline \in Nat /\ interval \in Nat
  BY WaitAssumption DEF WaitInit
<1>2. WaitTypeOK
  BY <1>1 DEF WaitInit, WaitTypeOK, Readings
<1>3. SignalsComeFirst /\ Polled
  BY DEF WaitInit, SignalsComeFirst, Polled
<1>4. Spaced
  BY <1>1 DEF WaitInit, Spaced
<1> QED  BY <1>2, <1>3, <1>4 DEF WaitInv

(* One poll, arm by arm. *)
LEMMA PollKeeps ==
    ASSUME WaitInv, Poll
    PROVE  WaitInv'
<1> USE DEF WaitInv
<1>0. /\ deadline \in Nat /\ interval \in Nat /\ remaining \in Nat /\ nap \in Nat /\ inspected \in Nat
      /\ remaining <= deadline /\ nap <= remaining
  BY WaitNumbers
<1>1. CASE WaitEnter
  <2>1. WaitTypeOK'
    BY <1>1 DEF WaitEnter, WaitReturns, WaitGoto, WaitTypeOK
  <2>2. SignalsComeFirst' /\ Polled' /\ Spaced'
    BY <1>1 DEF WaitEnter, WaitReturns, WaitGoto, SignalsComeFirst, Polled, Spaced
  <2> QED  BY <2>1, <2>2
<1>2. CASE PollCancel
  <2>1. WaitTypeOK'
    BY <1>0, <1>2 DEF PollCancel, WaitReturns, WaitGoto, WaitTypeOK
  <2>2. seen'.token = token /\ seen'.left = remaining /\ remaining' = remaining /\ token \in BOOLEAN /\ interval # 0
    BY <1>2 DEF PollCancel, WaitTypeOK, Spaced
  <2>3. SignalsComeFirst' /\ Polled'
    <3>1. CASE token
      BY <1>2, <3>1 DEF PollCancel, WaitReturns, SignalsComeFirst, Polled
    <3>2. CASE ~token
      BY <1>0, <1>2, <2>2, <3>2 DEF PollCancel, WaitGoto, SignalsComeFirst, Polled
    <3> QED  BY <3>1, <3>2
  <2>4. Spaced'
    BY <1>2, <2>2 DEF PollCancel, WaitReturns, WaitGoto, Spaced
  <2> QED  BY <2>1, <2>3, <2>4
<1>3. CASE PollTimer
  <2>1. WaitTypeOK'
    BY <1>3 DEF PollTimer, WaitReturns, WaitGoto, WaitTypeOK
  <2>2. seen.left \in Nat
    BY <1>0 DEF WaitTypeOK
  <2>3. SignalsComeFirst' /\ Polled' /\ Spaced'
    BY <1>0, <1>3, <2>2 DEF PollTimer, WaitReturns, WaitGoto, SignalsComeFirst, Polled, Spaced
  <2> QED  BY <2>1, <2>3
<1>4. CASE PollInspect
  <2>0. UNCHANGED <<deadline, interval, remaining, token, seen>> /\ arm = "pollOperation" /\ phase = "inspect"
    BY <1>4 DEF PollInspect
  <2>1. CASE /\ reading = "unbegun" /\ reading' = "begun" /\ inspected' = inspected + 1
             /\ WaitGoto("pollOperation") /\ UNCHANGED <<phase, nap>>
    <3>1. WaitTypeOK' /\ SignalsComeFirst' /\ Polled'
      BY <1>0, <2>0, <2>1 DEF WaitGoto, WaitTypeOK, Readings, SignalsComeFirst, Polled
    <3>2. inspected * interval <= deadline - remaining
      BY <2>0, <2>1 DEF Spaced
    <3>3. (inspected' - 1) * interval' <= deadline' - remaining'
      <4>1. inspected' - 1 = inspected
        BY <1>0, <2>1
      <4> QED  BY <2>0, <3>2, <4>1
    <3>4. Spaced'
      BY <1>0, <2>0, <2>1, <3>3 DEF WaitGoto, Spaced
    <3> QED  BY <3>1, <3>4
  <2>2. CASE /\ reading \in {"begun", "Ready", "Host"} /\ UNCHANGED <<reading, inspected, phase, nap>>
             /\ WaitGoto("pollCancel") \/ (reading \in {"Ready", "Host"} /\ WaitReturns(reading))
    <3>1. WaitTypeOK'
      BY <2>0, <2>2 DEF WaitGoto, WaitReturns, WaitTypeOK
    <3>2. SignalsComeFirst' /\ Polled'
      BY <2>0, <2>2 DEF WaitGoto, WaitReturns, SignalsComeFirst, Polled
    <3>3. Spaced'
      BY <2>0, <2>2 DEF WaitGoto, WaitReturns, Spaced
    <3> QED  BY <3>1, <3>2, <3>3
  <2>3. CASE /\ reading = "Pending" /\ phase' = "sleep" /\ nap' = Sleep
             /\ WaitGoto("pollCancel") /\ UNCHANGED <<reading, inspected>>
    <3>1. nap' = IF interval <= remaining THEN interval ELSE remaining
      BY <1>0, <2>3, SleepIsShorter
    <3>2. WaitTypeOK'
      BY <1>0, <2>0, <2>3, <3>1 DEF WaitGoto, WaitTypeOK
    <3>3. SignalsComeFirst' /\ Polled'
      BY <2>0, <2>3 DEF WaitGoto, SignalsComeFirst, Polled
    <3>4. inspected > 0 /\ (inspected - 1) * interval <= deadline - remaining
      BY <2>3 DEF Spaced
    <3>5. inspected * interval = (inspected - 1) * interval + interval /\ (inspected - 1) * interval \in Nat
      <4>1. inspected - 1 \in Nat /\ (inspected - 1) + 1 = inspected
        BY <1>0, <3>4
      <4> QED  BY <1>0, <4>1, OneMoreInterval
    <3>6. inspected * interval <= (deadline - remaining) + nap' \/ nap' = remaining
      <4> DEFINE before == (inspected - 1) * interval
                 after == inspected * interval
      <4>1. before \in Nat /\ after = before + interval /\ before <= deadline - remaining
        BY <3>4, <3>5
      <4> HIDE DEF before, after
      <4>2. after <= (deadline - remaining) + nap' \/ nap' = remaining
        BY <1>0, <3>1, <4>1
      <4> QED  BY <4>2 DEF after
    <3>7. Spaced'
      BY <2>0, <2>3, <3>4, <3>6 DEF WaitGoto, Spaced
    <3> QED  BY <3>2, <3>3, <3>7
  <2> QED  BY <1>4, <2>1, <2>2, <2>3 DEF PollInspect
<1>5. CASE PollSleep
  <2>0. UNCHANGED <<deadline, interval, remaining, token, nap, inspected, seen>> /\ arm = "pollOperation" /\ phase = "sleep"
        /\ WaitGoto("pollCancel")
    BY <1>5 DEF PollSleep
  <2>1. WaitTypeOK'
    BY <1>5, <2>0 DEF PollSleep, WaitGoto, WaitTypeOK, Readings
  <2>2. SignalsComeFirst' /\ Polled'
    BY <2>0 DEF WaitGoto, SignalsComeFirst, Polled
  <2>3. Spaced'
    <3>1. CASE nap > 0 /\ UNCHANGED <<phase, reading>>
      BY <2>0, <3>1 DEF WaitGoto, Spaced
    <3>2. CASE nap = 0 /\ phase' = "inspect" /\ reading' = "unbegun"
      <4>1. inspected * interval <= (deadline - remaining) + nap \/ nap = remaining
        BY <2>0 DEF Spaced
      <4>2. inspected * interval <= deadline - remaining \/ remaining = 0
        BY <1>0, <3>2, <4>1
      <4> QED  BY <2>0, <3>2, <4>2 DEF WaitGoto, Spaced
    <3> QED  BY <1>5, <3>1, <3>2 DEF PollSleep
  <2> QED  BY <2>1, <2>2, <2>3
<1> QED  BY <1>1, <1>2, <1>3, <1>4, <1>5 DEF Poll

(* The host, the token and the clock. *)
LEMMA OthersKeep ==
    ASSUME WaitInv, HostAnswers \/ WaitCancel \/ WaitTick
    PROVE  WaitInv'
<1> USE DEF WaitInv
<1>0. /\ deadline \in Nat /\ interval \in Nat /\ remaining \in Nat /\ nap \in Nat /\ inspected \in Nat
      /\ remaining <= deadline /\ nap <= remaining
  BY WaitNumbers
<1>1. CASE HostAnswers
  <2>1. WaitTypeOK' /\ SignalsComeFirst' /\ Polled'
    BY <1>1 DEF HostAnswers, WaitTypeOK, Readings, SignalsComeFirst, Polled
  <2>2. Spaced'
    BY <1>1 DEF HostAnswers, Spaced
  <2> QED  BY <2>1, <2>2
<1>2. CASE WaitCancel
  <2>1. WaitTypeOK' /\ SignalsComeFirst' /\ Polled'
    BY <1>2 DEF WaitCancel, WaitTypeOK, SignalsComeFirst, Polled
  <2>2. Spaced'
    BY <1>2 DEF WaitCancel, Spaced
  <2> QED  BY <2>1, <2>2
<1>3. CASE WaitTick
  <2>0. UNCHANGED <<deadline, interval, token, arm, phase, reading, inspected, seen, answer>>
    BY <1>3 DEF WaitTick
  <2>1. remaining' \in Nat /\ remaining' <= remaining /\ nap' \in Nat /\ nap' <= remaining' /\ (remaining = 0 => remaining' = 0)
        /\ (nap = remaining => nap' = remaining') /\ (deadline - remaining) + nap <= (deadline' - remaining') + nap'
    BY <1>0, <1>3, <2>0 DEF WaitTick, Less
  <2>2. WaitTypeOK'
    BY <1>0, <2>0, <2>1 DEF WaitTypeOK
  <2>3. seen.left \in Nat
    BY <1>0 DEF WaitTypeOK
  <2>4. SignalsComeFirst' /\ Polled'
    BY <1>0, <2>0, <2>1, <2>3 DEF SignalsComeFirst, Polled
  <2>5. Spaced'
    <3> DEFINE before == (inspected - 1) * interval
               after == inspected * interval
    <3>1. after \in Nat /\ (inspected > 0 => before \in Nat)
      <4>1. after \in Nat
        BY <1>0, OneMoreInterval
      <4>2. ASSUME inspected > 0 PROVE before \in Nat
        <5>1. inspected - 1 \in Nat
          BY <1>0, <4>2
        <5> QED  BY <1>0, <5>1, OneMoreInterval
      <4> QED  BY <4>1, <4>2
    <3>2. /\ inspected > 0 => before <= deadline - remaining
          /\ phase = "sleep" => after <= (deadline - remaining) + nap \/ nap = remaining
          /\ phase = "inspect" /\ reading = "unbegun" =>
                after <= deadline - remaining \/ (remaining = 0 /\ arm # "pollOperation")
      BY DEF Spaced
    <3>3. before' = before /\ after' = after
      BY <2>0
    <3> HIDE DEF before, after
    <3>4. deadline' = deadline /\ inspected' = inspected /\ phase' = phase /\ reading' = reading /\ arm' = arm
      BY <2>0
    <3>5. inspected > 0 => before <= deadline - remaining'
      BY <1>0, <2>1, <3>1, <3>2
    <3>6. ASSUME phase = "sleep" PROVE after <= (deadline - remaining') + nap' \/ nap' = remaining'
      <4>1. (deadline - remaining) + nap <= (deadline - remaining') + nap'
        BY <2>1, <3>4
      <4>2. CASE nap = remaining
        BY <2>1, <4>2
      <4>3. CASE after <= (deadline - remaining) + nap
        <5>1. remaining' \in Nat /\ nap' \in Nat /\ after \in Nat
          BY <2>1, <3>1
        <5>2. after <= (deadline - remaining') + nap'
          BY <1>0, <4>1, <4>3, <5>1, TimePasses, Zenon
        <5> QED  BY <5>2
      <4> QED  BY <3>2, <3>6, <4>2, <4>3
    <3>7. ASSUME phase = "inspect", reading = "unbegun"
          PROVE  after <= deadline - remaining' \/ (remaining' = 0 /\ arm # "pollOperation")
      <4>1. remaining' \in Nat /\ remaining' <= remaining /\ (remaining = 0 => remaining' = 0)
        BY <2>1
      <4>2. CASE after <= deadline - remaining
        <5>1. after <= deadline - remaining'
          BY <1>0, <3>1, <4>1, <4>2, BudgetShrinks, Zenon
        <5> QED  BY <5>1
      <4> QED  BY <3>2, <3>7, <4>1, <4>2
    <3> QED  BY <2>0, <3>4, <3>5, <3>6, <3>7 DEF Spaced, before, after
  <2> QED  BY <2>2, <2>4, <2>5
<1> QED  BY <1>1, <1>2, <1>3

(* The wait keeps its invariant. *)
THEOREM WaitInvariance == WaitSpec => []WaitInv
<1>1. WaitInit => WaitInv
  BY WaitInitInv
<1>2. WaitInv /\ [WaitNext]_waitVars => WaitInv'
  <2> SUFFICES ASSUME WaitInv, [WaitNext]_waitVars PROVE WaitInv'
    OBVIOUS
  <2>1. CASE UNCHANGED waitVars
    BY <2>1 DEF waitVars, WaitInv, WaitTypeOK, SignalsComeFirst, Polled, Spaced
  <2> QED  BY <2>1, PollKeeps, OthersKeep DEF WaitNext
<1> QED  BY <1>1, <1>2, PTL DEF WaitSpec

(* Cancellation wins over the deadline and the deadline over an answer     *)
(* (lib.rs:253, 335-353).                                                  *)
THEOREM SignalsFirst == WaitSpec => []SignalsComeFirst
<1>1. WaitInv => SignalsComeFirst
  BY DEF WaitInv
<1> QED  BY <1>1, WaitInvariance, PTL

(* Inspections are at least one interval apart (lib.rs:228, 261). *)
THEOREM NeverBusy == WaitSpec => []NoBusyLoop
<1>1. WaitInv => NoBusyLoop
  <2> SUFFICES ASSUME WaitInv PROVE NoBusyLoop
    OBVIOUS
  <2>1. /\ deadline \in Nat /\ interval \in Nat /\ remaining \in Nat /\ inspected \in Nat /\ remaining <= deadline
    BY WaitNumbers DEF WaitInv
  <2>2. CASE interval = 0
    BY <2>2 DEF WaitInv, Spaced, NoBusyLoop
  <2>3. CASE interval # 0 /\ inspected = 0
    BY <2>1, <2>3, WholeIntervals DEF NoBusyLoop
  <2>4. CASE interval # 0 /\ inspected # 0
    <3>1. inspected - 1 \in Nat /\ deadline - remaining \in Nat /\ (inspected - 1) * interval <= deadline - remaining
      BY <2>1, <2>4 DEF WaitInv, Spaced
    <3>2. inspected - 1 <= (deadline - remaining) \div interval
      BY <2>1, <2>4, <3>1, WholeIntervals, Zenon
    <3> QED  BY <2>1, <2>4, <3>1, <3>2 DEF NoBusyLoop
  <2> QED  BY <2>2, <2>3, <2>4
<1> QED  BY <1>1, WaitInvariance, PTL

(* Both together, as a wait promises them. *)
THEOREM Disciplined == WaitSpec => []WaitDisciplined
<1>1. SignalsComeFirst /\ NoBusyLoop => WaitDisciplined
  BY DEF WaitDisciplined
<1> QED  BY <1>1, SignalsFirst, NeverBusy, PTL
=============================================================================
