------------------------------ MODULE WatchTrace ------------------------------
(***************************************************************************)
(* The composition of Watch and Trace: what a tick of runWatch does takes  *)
(* as long as its slowest part, the HTTP transaction of runTrace, and      *)
(* Ctrl+C may arrive at any step of it.  Watch by itself lets a tick be    *)
(* one step that always comes; here it comes only once the transaction is  *)
(* over, and the reading it records is one the transaction has left.       *)
(***************************************************************************)
EXTENDS Watch

CONSTANTS Schemes, Attempts, MaxRedirects      \* those of Trace

ASSUME SchemesAssumption == Schemes \subseteq {"http", "https"}
ASSUME MaxRedirectsAssumption == MaxRedirects \in Nat \ {0}

VARIABLES stage, hop, scheme, idle, reused, attempt, clock, mark, redirects, chain, phases, trace

T == INSTANCE Trace

transaction == <<stage, hop, scheme, idle, reused, attempt, clock, mark, redirects, chain, phases, trace>>

SessionInit == Init /\ T!Init

-------------------------------------------------------------------------------
(* A step of the transaction, while the loop is inside runAllChecks.       *)
Transact == pc = "tick" /\ T!Next /\ UNCHANGED vars

(* runTrace has returned, at once if the name did not resolve.             *)
Traced == stage = "end" \/ (stage = "get" /\ clock = 1)

(* TTFB is the sum of three phases, also those of a transaction that       *)
(* failed; clock orders the events, it does not say how long they took.    *)
TTFB == IF \E p \in {"TCP", "TLS", "Server"} : phases[p] # <<>> THEN Readings ELSE {0}

(* The tick ends, and the next one starts with a fresh diagnosis.          *)
TickEnds ==
  /\ Traced
  /\ \E r \in Reports : ("ttfb" \in Metrics => r["ttfb"] \in TTFB) /\ Record(r)
  /\ stage' = "get" /\ hop' = 1 /\ scheme' \in Schemes /\ idle' = {} /\ reused' = FALSE
  /\ attempt' = [x \in T!Hops \X Attempts |-> "unborn"]
  /\ clock' = 1 /\ mark' = [e \in T!Events |-> 0]
  /\ redirects' = 0 /\ chain' = <<>> /\ phases' = [p \in T!Phases |-> <<>>] /\ trace' = "nil"

Others == Notify \/ Hide \/ Draw \/ TimerFires \/ SelectTimer

SessionNext ==
  \/ Transact \/ TickEnds
  \/ (Others \/ Interrupt \/ SelectSignal) /\ UNCHANGED transaction
  \/ Ended /\ UNCHANGED <<vars, transaction>>

(* As for Watch and Trace: the loop goes on, a ready signal is not passed  *)
(* over for ever, the client's timer fires, and runTrace returns.          *)
Within(A) == pc = "tick" /\ A /\ UNCHANGED vars
Beside(A) == A /\ UNCHANGED transaction

SessionSpec ==
  /\ SessionInit /\ [][SessionNext]_<<vars, transaction>>
  /\ WF_vars(Beside(Others)) /\ WF_vars(TickEnds) /\ SF_vars(Beside(SelectSignal))
  /\ WF_transaction(Within(T!Timeout))
  /\ WF_transaction(Within(T!ReturnError)) /\ WF_transaction(Within(T!ReturnResponse))

-------------------------------------------------------------------------------
(* At every step of every transaction of every tick, what Watch and Trace  *)
(* promise of themselves: the rings hold the latest readings, the cursor   *)
(* comes back, and the phases and redirects reported are true.             *)
SessionSafe == WatchSafe /\ T!TransactionFaithful

(* Watch is what a user sees of the session: each tick takes its time, and *)
(* yet the loop goes round for ever or until Ctrl+C, because runTrace      *)
(* returns whatever the servers on the way do.                             *)
ImplementsWatch == Spec
===============================================================================
