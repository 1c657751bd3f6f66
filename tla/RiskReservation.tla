--------------------------- MODULE RiskReservation ---------------------------
(***************************************************************************)
(* Reserving risk for a new paper order when several processes share the   *)
(* trading database: execution/risk_reservation.py (path "risk") and, with *)
(* conflict control, execution/conflict_path.py (path "conflict").         *)
(*                                                                         *)
(* A caller loads the paper state, evaluates the candidate on it, and      *)
(* saves the order only if the state is still the one it loaded; a stale   *)
(* attempt is redone once. A conflict caller first binds its run to its    *)
(* candidate by a claim, and leaves one decisive row per run. Fills,       *)
(* cancels and closes by the rest of the runtime happen at any point.      *)
(*                                                                         *)
(* Money is in units in which a planned trade risks 7 and its worst        *)
(* permitted fill 8 (factor 8/7); the account's equity is constant.        *)
(***************************************************************************)
EXTENDS Naturals, Sequences, FiniteSets

CONSTANTS
    Caller, Symbol, Run,
    Request,    \* [path, run, sym, setup, sound]: sound if it passes plan and account gates
    Legacy,     \* a run whose order carries no registered risk policy
    Reserve,    \* reservation of a pending order
    FillRisk,   \* risks of a filled position
    Limit,      \* 2.30% of the equity
    None

ASSUME RiskAssumption ==
    /\ IsFiniteSet(Symbol) /\ IsFiniteSet(Run)
    /\ Reserve \in Nat /\ Limit \in Nat /\ Reserve <= Limit
    /\ FillRisk \subseteq 0..Reserve   \* the worst permitted fill is what was reserved
    /\ None \notin Nat

\* The path is the deployment's, so one for a run; a run with a registered policy is not
\* Legacy; and a candidate's fingerprint covers its plan, its instrument and the policy, so
\* the gates that look at neither orders nor positions find the same of the same candidate.
ASSUME RequestAssumption ==
    /\ \A q \in Request : /\ q \in [path : {"risk", "conflict"}, run : Run, sym : Symbol,
                                     setup : {x.setup : x \in Request}, sound : BOOLEAN]
                          /\ q.path = "conflict" => q.run # Legacy
    /\ \A p, q \in Request :
         p.run = q.run => /\ p.path = q.path
                          /\ p.sym = q.sym /\ p.setup = q.setup => p.sound = q.sound
    /\ None \notin Request /\ None \notin {"RESERVED", "DUPLICATE_RUN"}
    /\ \A q \in Request : None # [sym |-> q.sym, setup |-> q.setup]

VARIABLES
    state,       \* paper_orders and paper_positions: orders by run, open risk by symbol
    claim,      \* RUN_CANDIDATE_CLAIM rows
    decided,    \* CONFLICT_DECISION rows of a run
    staleRow,   \* runs with a CONFLICT_ATTEMPT_STALE row
    caller

reserveVars == <<state, claim, decided, staleRow, caller>>

NoOrder == [status |-> "NONE", sym |-> None, setup |-> None, known |-> TRUE]
Quiet == [pc |-> "idle", req |-> None, attempt |-> 0, state |-> None, answer |-> None]
Candidate(q) == [sym |-> q.sym, setup |-> q.setup]

ReserveInit ==
    /\ \E s \in Symbol, there \in BOOLEAN :
         state = [order |-> [r \in Run |-> IF r = Legacy /\ there
                                          THEN [status |-> "PENDING", sym |-> s, setup |-> None, known |-> FALSE]
                                          ELSE NoOrder],
                 open |-> [x \in Symbol |-> None]]
    /\ claim = [r \in Run |-> None]
    /\ decided = [r \in Run |-> <<>>]
    /\ staleRow = {}
    /\ caller = [c \in Caller |-> Quiet]

-----------------------------------------------------------------------------
\* The paper state and what a candidate meets in it.

PendingRuns(b) == {r \in Run : b.order[r].status = "PENDING"}
OpenSymbols(b) == {s \in Symbol : b.open[s] # None}
\* The sum of the open risks, as the number of their units.
OpenUnits(b) == UNION {{s} \X (1..b.open[s]) : s \in OpenSymbols(b)}
OpenRisk(b) == Cardinality(OpenUnits(b))

\* conflict_engine.classify: any exposure of the symbol blocks, whatever its direction or setup.
SymbolExposed(b, s) == b.open[s] # None \/ \E r \in PendingRuns(b) : b.order[r].sym = s

\* risk_engine_v2.evaluate: the gates in their order.
Evaluate_UnknownIsFree(b, q) ==   \* mutant: an order without a policy reserves nothing
    IF ~q.sound THEN "PLAN_OR_ACCOUNT"
    ELSE IF SymbolExposed(b, q.sym) THEN "SYMBOL_EXPOSURE_LIMIT"
    ELSE IF OpenRisk(b) + Reserve * Cardinality({r \in PendingRuns(b) : b.order[r].known}) + Reserve > Limit
         THEN "PORTFOLIO_RISK_LIMIT"
    ELSE "APPROVED"
Evaluate(b, q) ==
    IF ~q.sound THEN "PLAN_OR_ACCOUNT"
    ELSE IF \E r \in PendingRuns(b) : ~b.order[r].known THEN "UNKNOWN_PENDING_RISK_POLICY"
    ELSE IF SymbolExposed(b, q.sym) THEN "SYMBOL_EXPOSURE_LIMIT"
    ELSE IF OpenRisk(b) + Reserve * Cardinality(PendingRuns(b)) + Reserve > Limit THEN "PORTFOLIO_RISK_LIMIT"
    ELSE "APPROVED"

\* The rest of the runtime: an order is filled or cancelled, a position closed.
Fill(r) == /\ state.order[r].status = "PENDING"
           /\ \E risk \in FillRisk :
                state' = [state EXCEPT !.order[r].status = "FILLED", !.open[state.order[r].sym] = risk]
           /\ UNCHANGED <<claim, decided, staleRow, caller>>
Cancel(r) == /\ state.order[r].status = "PENDING"
             /\ state' = [state EXCEPT !.order[r].status = "CANCELLED"]
             /\ UNCHANGED <<claim, decided, staleRow, caller>>
ClosePosition(s) == /\ state.open[s] # None
                    /\ state' = [state EXCEPT !.open[s] = None]
                    /\ UNCHANGED <<claim, decided, staleRow, caller>>

-----------------------------------------------------------------------------
\* The callers.

Proceed(c, pc) == caller' = [caller EXCEPT ![c].pc = pc]
Reply(c, a) == caller' = [caller EXCEPT ![c] = [Quiet EXCEPT !.req = caller[c].req, !.answer = a]]

Submit(c) ==
    /\ caller[c].pc = "idle"
    /\ \E q \in Request :
         caller' = [caller EXCEPT ![c] = [Quiet EXCEPT !.req = q, !.attempt = 1,
                                          !.pc = IF q.path = "conflict" THEN "claim" ELSE "load"]]
    /\ UNCHANGED <<state, claim, decided, staleRow>>

HasOutcome(r) == state.order[r].status # "NONE" \/ decided[r] # <<>>

ClaimRun_Rebind(c) ==   \* mutant: a later candidate takes the run over
    /\ caller[c].pc = "claim"
    /\ LET q == caller[c].req IN
       IF claim[q.run] = None /\ HasOutcome(q.run)
       THEN Reply(c, "NOT_SUBMITTED") /\ claim' = claim
       ELSE Proceed(c, "load") /\ claim' = [claim EXCEPT ![q.run] = Candidate(q)]
    /\ UNCHANGED <<state, decided, staleRow>>

\* claim_run: CLAIMED, SAME, MISMATCH or UNKNOWN_HISTORY, in one transaction.
ClaimRun(c) ==
    /\ caller[c].pc = "claim"
    /\ LET q == caller[c].req IN
       CASE claim[q.run] = Candidate(q) -> Proceed(c, "load") /\ claim' = claim
         [] claim[q.run] # None /\ claim[q.run] # Candidate(q) -> Reply(c, "NOT_SUBMITTED") /\ claim' = claim
         [] claim[q.run] = None /\ HasOutcome(q.run) -> Reply(c, "NOT_SUBMITTED") /\ claim' = claim
         [] OTHER -> Proceed(c, "load") /\ claim' = [claim EXCEPT ![q.run] = Candidate(q)]
    /\ UNCHANGED <<state, decided, staleRow>>

\* load_paper and the comparison value.
LoadState(c) ==
    /\ caller[c].pc = "load"
    /\ caller' = [caller EXCEPT ![c].state = state, ![c].pc = "evaluate"]
    /\ UNCHANGED <<state, claim, decided, staleRow>>

\* _reconciled: the durable outcome of the run, if it is this candidate's.
Reconciled(c) ==
    LET q == caller[c].req
        o == state.order[q.run]
        foreign == \/ o.status # "NONE" /\ [sym |-> o.sym, setup |-> o.setup] # Candidate(q)
                   \/ decided[q.run] # <<>> /\ decided[q.run][1].cand # Candidate(q) IN
    Reply(c, IF foreign THEN "NOT_SUBMITTED" ELSE "DUPLICATE_RUN")

\* The outcome of the run, the conflict and the risk, on the state loaded.
EvaluateCandidate(c) ==
    /\ caller[c].pc = "evaluate"
    /\ LET q == caller[c].req
           b == caller[c].state IN
       IF q.path = "risk"
       THEN CASE b.order[q.run].status # "NONE" -> Reply(c, "DUPLICATE_RUN")
              [] b.order[q.run].status = "NONE" /\ Evaluate(b, q) # "APPROVED" -> Reply(c, "REJECTED")
              [] OTHER -> Proceed(c, "save")
       ELSE CASE b.order[q.run].status # "NONE" \/ decided[q.run] # <<>> -> Reconciled(c)
              [] OTHER -> Proceed(c, IF SymbolExposed(b, q.sym) THEN "block"
                                  ELSE IF Evaluate(b, q) # "APPROVED" THEN "reject" ELSE "save")
    /\ UNCHANGED <<state, claim, decided, staleRow>>

\* A stale attempt is redone once; after the second, a risk caller gives up.
Redo(c) ==
    IF caller[c].attempt = 1 THEN caller' = [caller EXCEPT ![c].attempt = 2, ![c].pc = "load", ![c].state = None]
    ELSE IF caller[c].req.path = "risk" THEN Reply(c, "STALE") ELSE Proceed(c, "stale")

\* commit_decision_rows: a refusal, if nothing changed under it.
CommitDecision(c) ==
    /\ caller[c].pc \in {"block", "reject"}
    /\ LET q == caller[c].req IN
       CASE claim[q.run] # Candidate(q) \/ HasOutcome(q.run) -> Reconciled(c) /\ decided' = decided
         [] claim[q.run] = Candidate(q) /\ ~HasOutcome(q.run) /\ state # caller[c].state -> Redo(c) /\ decided' = decided
         [] OTHER -> /\ decided' = [decided EXCEPT ![q.run] =
                          Append(@, [decision |-> IF caller[c].pc = "block" THEN "BLOCKED" ELSE "RISK_REJECTED",
                                     cand |-> Candidate(q)])]
                     /\ Reply(c, "REJECTED")
    /\ UNCHANGED <<state, claim, staleRow>>

Reserved(q) == [status |-> "PENDING", sym |-> q.sym, setup |-> q.setup, known |-> TRUE]

SaveOrder_Blind(c) ==   \* mutant: saved without expected_state
    /\ caller[c].pc = "save"
    /\ LET q == caller[c].req IN
       /\ state' = [state EXCEPT !.order[q.run] = Reserved(q)]
       /\ decided' = IF q.path = "risk" THEN decided
                     ELSE [decided EXCEPT ![q.run] = Append(@, [decision |-> "RESERVED", cand |-> Candidate(q)])]
       /\ Reply(c, "RESERVED")
    /\ UNCHANGED <<claim, staleRow>>

\* save_paper(expected_state): the order and its decision row, or nothing.
SaveOrder(c) ==
    /\ caller[c].pc = "save"
    /\ LET q == caller[c].req IN
       IF state # caller[c].state THEN Redo(c) /\ UNCHANGED <<state, decided>>
       ELSE /\ state' = [state EXCEPT !.order[q.run] = Reserved(q)]
            /\ decided' = IF q.path = "risk" THEN decided
                          ELSE [decided EXCEPT ![q.run] = Append(@, [decision |-> "RESERVED", cand |-> Candidate(q)])]
            /\ Reply(c, "RESERVED")
    /\ UNCHANGED <<claim, staleRow>>

\* _after_double_stale: the outcome of the run wins, else one observation of it.
AfterDoubleStale(c) ==
    /\ caller[c].pc = "stale"
    /\ LET r == caller[c].req.run IN
       IF HasOutcome(r) THEN Reconciled(c) /\ staleRow' = staleRow
       ELSE Reply(c, "STALE") /\ staleRow' = staleRow \cup {r}
    /\ UNCHANGED <<state, claim, decided>>

\* The process dies; the request may be made again.
CallerDies(c) ==
    /\ caller[c].pc # "idle"
    /\ caller' = [caller EXCEPT ![c] = Quiet]
    /\ UNCHANGED <<state, claim, decided, staleRow>>

ReserveNext ==
    \/ \E r \in Run : Fill(r) \/ Cancel(r)
    \/ \E s \in Symbol : ClosePosition(s)
    \/ \E c \in Caller : \/ Submit(c) \/ ClaimRun(c) \/ LoadState(c) \/ EvaluateCandidate(c)
                         \/ CommitDecision(c) \/ SaveOrder(c) \/ AfterDoubleStale(c) \/ CallerDies(c)
ReserveSpec == ReserveInit /\ [][ReserveNext]_reserveVars

-----------------------------------------------------------------------------
\* Whoever submits, the risk that is open plus the worst fill of everything pending stays
\* within the portfolio limit, and a symbol has one exposure: two concurrent submissions are
\* never both admitted on a state that only allowed one ("two concurrent submissions can
\* never both be admitted on stale state", risk_reservation.py).
RiskWithinLimit ==
    /\ OpenRisk(state) + Reserve * Cardinality(PendingRuns(state)) <= Limit
    /\ \A r \in PendingRuns(state) :
         /\ state.open[state.order[r].sym] = None
         /\ \A t \in PendingRuns(state) : state.order[t].sym = state.order[r].sym => t = r

\* A run stands for one candidate and has one outcome: its claim, its decisive row, its order
\* and every answer that reports them agree, though the order's save does not look at the
\* journal again ("No journal re-check is needed here", conflict_path.py).
OneOutcomePerRun ==
    \A q \in {x \in Request : x.path = "conflict"} :
        LET r == q.run
            o == state.order[r] IN
        /\ Len(decided[r]) <= 1
        /\ o.status # "NONE" <=> decided[r] # <<>> /\ decided[r][1].decision = "RESERVED"
        /\ decided[r] # <<>> => decided[r][1].cand = claim[r]
        /\ o.status # "NONE" => [sym |-> o.sym, setup |-> o.setup] = claim[r]
        /\ \A c \in Caller : caller[c].req = q /\ caller[c].answer \in {"RESERVED", "DUPLICATE_RUN"}
                               => claim[r] = Candidate(q)
=============================================================================
