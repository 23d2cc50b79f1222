---------------------------- MODULE Conversions ----------------------------
(***************************************************************************)
(* Conversions of AccessTrade and the cashback for them (AccessTradeJob of *)
(* the scheduler).  One job inserts the conversions on hold as rows of     *)
(* cashback_transaction; another asks AccessTrade, block by block, what    *)
(* became of the rows that are pending, has the wallet pay for those that  *)
(* are confirmed and writes the status of the others without waiting.      *)
(* Nothing keeps runs apart: the timers do not look whether the last run,  *)
(* whose requests have no time limit, has ended.                           *)
(*                                                                         *)
(* The wallet's APPROVE_DAILY_LUCKY_WHEEL is outside this repository.  It  *)
(* gets AccessTrade's id and not the row's, so that the row it pays for    *)
(* may stay as it is.                                                      *)
(***************************************************************************)
EXTENDS Integers, FiniteSets

CONSTANTS
    Conv,       \* conversions (transaction_id and product_id), by their time
    TxOf,       \* [Conv -> transaction_id]
    Insertable, \* those with an account and an amount other than 0
    Start,      \* what an earlier run inserted and where AccessTrade stands
    HoldRun,    \* runs of getTransactionFromAccessTradeOnHold
    CheckRun,   \* runs of checkStatusTransactionFromAccessTrade
    Earlier,    \* the earlier run
    MaxItems    \* MAX_ITEMS

\* What AccessTrade says of a conversion; approved is not confirmed yet.
State == {"hold", "approved", "confirmed", "rejected"}

ASSUME ConversionAssumption ==
    /\ Conv \subseteq Nat /\ IsFiniteSet(Conv)
    /\ Insertable \subseteq Conv
    /\ Start \subseteq [known : SUBSET Insertable, at : [Conv -> State]]
    /\ Earlier \notin HoldRun /\ HoldRun \cap CheckRun = {}
    /\ IsFiniteSet(HoldRun)
    /\ MaxItems \in Nat \ {0}

Run == HoldRun \cup CheckRun

\* A row, by the run that inserted it and its conversion.
Row == (HoldRun \cup {Earlier}) \X Conv
Status == {"none", "PROCESSING", "APPROVED", "SUCCESS", "REJECTED"}
Amount == {"full", "zero"}

VARIABLES
    at,         \* AccessTrade's state of each conversion
    status,     \* cashback_transaction.status; "none" while there is no row
    amount,     \* cashback_transaction.amount
    step,       \* next statement of each run
    todo,       \* what AccessTrade told a run, as far as not looked at
    current,    \* the row a run is at, with AccessTrade's state and the amount
    block,      \* rows a check has read, with status and amount
    index,      \* number of a check's block
    blocks,     \* how many blocks it will read
    writing,    \* <<check, row, status>>: updates that nobody waits for
    queue,      \* <<check, index, row, amount>>: payments asked of the wallet
    \* history variables
    paid,       \* the payments made for a row that the wallet found
    unread,     \* rows a check counted that have been pending since and that
                \* it has not read, to ask AccessTrade about them
    moved,      \* how many rows came to be or ceased to be pending under it
    overlap     \* pairs of runs of one job that were under way at once

rowVars == <<status, amount>>
locals == <<todo, current, block, index, blocks>>
paymentVars == <<queue, paid>>
histories == <<unread, moved, overlap>>
conversionsVars ==
    <<at, rowVars, step, locals, writing, paymentVars, histories>>

Pending == {w \in Row : status[w] \in {"PROCESSING", "APPROVED"}}
Over == {"ended", "finished"}   \* finished: a check with no more to read
Running(r) == step[r] \notin Over \cup {"new"}

\* Something that r asked for may still change a row.
Busy(r) == \/ Running(r)
           \/ \E u \in writing : u[1] = r
           \/ \E m \in queue : m[1] = r

ConversionsTypeOK ==
    /\ at \in [Conv -> State]
    /\ status \in [Row -> Status]
    /\ amount \in [Row -> Amount]
    /\ step \in [Run -> Over \cup {"new", "next", "create",
                                   "find", "ask", "loop", "act", "wallet"}]
    /\ todo \in [Run -> SUBSET (Conv \X State)]
    /\ current \in [Run -> SUBSET (Row \X State \X Amount)]
    /\ block \in [Run -> SUBSET (Row \X Status \X Amount)]
    /\ index \in [Run -> Nat]
    /\ blocks \in [Run -> Nat]
    /\ writing \subseteq CheckRun \X Row \X {"APPROVED", "REJECTED"}
    /\ queue \subseteq CheckRun \X Nat \X Row \X Amount
    /\ paid \subseteq CheckRun \X Nat \X Row \X Amount
    /\ unread \in [CheckRun -> SUBSET Row]
    /\ moved \in [CheckRun -> Nat]
    /\ overlap \subseteq SUBSET Run

ConversionsInit ==
    /\ \E s \in Start :
          /\ at = s.at
          /\ status = [w \in Row |-> IF w[1] = Earlier /\ w[2] \in s.known
                                     THEN "PROCESSING" ELSE "none"]
    /\ amount = [w \in Row |-> "full"]
    /\ step = [r \in Run |-> "new"]
    /\ todo = [r \in Run |-> {}]
    /\ current = [r \in Run |-> {}]
    /\ block = [r \in Run |-> {}]
    /\ index = [r \in Run |-> 0]
    /\ blocks = [r \in Run |-> 0]
    /\ writing = {}
    /\ queue = {}
    /\ paid = {}
    /\ unread = [r \in CheckRun |-> {}]
    /\ moved = [r \in CheckRun |-> 0]
    /\ overlap = {}

Continue(r, label) == step' = [step EXCEPT ![r] = label]

\* The runs of R end, and what they had read is gone.
Stop(R, label) ==
    /\ step' = [r \in Run |-> IF r \in R THEN label ELSE step[r]]
    /\ todo' = [r \in Run |-> IF r \in R THEN {} ELSE todo[r]]
    /\ current' = [r \in Run |-> IF r \in R THEN {} ELSE current[r]]
    /\ block' = [r \in Run |-> IF r \in R THEN {} ELSE block[r]]
    /\ index' = [r \in Run |-> IF r \in R THEN 0 ELSE index[r]]
    /\ blocks' = [r \in Run |-> IF r \in R THEN 0 ELSE blocks[r]]

\* r begins; those of R that are under way are noted.
Begins(r, R) ==
    overlap' = overlap \cup {{r, s} : s \in {s \in R \ {r} : Busy(s)}}

\* What the checks under way have counted, should a row come or go.  A check
\* that has ended early, or has read it all, needs it no more.
Moves ==
    /\ unread' = [r \in CheckRun |->
                     IF step'[r] = "ended" THEN {}
                     ELSE IF Running(r) THEN unread[r] \cap Pending'
                     ELSE unread[r]]
    /\ moved' = [r \in CheckRun |->
                    IF unread'[r] = {} THEN 0
                    ELSE IF Running(r) /\ Pending' # Pending THEN moved[r] + 1
                    ELSE moved[r]]

-----------------------------------------------------------------------------
(* Plausible mistakes; see Wallet.                                         *)

\* Two rows for one conversion: the look for an existing row is left out.
Exists_Unchecked(c) == FALSE

\* Any status that is not a rejection is taken for a confirmation.
NewStatus_NotConfirmed(state) ==
    IF state = "rejected" THEN "REJECTED" ELSE "SUCCESS"

\* Math.floor in the place of Math.round
Blocks_Floor(total) == total \div MaxItems

-----------------------------------------------------------------------------
(* getTransactionFromAccessTradeOnHold and insertCbTransPending            *)

\* AccessTrade returns conversions on hold, of the last day.
FetchOnHold(h) ==
    /\ step[h] = "new"
    /\ \E S \in SUBSET {c \in Conv : at[c] = "hold"} :
          todo' = [todo EXCEPT ![h] = {<<c, "hold">> : c \in S}]
    /\ Continue(h, "next")
    /\ Begins(h, HoldRun)
    /\ UNCHANGED <<at, rowVars, current, block, index, blocks, writing,
                   paymentVars, unread, moved>>

Exists(c) == \E w \in Row : w[2] = c /\ status[w] # "none"

FindExisting(h) ==
    /\ step[h] = "next"
    /\ \E x \in todo[h] :
          /\ todo' = [todo EXCEPT ![h] = @ \ {x}]
          /\ IF Exists(x[1]) \/ x[1] \notin Insertable
             THEN UNCHANGED <<step, current>>
             ELSE /\ current' = [current EXCEPT ![h] =
                                    {<<<<h, x[1]>>, "hold", "full">>}]
                  /\ Continue(h, "create")
    /\ UNCHANGED <<at, rowVars, block, index, blocks, writing, paymentVars,
                   histories>>

InsertCbTransPending(h) ==
    /\ step[h] = "create"
    /\ \E x \in current[h] : status' = [status EXCEPT ![x[1]] = "PROCESSING"]
    /\ current' = [current EXCEPT ![h] = {}]
    /\ Continue(h, "next")
    /\ UNCHANGED <<at, amount, todo, block, index, blocks, writing,
                   paymentVars, overlap>>
    /\ Moves

HoldEnds(h) ==
    /\ step[h] = "next"
    /\ todo[h] = {}
    /\ Stop({h}, "ended")
    /\ UNCHANGED <<at, rowVars, writing, paymentVars, histories>>

-----------------------------------------------------------------------------
(* checkStatusTransactionFromAccessTrade                                   *)

\* Math.round(total / MAX_ITEMS)
Blocks(total) == (2 * total + MaxItems) \div (2 * MaxItems)

Count(r) ==
    /\ step[r] = "new"
    /\ blocks' = [blocks EXCEPT ![r] = Blocks(Cardinality(Pending))]
    /\ unread' = [unread EXCEPT ![r] = Pending]
    /\ Continue(r, IF blocks'[r] = 0 THEN "finished" ELSE "find")
    /\ Begins(r, CheckRun)
    /\ UNCHANGED <<at, rowVars, todo, current, block, index, writing,
                   paymentVars, moved>>

\* order by created_at, skip, take
Page(S, skip) ==
    {B \in SUBSET S :
        /\ B # {} /\ Cardinality(B) <= MaxItems
        /\ \E before \in SUBSET (S \ B) :
              LET after == S \ (B \cup before) IN
              /\ Cardinality(before) = skip
              /\ \A v \in before, w \in B : v[2] <= w[2]
              /\ \A v \in B \cup before, w \in after : v[2] <= w[2]
              /\ after # {} => Cardinality(B) = MaxItems}

\* With no row left, reading the first one throws, and the check is over.
FindMany(r) ==
    /\ step[r] = "find"
    /\ IF Cardinality(Pending) <= index[r] * MaxItems
       THEN Stop({r}, "finished") /\ UNCHANGED unread
       ELSE /\ \E B \in Page(Pending, index[r] * MaxItems) :
                  /\ block' = [block EXCEPT ![r] =
                                  {<<w, status[w], amount[w]>> : w \in B}]
                  /\ unread' = [unread EXCEPT ![r] = @ \ B]
            /\ Continue(r, "ask")
            /\ UNCHANGED <<todo, current, index, blocks>>
    /\ UNCHANGED <<at, rowVars, writing, paymentVars, moved, overlap>>

\* AccessTrade answers for every conversion of the transactions asked for.
Ask(r) ==
    /\ step[r] = "ask"
    /\ todo' = [todo EXCEPT ![r] =
           {<<c, at[c]>> : c \in {c \in Conv :
                              \E b \in block[r] : TxOf[b[1][2]] = TxOf[c]}}]
    /\ Continue(r, "loop")
    /\ UNCHANGED <<at, rowVars, current, block, index, blocks, writing,
                   paymentVars, histories>>

NewStatus(state) ==
    CASE state = "rejected" -> "REJECTED"
      [] state = "approved" -> "APPROVED"
      [] OTHER -> "SUCCESS"

\* A conversion that is still on hold, that is not in the block or that has
\* nothing new ends the run: the code returns where it would continue.
Look(r) ==
    /\ step[r] = "loop"
    /\ \E x \in todo[r] :
          LET found == {b \in block[r] : b[1][2] = x[1]} IN
          \/ /\ \/ x[2] = "hold"
                \/ found = {}
                \/ x[2] = "approved" /\ \E b \in found : b[2] = "APPROVED"
             /\ Stop({r}, "ended")
          \/ /\ x[2] # "hold"
             /\ \E b \in found :
                   /\ ~ (x[2] = "approved" /\ b[2] = "APPROVED")
                   /\ current' = [current EXCEPT ![r] = {<<b[1], x[2], b[3]>>}]
             /\ todo' = [todo EXCEPT ![r] = @ \ {x}]
             /\ Continue(r, "act")
             /\ UNCHANGED <<block, index, blocks>>
    /\ UNCHANGED <<at, rowVars, writing, paymentVars, overlap>>
    /\ Moves

\* The amount is the one that was read with the block.
Pay(r) ==
    /\ step[r] = "act"
    /\ \E x \in current[r] :
          /\ NewStatus(x[2]) = "SUCCESS"
          /\ queue' = queue \cup {<<r, index[r], x[1], x[3]>>}
    /\ current' = [current EXCEPT ![r] = {}]
    /\ Continue(r, "wallet")
    /\ UNCHANGED <<at, rowVars, todo, block, index, blocks, writing, paid,
                   histories>>

WriteStatus(r) ==
    /\ step[r] = "act"
    /\ \E x \in current[r] :
          /\ NewStatus(x[2]) # "SUCCESS"
          /\ writing' = writing \cup {<<r, x[1], NewStatus(x[2])>>}
    /\ current' = [current EXCEPT ![r] = {}]
    /\ Continue(r, "loop")
    /\ UNCHANGED <<at, rowVars, todo, block, index, blocks, paymentVars,
                   histories>>

NextBlock(r) ==
    /\ step[r] = "loop"
    /\ todo[r] = {}
    /\ IF index[r] + 1 = blocks[r]
       THEN Stop({r}, "finished")
       ELSE /\ Continue(r, "find")
            /\ index' = [index EXCEPT ![r] = @ + 1]
            /\ block' = [block EXCEPT ![r] = {}]
            /\ UNCHANGED <<todo, current, blocks>>
    /\ UNCHANGED <<at, rowVars, writing, paymentVars, histories>>

\* amount: 0, whatever the new status is
WriteCommits(u) ==
    /\ writing' = writing \ {u}
    /\ status' = [status EXCEPT ![u[2]] = u[3]]
    /\ amount' = [amount EXCEPT ![u[2]] = "zero"]
    /\ UNCHANGED <<at, step, locals, paymentVars, overlap>>
    /\ Moves

WriteFails(u) ==
    /\ writing' = writing \ {u}
    /\ UNCHANGED <<at, rowVars, step, locals, paymentVars, histories>>

\* A statement, a request to AccessTrade or the rates: the job catches it.
StatementFails(r) ==
    /\ step[r] \in {"next", "create", "find", "ask", "act"}
    /\ Stop({r}, "ended")
    /\ UNCHANGED <<at, rowVars, writing, paymentVars, overlap>>
    /\ Moves

-----------------------------------------------------------------------------
(* The environment                                                         *)

\* The wallet's answer reaches the run, if it still waits.
Answer(r, ok) ==
    IF step[r] # "wallet" THEN UNCHANGED <<step, locals>>
    ELSE IF ok THEN Continue(r, "loop") /\ UNCHANGED locals
    ELSE Stop({r}, "ended")

\* The balance is credited.  If the wallet finds the row it becomes a SUCCESS;
\* if not, it stays as it is, to be paid by the next check, and the payment is
\* not in paid.  An error may follow the credit.
WalletPays(m) ==
    /\ queue' = queue \ {m}
    /\ \/ /\ paid' = paid \cup {m}
          /\ status' = [status EXCEPT ![m[3]] = "SUCCESS"]
       \/ UNCHANGED <<paid, status>>
    /\ \E ok \in BOOLEAN : Answer(m[1], ok)
    /\ UNCHANGED <<at, amount, writing, overlap>>
    /\ Moves

WalletRefuses(m) ==
    /\ queue' = queue \ {m}
    /\ Answer(m[1], FALSE)
    /\ UNCHANGED <<at, rowVars, writing, paid, overlap>>
    /\ Moves

\* The merchant decides; what is confirmed or rejected stays so.
AccessTradeDecides(c) ==
    /\ \/ /\ at[c] = "hold"
          /\ \E s \in State \ {"hold"} : at' = [at EXCEPT ![c] = s]
       \/ /\ at[c] = "approved"
          /\ \E s \in {"confirmed", "rejected"} : at' = [at EXCEPT ![c] = s]
    /\ UNCHANGED <<rowVars, step, locals, writing, paymentVars, histories>>

SchedulerCrash ==
    /\ \E r \in Run : Busy(r)
    /\ Stop({r \in Run : Running(r)}, "ended")
    /\ writing' = {}
    /\ UNCHANGED <<at, rowVars, paymentVars, overlap>>
    /\ Moves

-----------------------------------------------------------------------------
ConversionsNext ==
    \/ \E h \in HoldRun :
          \/ FetchOnHold(h) \/ FindExisting(h) \/ InsertCbTransPending(h)
          \/ HoldEnds(h)
    \/ \E r \in CheckRun :
          \/ Count(r) \/ FindMany(r) \/ Ask(r) \/ Look(r) \/ Pay(r)
          \/ WriteStatus(r) \/ NextBlock(r)
    \/ \E r \in Run : StatementFails(r)
    \/ \E u \in writing : WriteCommits(u) \/ WriteFails(u)
    \/ \E m \in queue : WalletPays(m) \/ WalletRefuses(m)
    \/ \E c \in Conv : AccessTradeDecides(c)
    \/ SchedulerCrash

ConversionsSpec == ConversionsInit /\ [][ConversionsNext]_conversionsVars

-----------------------------------------------------------------------------
(* Properties                                                              *)

\* A conversion has two rows only if the runs that inserted them overlapped.
\* (access-trade.job.ts 768-774, 841)
InsertedOnce ==
    \A v, w \in Row :
        /\ v # w /\ v[2] = w[2]
        /\ status[v] # "none" /\ status[w] # "none"
        => {v[1], w[1]} \in overlap

\* What is paid has been confirmed, and the amount of a row is paid twice,
\* although the row is marked, only for checks that overlapped: one began while
\* the other ran, had a write under way or a payment at the wallet.  (A write
\* that comes late may make a SUCCESS pending again, for a check of its own
\* too; but it leaves no amount.)
\* (access-trade.job.ts 319-347, 384-390, 472-482)
PaidOnceConfirmed ==
    \A p \in paid :
        /\ at[p[3][2]] = "confirmed"
        /\ \A q \in paid \ {p} :
              /\ p[3] = q[3]
              /\ p[4] = "full" /\ q[4] = "full"
              => {p[1], q[1]} \in overlap

\* The rows that a check counted and has missed, as far as no other row of the
\* conversion exists: no two pages need to agree on the order of such two.
Alone(w) == \A v \in Row \ {w} : v[2] = w[2] => status[v] = "none"
Missed(r) == {w \in unread[r] : Alone(w)}

\* A check that has no more to read has missed less than half a block, as the
\* rounding of its blocks leaves out, and at most one more for each row that
\* came or went while it ran: the next page skips as many rows as were read,
\* paid or not.  (access-trade.job.ts 316, 344-346)
MissesFew ==
    \A r \in CheckRun : step[r] = "finished" =>
        2 * Cardinality(Missed(r)) < MaxItems + 2 * moved[r]

\* The comment at the count: "get all cashback transaction status processing,
\* approved with type payment".  It does not hold: what is left of the last
\* block is not read, nor what comes up into the pages that were.
\* (access-trade.job.ts 297)
AsksForAll ==
    \A r \in CheckRun : step[r] = "finished" => Missed(r) = {}

=============================================================================
