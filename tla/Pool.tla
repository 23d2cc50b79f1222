-------------------------------- MODULE Pool --------------------------------
(***************************************************************************)
(* PoolService of the wallet (apps/wallet/src/pool.service.ts): the pool   *)
(* of golden eggs and BBC, moved by five methods, each of which leaves a   *)
(* history row per moved value and a row with the rate of the two.  No     *)
(* module of the repository provides the service yet; the model is of the  *)
(* methods as any number of concurrent callers would run them.             *)
(*                                                                         *)
(* Every method opens an interactive transaction, but most statements in   *)
(* its callback go through the repository's own client: they commit one by *)
(* one and no rollback reaches them.  Only the updates of                  *)
(* updatePoolBuyEggEvent, and the rate row of updatePoolSellGoldenEgg, are *)
(* statements of the transaction.  A rate is kept as the pair <<bbc, egg>> *)
(* whose quotient the row holds.                                           *)
(***************************************************************************)
EXTENDS Integers, FiniteSets, FiniteSetsExt

CONSTANTS
    Call,       \* calls of the service's methods
    Method,     \* [Call -> Methods]
    Egg,        \* [Call -> Nat], the argument eggValue
    Bbc,        \* [Call -> Nat], the argument bbcValue; of a buy, its revenue
    IsBbc,      \* [Call -> BOOLEAN]: the currency argument is BBC
    OpeningEgg, OpeningBbc,
    NoCall, NoRow

Methods == {"claim", "buy", "sell", "deposit", "withdraw"}

ASSUME PoolAssumption ==
    /\ IsFiniteSet(Call)
    /\ Method \in [Call -> Methods]
    /\ Egg \in [Call -> Nat]
    /\ Bbc \in [Call -> Nat]
    /\ IsBbc \in [Call -> BOOLEAN]
    /\ OpeningEgg \in Int
    /\ OpeningBbc \in Int
    /\ NoCall \notin Call
    /\ NoRow \notin [moved : Int, last : Int]
    /\ NoRow \notin Int \X Int

VARIABLES
    egg, bbc,       \* the committed row of pool_value
    holder,         \* the call whose open transaction has updated that row
    pc,             \* next statement of each call
    seenEgg, seenBbc,   \* poolValue, as the call read it first
    quote,          \* updatedPoolValue, as the call read it last
    eggRow, bbcRow, \* rows of pool_egg_history, pool_bbc_history, by call
    rateRow,        \* rows of pool_rate_history, by call
    \* history variables
    afterEgg, afterBbc, \* the pool's value right after the call's update
    overlapped      \* calls during which another call moved the pool

rows == <<eggRow, bbcRow, rateRow>>
seen == <<seenEgg, seenBbc>>
after == <<afterEgg, afterBbc>>
poolVars == <<egg, bbc, holder, pc, seen, quote, rows, after, overlapped>>

Ended == {"done", "failed", "lost"}
Open(c) == pc[c] \notin Ended \cup {"new"}

HistoryRow == [moved : Int, last : Int]

PoolTypeOK ==
    /\ egg \in Int
    /\ bbc \in Int
    /\ holder \in Call \cup {NoCall}
    /\ pc \in [Call -> Ended \cup {"new", "egg", "eggRow", "bbc", "bbcRow",
                                   "both", "rate", "rateRow", "strictRate",
                                   "commit"}]
    /\ seenEgg \in [Call -> Int]
    /\ seenBbc \in [Call -> Int]
    /\ quote \in [Call -> Int \X Int]
    /\ eggRow \in [Call -> HistoryRow \cup {NoRow}]
    /\ bbcRow \in [Call -> HistoryRow \cup {NoRow}]
    /\ rateRow \in [Call -> (Int \X Int) \cup {NoRow}]
    /\ afterEgg \in [Call -> Int]
    /\ afterBbc \in [Call -> Int]
    /\ overlapped \subseteq Call

PoolInit ==
    /\ egg = OpeningEgg
    /\ bbc = OpeningBbc
    /\ holder = NoCall
    /\ pc = [c \in Call |-> "new"]
    /\ seenEgg = [c \in Call |-> 0]
    /\ seenBbc = [c \in Call |-> 0]
    /\ quote = [c \in Call |-> <<0, 0>>]
    /\ eggRow = [c \in Call |-> NoRow]
    /\ bbcRow = [c \in Call |-> NoRow]
    /\ rateRow = [c \in Call |-> NoRow]
    /\ afterEgg = [c \in Call |-> 0]
    /\ afterBbc = [c \in Call |-> 0]
    /\ overlapped = {}

\* What a call adds to each of the two values.
EggMove(c) == CASE Method[c] \in {"sell", "deposit"} -> Egg[c]
                [] Method[c] \in {"claim", "withdraw"} -> -Egg[c]
                [] OTHER -> 0
BbcMove(c) == CASE Method[c] \in {"buy", "deposit"} -> Bbc[c]
                [] Method[c] \in {"sell", "withdraw"} -> -Bbc[c]
                [] OTHER -> 0

-----------------------------------------------------------------------------
(* The methods, as the statements of their callbacks in order: the field   *)
(* named for a statement holds the one that follows it.                    *)

UpdatePoolClaimGoldenEgg ==
    [start |-> "egg", egg |-> "eggRow", eggRow |-> "strictRate",
     strictRate |-> "commit", commit |-> "done"]

UpdatePoolBuyEggEvent ==
    [start |-> "bbc", bbc |-> "bbcRow", bbcRow |-> "rate", rate |-> "rateRow",
     rateRow |-> "commit", commit |-> "done"]

UpdatePoolSellGoldenEgg ==
    [start |-> "egg", egg |-> "eggRow", eggRow |-> "bbc", bbc |-> "bbcRow",
     bbcRow |-> "rate", rate |-> "rateRow", rateRow |-> "commit",
     commit |-> "done"]

\* depositPoolValue leaves out the history row of a value it does not move.
DepositPoolValue(c) ==
    LET eggStep == IF Egg[c] > 0 THEN "eggRow" ELSE "rate" IN
    [start |-> "both", both |-> IF Bbc[c] > 0 THEN "bbcRow" ELSE eggStep,
     bbcRow |-> eggStep, eggRow |-> "rate", rate |-> "rateRow",
     rateRow |-> "commit", commit |-> "done"]

WithdrawalPoolValue(c) == DepositPoolValue(c)

Script(c) ==
    CASE Method[c] = "claim"    -> UpdatePoolClaimGoldenEgg
      [] Method[c] = "buy"      -> UpdatePoolBuyEggEvent
      [] Method[c] = "sell"     -> UpdatePoolSellGoldenEgg
      [] Method[c] = "deposit"  -> DepositPoolValue(c)
      [] Method[c] = "withdraw" -> WithdrawalPoolValue(c)

\* The conditions of the early returns before the transaction.
Proceeds(c) == CASE Method[c] = "buy"  -> IsBbc[c] /\ Bbc[c] > 0
                 [] Method[c] = "sell" -> IsBbc[c]
                 [] OTHER -> TRUE

Goes(c, s) == pc' = [pc EXCEPT ![c] = Script(c)[s]]
Overlaps(c) == overlapped' = overlapped \cup {x \in Call \ {c} : Open(x)}
InTransaction(c) == Method[c] = "buy"

-----------------------------------------------------------------------------
(* Plausible mistakes in the statements below.                             *)

\* The update writes the sum of the value read earlier.
UpdateEgg_Overwrites(c) ==
    /\ pc[c] = "egg"
    /\ holder = NoCall
    /\ egg' = seenEgg[c] + EggMove(c)
    /\ afterEgg' = [afterEgg EXCEPT ![c] = egg']
    /\ Overlaps(c)
    /\ Goes(c, "egg")
    /\ UNCHANGED <<bbc, holder, seen, quote, rows, afterBbc>>

\* The history row of a withdrawal or a claim is written as one of a deposit.
CreateEggRow_AddsOnly(c) ==
    /\ pc[c] = "eggRow"
    /\ eggRow' = [eggRow EXCEPT ![c] = [moved |-> EggMove(c),
                                        last |-> seenEgg[c] + Egg[c]]]
    /\ Goes(c, "eggRow")
    /\ UNCHANGED <<egg, bbc, holder, seen, quote, bbcRow, rateRow, after,
                   overlapped>>

-----------------------------------------------------------------------------
(* The statements                                                          *)

\* poolValue and, where the method needs them, the configuration and the
\* currency are read before the transaction.
ReadPoolValue(c) ==
    /\ pc[c] = "new"
    /\ seenEgg' = [seenEgg EXCEPT ![c] = egg]
    /\ seenBbc' = [seenBbc EXCEPT ![c] = bbc]
    /\ IF Proceeds(c)
       THEN Goes(c, "start")
       ELSE pc' = [pc EXCEPT ![c] = "done"]
    /\ UNCHANGED <<egg, bbc, holder, quote, rows, after, overlapped>>

\* poolValue.update through the repository's client: commits at once, after
\* any open transaction that holds the row.
UpdateEgg(c) ==
    /\ pc[c] = "egg"
    /\ holder = NoCall
    /\ egg' = egg + EggMove(c)
    /\ afterEgg' = [afterEgg EXCEPT ![c] = egg']
    /\ Overlaps(c)
    /\ Goes(c, "egg")
    /\ UNCHANGED <<bbc, holder, seen, quote, rows, afterBbc>>

UpdateBbc(c) ==
    /\ pc[c] = "bbc"
    /\ ~InTransaction(c)
    /\ holder = NoCall
    /\ bbc' = bbc + BbcMove(c)
    /\ afterBbc' = [afterBbc EXCEPT ![c] = bbc']
    /\ Overlaps(c)
    /\ Goes(c, "bbc")
    /\ UNCHANGED <<egg, holder, seen, quote, rows, afterEgg>>

UpdateBoth(c) ==
    /\ pc[c] = "both"
    /\ holder = NoCall
    /\ egg' = egg + EggMove(c)
    /\ bbc' = bbc + BbcMove(c)
    /\ afterEgg' = [afterEgg EXCEPT ![c] = egg']
    /\ afterBbc' = [afterBbc EXCEPT ![c] = bbc']
    /\ Overlaps(c)
    /\ Goes(c, "both")
    /\ UNCHANGED <<holder, seen, quote, rows>>

\* prisma.poolValue.update of a buy: the row is locked until the transaction
\* ends, and others see its old value.
LockAndUpdate(c) ==
    /\ pc[c] = "bbc"
    /\ InTransaction(c)
    /\ holder = NoCall
    /\ holder' = c
    /\ afterBbc' = [afterBbc EXCEPT ![c] = bbc + BbcMove(c)]
    /\ Goes(c, "bbc")
    /\ UNCHANGED <<egg, bbc, seen, quote, rows, afterEgg, overlapped>>

CreateEggRow(c) ==
    /\ pc[c] = "eggRow"
    /\ eggRow' = [eggRow EXCEPT ![c] = [moved |-> EggMove(c),
                                        last |-> seenEgg[c] + EggMove(c)]]
    /\ Goes(c, "eggRow")
    /\ UNCHANGED <<egg, bbc, holder, seen, quote, bbcRow, rateRow, after,
                   overlapped>>

BbcRowOf(c) == [moved |-> BbcMove(c), last |-> seenBbc[c] + BbcMove(c)]

\* The row of a buy appears when its transaction commits.
CreateBbcRow(c) ==
    /\ pc[c] = "bbcRow"
    /\ bbcRow' = IF InTransaction(c) THEN bbcRow
                 ELSE [bbcRow EXCEPT ![c] = BbcRowOf(c)]
    /\ Goes(c, "bbcRow")
    /\ UNCHANGED <<egg, bbc, holder, seen, quote, eggRow, rateRow, after,
                   overlapped>>

\* updatedPoolValue is what is committed: a buy does not see its own update.
ReadRate(c) ==
    /\ pc[c] = "rate"
    /\ quote' = [quote EXCEPT ![c] = <<bbc, egg>>]
    /\ Goes(c, "rate")
    /\ UNCHANGED <<egg, bbc, holder, seen, rows, after, overlapped>>

\* The rate row, if there are eggs.
CreateRateRow(c) ==
    /\ pc[c] = "rateRow"
    /\ rateRow' = IF Method[c] \in {"buy", "sell"} \/ quote[c][2] <= 0
                  THEN rateRow ELSE [rateRow EXCEPT ![c] = quote[c]]
    /\ Goes(c, "rateRow")
    /\ UNCHANGED <<egg, bbc, holder, seen, quote, eggRow, bbcRow, after,
                   overlapped>>

\* What the transaction itself has written appears: all of a buy, the rate
\* row of a sale, nothing of the other methods.
Commit(c) ==
    /\ pc[c] = "commit"
    /\ rateRow' = IF Method[c] \in {"buy", "sell"} /\ quote[c][2] > 0
                  THEN [rateRow EXCEPT ![c] = quote[c]] ELSE rateRow
    /\ IF InTransaction(c)
       THEN /\ bbc' = bbc + BbcMove(c)
            /\ bbcRow' = [bbcRow EXCEPT ![c] = BbcRowOf(c)]
            /\ holder' = NoCall
            /\ Overlaps(c)
       ELSE UNCHANGED <<bbc, bbcRow, holder, overlapped>>
    /\ Goes(c, "commit")
    /\ UNCHANGED <<egg, seen, quote, eggRow, after>>

\* createPoolRateHistory throws when there are no eggs, and takes a negative
\* number of them.
CreatePoolRateHistory(c) ==
    /\ pc[c] = "strictRate"
    /\ IF egg = 0
       THEN /\ pc' = [pc EXCEPT ![c] = "failed"]
            /\ UNCHANGED <<quote, rateRow>>
       ELSE /\ quote' = [quote EXCEPT ![c] = <<bbc, egg>>]
            /\ rateRow' = [rateRow EXCEPT ![c] = <<bbc, egg>>]
            /\ Goes(c, "strictRate")
    /\ UNCHANGED <<egg, bbc, holder, seen, eggRow, bbcRow, after, overlapped>>

Release(c) == holder' = IF holder = c THEN NoCall ELSE holder

\* A statement is refused, or the commit because the transaction took more
\* than five seconds: what the transaction itself has written is undone.
Fails(c) ==
    /\ Open(c)
    /\ pc' = [pc EXCEPT ![c] = "failed"]
    /\ Release(c)
    /\ UNCHANGED <<egg, bbc, seen, quote, rows, after, overlapped>>

PoolCrash ==
    /\ \E c \in Call : Open(c)
    /\ pc' = [c \in Call |-> IF Open(c) THEN "lost" ELSE pc[c]]
    /\ holder' = NoCall
    /\ UNCHANGED <<egg, bbc, seen, quote, rows, after, overlapped>>

Step(c) ==
    \/ ReadPoolValue(c) \/ UpdateEgg(c) \/ UpdateBbc(c) \/ UpdateBoth(c)
    \/ LockAndUpdate(c) \/ CreateEggRow(c) \/ CreateBbcRow(c)
    \/ ReadRate(c) \/ CreateRateRow(c) \/ CreatePoolRateHistory(c)
    \/ Commit(c) \/ Fails(c)

PoolNext == (\E c \in Call : Step(c)) \/ PoolCrash

PoolSpec == PoolInit /\ [][PoolNext]_poolVars

-----------------------------------------------------------------------------
(* Properties                                                              *)

Recorded(row, c) == IF row[c] = NoRow THEN 0 ELSE row[c].moved

\* Calls whose update may have been committed without its history row: still
\* running, or ended by an error or a crash.  Never one that finished, and
\* never a buy, whose two statements commit together.
Unrecorded(row) == {c \in Call : row[c] = NoRow /\ ~InTransaction(c)
                                 /\ pc[c] \notin {"new", "done"}}

\* A value is the opening one, every recorded move and the moves of U.
Accounts(value, opening, row, move, U) ==
    value = opening + SumFunctionOnSet([c \in Call |-> Recorded(row, c)], Call)
                    + SumFunctionOnSet(move, U)

EggMoves == [c \in Call |-> EggMove(c)]
BbcMoves == [c \in Call |-> BbcMove(c)]

\* The history rows account for the pool (pool.service.ts updates the value
\* and creates the row in two statements that commit apart): the value is
\* the opening one and every recorded move, and what else moved it are
\* whole moves of calls that were interrupted between the two.
Audited ==
    /\ \E U \in SUBSET Unrecorded(eggRow) :
          Accounts(egg, OpeningEgg, eggRow, EggMoves, U)
    /\ \E U \in SUBSET Unrecorded(bbcRow) :
          Accounts(bbc, OpeningBbc, bbcRow, BbcMoves, U)

\* last is the pool's value right after the call's own update, and a rate
\* row holds the pool as the call left it, whenever no other call moved the
\* pool while this one ran (pool.service.ts reads poolValue before the
\* transaction).  The rate of a buy is the exception: it is read beside the
\* transaction and is the one before the revenue it came with.
RowsExact ==
    \A c \in Call \ overlapped :
        /\ eggRow[c] # NoRow => eggRow[c].last = afterEgg[c]
        /\ bbcRow[c] # NoRow => bbcRow[c].last = afterBbc[c]
        /\ rateRow[c] # NoRow =>
              /\ Method[c] # "claim" =>
                    rateRow[c][1] = seenBbc[c] + IF InTransaction(c) THEN 0
                                                 ELSE BbcMove(c)
              /\ rateRow[c][2] = seenEgg[c] + EggMove(c)

=============================================================================
