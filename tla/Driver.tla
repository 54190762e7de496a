------------------------------- MODULE Driver -------------------------------
(***************************************************************************)
(* The scripts of devnet/test-driver that take a launch through its life,  *)
(* one process at a time, against the program of Memecoin.                 *)
(*                                                                         *)
(* A script is a sequence of awaits: it reads accounts, sizes a            *)
(* transaction on what it read, sends it through the cluster's simulation  *)
(* ("preflight"), waits for a confirmation, and saves state.json for the   *)
(* next script.  Between two awaits anybody else's transaction may land.   *)
(* A transaction whose sender gave up may land later, or never.  A script  *)
(* that throws, or is killed, leaves what it had done and is run again by  *)
(* its operator.                                                           *)
(*                                                                         *)
(* Left out: the purchase's associated token account, created before the   *)
(* transaction is built; what a script prints; the fields of state.json    *)
(* that no script reads.                                                   *)
(***************************************************************************)
EXTENDS Memecoin, FiniteSets, Sequences

CONSTANTS
    deployer, creator, authority,  \* the key files the scripts sign with
    Buyers,                        \* the sequence of buyers' wallets
    ScriptParams,                  \* what 01-init-config.mjs initializes with
    Hardcoded,                     \* the addresses written out in 03 and 04
    NoMint, NoFile,
    Threshold, Chunk, Probe, NearlyEmpty, TooSmall, Slack,  \* constants of 03-buy.mjs
    MaxIterations,                 \* of its loop
    OtherTraders, OtherSizes,      \* the trades of everybody else
    MaxLate,                       \* bound: transactions whose sender gave up
    MaxCrashes,                    \* bound: scripts killed
    MaxDisturbances                \* bound: steps of others

\* The name, symbol and URI of 02-create-token.mjs.
ScriptNames == [name |-> 11, symbol |-> 5, uri |-> 30]

\* No quote of 03-buy.mjs asks for as many tokens as there are virtually, so
\* quoteSolIn never throws; what it aims at is within the beta cap of the program,
\* and a limit on a purchase that gets there within eight bytes.
ASSUME ScriptAssumption ==
    /\ {deployer, creator, authority} \cup OtherTraders \subseteq Wallets
    /\ Buyers \in Seq(Wallets) /\ Buyers # <<>>
    /\ ScriptParams \in InitParams
    /\ ScriptNames \in CreateParams
    /\ OtherSizes \subseteq U64
    /\ NoMint \notin Mints
    /\ Chunk \in Nat /\ Probe \in 1 .. Chunk - 1
    /\ Chunk < DefaultVirtualTokens - CurveAllocation
    /\ {Threshold, NearlyEmpty, TooSmall, Slack, MaxLate, MaxCrashes, MaxDisturbances}
          \subseteq Nat
    /\ MaxIterations \in Nat \ {0}
    /\ Threshold <= MaxRealSolReserves
    /\ Threshold + Threshold \div 100 + Slack <= U64Max

VARIABLES
    script,     \* the running script
    file,       \* state.json: what of it is read again, or NoFile if unreadable
    late,       \* transactions that may still land, whose sender is gone; two
                \* that ask for the same are one
    crashed,    \* how many scripts have been killed
    disturbed   \* how many steps of others there have been

driverVars == <<vars, script, file, late, crashed, disturbed>>

Empty == [mint |-> NoMint, lb_pair |-> DefaultKey]

Tx(op, m) == [op |-> op, mint |-> m, signer |-> DefaultKey, amount |-> 0, limit |-> 0,
              lb_pair |-> DefaultKey]

\* state is what loadState returned, seen the launch the last purchase was
\* sized on.
Idle == [pc |-> "idle", tx |-> Tx("none", NoMint), state |-> Empty, iter |-> 0,
         seen |-> NoLaunch]

DriverInit ==
    /\ Init
    /\ script = Idle /\ file = NoFile /\ late = {}
    /\ crashed = 0 /\ disturbed = 0

-----------------------------------------------------------------------------
(* Transactions: the accounts a script names have to be those the program   *)
(* expects.  02 and 03 take the fee wallets from state.json, where 01 put   *)
(* its parameters; 03 and 04 have addresses written out.  An amount of more *)
(* than eight bytes makes the encoder throw.                                *)

PaysScriptWallets == /\ config.dino_buyback_wallet = ScriptParams.dino_buyback_wallet
                     /\ config.treasury_wallet = ScriptParams.treasury_wallet

\* Mutant of PaysHardcodedWallets: two entries of the account list are swapped.
PaysSwappedWallets == /\ config.dino_buyback_wallet = Hardcoded.treasury
                      /\ config.treasury_wallet = Hardcoded.dino
                      /\ config.graduation_authority = Hardcoded.authority

PaysHardcodedWallets == /\ config.dino_buyback_wallet = Hardcoded.dino
                        /\ config.treasury_wallet = Hardcoded.treasury
                        /\ config.graduation_authority = Hardcoded.authority

Executes(t) ==
    \/ t.op = "initialize_config" /\ InitializeConfig(deployer, ScriptParams)
    \/ t.op = "set_paused" /\ SetPaused(deployer, FALSE)
    \/ /\ t.op = "create_token"
       /\ Initialized /\ PaysScriptWallets
       /\ CreateToken(creator, t.mint, ScriptNames)
    \/ /\ t.op = "buy"
       /\ Initialized /\ PaysScriptWallets
       /\ {t.amount, t.limit} \subseteq U64
       /\ Launched(t.mint) /\ launch[t.mint].creator = Hardcoded.creator
       /\ Buy(t.signer, t.mint, t.amount, t.limit)
    \/ /\ t.op = "graduate"
       /\ Initialized /\ PaysHardcodedWallets
       /\ Graduate(t.mint)
    \/ t.op = "seal_graduation" /\ SealGraduation(authority, t.mint, t.lb_pair)

-----------------------------------------------------------------------------
(* Starting a script.  Its operator may run any of them, at any time that   *)
(* none is running; one that needs state.json throws where it is missing    *)
(* or cut short, and one that needs a mint where none is saved.             *)

Start(pc, tx, state) ==
    /\ script = Idle
    /\ script' = [Idle EXCEPT !.pc = pc, !.tx = tx, !.state = state]
    /\ UNCHANGED <<vars, file, late, crashed, disturbed>>

HasMint == file # NoFile /\ file.mint # NoMint

StartInitConfig == Start("send", Tx("initialize_config", NoMint), Empty)

StartUnpause == Start("send", Tx("set_paused", NoMint), Empty)

\* The mint is a new key pair: no account, and no transaction, has it yet.  The
\* operator keeps to one launch per state.json, as the driver's README asks.
NewMints == {m \in Mints : ~Launched(m) /\ \A t \in late : t.mint # m}

StartCreateToken ==
    /\ file # NoFile /\ file.mint = NoMint /\ NewMints # {}
    /\ Start("send", Tx("create_token", CHOOSE m \in NewMints : TRUE), file)

StartBuy == HasMint /\ Start("iterate", Tx("buy", file.mint), file)

StartGraduate == HasMint /\ Start("send", Tx("graduate", file.mint), file)

\* The pool, too, is a new key pair.
NewPools == {lb \in LbPairs \ {DefaultKey} :
                /\ \A t \in late : t.lb_pair # lb
                /\ \A m \in Mints : Launched(m) => launch[m].meteora_lb_pair # lb}

StartSeal ==
    /\ HasMint /\ NewPools # {}
    /\ Start("send", [Tx("seal_graduation", file.mint)
                        EXCEPT !.lb_pair = CHOOSE lb \in NewPools : TRUE], file)

StartAny == \/ StartInitConfig \/ StartUnpause \/ StartCreateToken
            \/ StartBuy \/ StartGraduate \/ StartSeal

-----------------------------------------------------------------------------
(* The loop of 03-buy.mjs. *)

\* quoteSolIn of lib.mjs, written a second time next to sol_in_for_tokens_out.
QuoteSolIn(l, n) ==
    CeilDiv((l.virtual_sol_reserves + l.real_sol_reserves) * l.virtual_token_reserves,
            l.virtual_token_reserves - n)
        - (l.virtual_sol_reserves + l.real_sol_reserves)

Fits(l, n) == l.real_sol_reserves + QuoteSolIn(l, n) <= Threshold

\* Mutant of SizedChunk: it is not shrunk.
FullChunk(l) == IF Chunk <= l.real_token_reserves THEN Chunk ELSE l.real_token_reserves

\* Mutant of Search: it aims for less than the threshold.
SearchBelow(l) ==
    LET search[range \in (Probe .. Chunk) \X (Probe .. Chunk)] ==
            LET lo  == range[1]
                hi  == range[2]
                mid == (lo + hi + 1) \div 2
            IN  IF lo >= hi THEN lo
                ELSE IF l.real_sol_reserves + QuoteSolIn(l, mid) < Threshold
                     THEN search[<<mid, hi>>] ELSE search[<<lo, mid - 1>>]
    IN  search[<<Probe, Chunk>>]

\* The binary search between Probe, which is never tried, and Chunk.
Search(l) ==
    LET search[range \in (Probe .. Chunk) \X (Probe .. Chunk)] ==
            LET lo  == range[1]
                hi  == range[2]
                mid == (lo + hi + 1) \div 2
            IN  IF lo >= hi THEN lo
                ELSE IF Fits(l, mid) THEN search[<<mid, hi>>] ELSE search[<<lo, mid - 1>>]
    IN  search[<<Probe, Chunk>>]

\* A whole chunk if it fits, else what the search finds.
SizedChunk(l) ==
    LET found == IF Fits(l, Chunk) THEN Chunk ELSE Search(l)
    IN  IF found <= l.real_token_reserves THEN found ELSE l.real_token_reserves

MaxSolIn(l, n) == QuoteSolIn(l, n) + QuoteSolIn(l, n) \div 100 + Slack

EnoughBought(l) ==
    \/ l.real_sol_reserves >= Threshold
    \/ l.real_token_reserves <= NearlyEmpty
    \/ SizedChunk(l) < TooSmall

Running(pc) == script.pc = pc

Continue(s) == script' = s /\ UNCHANGED <<vars, file, late, crashed, disturbed>>

StopBuying ==
    /\ Running("iterate") /\ Launched(script.tx.mint)
    /\ script.iter = MaxIterations \/ EnoughBought(launch[script.tx.mint])
    /\ Continue([script EXCEPT !.pc = "save"])

\* The first read of an iteration.
SizePurchase ==
    /\ Running("iterate") /\ Launched(script.tx.mint)
    /\ script.iter < MaxIterations
    /\ LET l == launch[script.tx.mint]
       IN  /\ ~EnoughBought(l)
           /\ Continue([script EXCEPT !.pc = "quote",
                                      !.iter = @ + 1,
                                      !.seen = l,
                                      !.tx.signer = Buyers[(script.iter % Len(Buyers)) + 1],
                                      !.tx.amount = SizedChunk(l)])

\* The second read, in doBuy, is what the limit is computed on.
QuotePurchase ==
    /\ Running("quote")
    /\ Continue([script EXCEPT !.pc = "send",
                               !.tx.limit = MaxSolIn(launch[script.tx.mint], script.tx.amount)])

-----------------------------------------------------------------------------
(* Sending, confirming, saving. *)

Accepted(t) == ENABLED Executes(t)


Send == Running("send") /\ Accepted(script.tx) /\ Continue([script EXCEPT !.pc = "sent"])

\* A transaction its simulation refuses is not sent: the script throws.
Refused == Running("send") /\ ~Accepted(script.tx) /\ Continue(Idle)

\* confirmTransaction returns when the transaction is on chain, whether it
\* succeeded or failed: nobody looks at its err.
Confirmed ==
    CASE script.tx.op = "set_paused" -> Idle
      [] script.tx.op \in {"initialize_config", "create_token"} -> [script EXCEPT !.pc = "check"]
      [] script.tx.op = "buy" -> [script EXCEPT !.pc = "iterate"]
      [] OTHER -> [script EXCEPT !.pc = "save"]

Land ==
    /\ Running("sent") /\ Executes(script.tx)
    /\ script' = Confirmed
    /\ UNCHANGED <<file, late, crashed, disturbed>>

FailOnChain == Running("sent") /\ ~Accepted(script.tx) /\ Continue(Confirmed)

\* The transaction was dropped, or is still on its way, or has landed and the
\* answer is lost (which is landing late, at once).
TimeOut ==
    /\ Running("sent")
    /\ script' = Idle
    /\ late' \in {late, late \cup {script.tx}} /\ Cardinality(late') <= MaxLate
    /\ UNCHANGED <<vars, file, crashed, disturbed>>

LateLands ==
    \E t \in late : /\ Executes(t)
                    /\ late' = late \ {t}
                    /\ UNCHANGED <<script, file, crashed, disturbed>>

\* It has failed, or its blockhash has expired.
LateLost ==
    \E t \in late : late' = late \ {t} /\ UNCHANGED <<vars, script, file, crashed, disturbed>>

\* Mutant of ReadBack: the account is not read.
NoReadBack(t) == TRUE

\* 01 and 02 read the account they created and throw if there is none; whose
\* it is they do not look at.
ReadBack(t) == IF t.op = "create_token" THEN Launched(t.mint) ELSE Initialized

Check == /\ Running("check")
         /\ Continue(IF ReadBack(script.tx) THEN [script EXCEPT !.pc = "save"] ELSE Idle)

\* saveState: the file is truncated, then filled.
Truncate ==
    /\ Running("save")
    /\ file' = NoFile
    /\ script' = [script EXCEPT !.pc = "fill"]
    /\ UNCHANGED <<vars, late, crashed, disturbed>>

\* Mutant of Saved: the pool goes where the mint was.
SavedOverMint ==
    CASE script.tx.op = "create_token"    -> [script.state EXCEPT !.mint = script.tx.mint]
      [] script.tx.op = "seal_graduation" -> [script.state EXCEPT !.mint = script.tx.lb_pair]
      [] OTHER                            -> script.state

Saved ==
    CASE script.tx.op = "create_token"    -> [script.state EXCEPT !.mint = script.tx.mint]
      [] script.tx.op = "seal_graduation" -> [script.state EXCEPT !.lb_pair = script.tx.lb_pair]
      [] OTHER                            -> script.state

Fill ==
    /\ Running("fill")
    /\ file' = Saved
    /\ script' = Idle
    /\ UNCHANGED <<vars, late, crashed, disturbed>>

-----------------------------------------------------------------------------
(* What else happens. *)

\* Killed while it waits for a confirmation, a script does what TimeOut does.
Crash ==
    /\ script # Idle /\ ~Running("sent")
    /\ crashed < MaxCrashes /\ crashed' = crashed + 1
    /\ script' = Idle
    /\ UNCHANGED <<vars, file, late, disturbed>>

\* The admin acts by other means, others trade and graduate.
Others ==
    /\ disturbed < MaxDisturbances /\ disturbed' = disturbed + 1
    /\ \/ AdminStep
       \/ \E w \in OtherTraders, m \in Mints, n \in OtherSizes :
             Buy(w, m, n, U64Max) \/ Sell(w, m, n, 0)
       \/ \E m \in Mints : Graduate(m)
    /\ UNCHANGED <<script, file, late, crashed>>

\* What a running script does next.
Proceed == \/ StopBuying \/ SizePurchase \/ QuotePurchase
           \/ Send \/ Refused \/ Land \/ FailOnChain \/ TimeOut
           \/ Check \/ Truncate \/ Fill

DriverNext == StartAny \/ Proceed \/ LateLands \/ LateLost \/ Crash \/ Others

-----------------------------------------------------------------------------
(* Fairness.  A running script goes on, if only to time out; a transaction *)
(* on its way lands or expires.  The operator runs, again and again, the   *)
(* script that the launch waits for, and its transaction does not time out *)
(* every time.                                                             *)

Awaited ==
    IF ~Initialized THEN "initialize_config"
    ELSE IF config.paused THEN "set_paused"
    ELSE IF ~HasMint THEN "create_token"
    ELSE IF launch[file.mint].graduated THEN "seal_graduation"
    ELSE IF launch[file.mint].real_sol_reserves >= config.graduation_threshold_lamports
         THEN "graduate"
    ELSE "buy"

StartAwaited == StartAny /\ script'.tx.op = Awaited
LandAwaited == Land /\ script.tx.op = Awaited

Fairness == /\ WF_driverVars(Proceed)
            /\ WF_driverVars(LateLands \/ LateLost)
            /\ SF_driverVars(StartAwaited)
            /\ SF_driverVars(LandAwaited)

DriverSpec == DriverInit /\ [][DriverNext]_driverVars /\ Fairness
=============================================================================
