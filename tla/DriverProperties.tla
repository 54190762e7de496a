-------------------------- MODULE DriverProperties --------------------------
(***************************************************************************)
(* What the scripts of Driver achieve, and what they say they do.          *)
(***************************************************************************)
EXTENDS Driver

StateFile == [mint : Mints \cup {NoMint}, lb_pair : LbPairs \cup {DefaultKey}]

\* The scripts' own state is well formed: at most one runs, at one of its
\* awaits, what it has read and saved is of the kind it expects, a purchase is of
\* eight bytes and quoteSolIn never throws.
DriverTypeOK ==
    /\ file \in StateFile \cup {NoFile}
    /\ script.pc \in {"idle", "iterate", "quote", "send", "sent", "check", "save", "fill"}
    /\ script.pc = "idle" => script = Idle
    /\ script.iter \in 0 .. MaxIterations
    /\ script.tx.amount \in U64 /\ script.tx.limit \in Nat
    /\ \A t \in late : t.op # "none"
    /\ crashed \in 0 .. MaxCrashes /\ disturbed \in 0 .. MaxDisturbances

\* The mint in state.json is that of a launch that exists and was created by
\* the script's own creator, whatever failed, timed out or was killed: 02 reads
\* the account back before it saves, which is all that stands between a
\* transaction that failed on chain and a state.json no later script can use.
SavedMintIsLaunched ==
    HasMint => Launched(file.mint) /\ launch[file.mint].creator = creator

\* The least purchase the search of 03 can return stays within the threshold.
ProbeFits(l) == Fits(l, Probe)

\* What 03-buy.mjs sends passes every check of buy, as long as nobody traded since
\* it read and the trade fee is no more than the 1% it reckons with: the chunk it
\* sizes never exceeds the cap, its limit covers the price with the fee, and both
\* can be encoded.  Where the probe itself does not fit this fails, see README.md.
UndisturbedPurchaseFits ==
    LET t == script.tx
    IN  /\ script.pc = "send" /\ t.op = "buy"
        /\ Initialized /\ ~config.paused /\ config.trade_fee_bps <= 100
        /\ launch[t.mint] = script.seen /\ t.limit = MaxSolIn(script.seen, t.amount)
        /\ ProbeFits(script.seen)
        /\ t.limit <= lamports[t.signer]
        => {t.amount, t.limit} \subseteq U64 /\ CanBuy(t.signer, t.mint, t.amount, t.limit)

-----------------------------------------------------------------------------
\* Reasons for which the scripts get no further.  There is a config but no
\* state.json: a crash cut it short, or 01 never wrote it, since it was killed or
\* gave up waiting before its transaction landed, or since the deployer
\* initialized by other means.  Only 01 runs without it, and is refused.
StateLost == Initialized /\ file = NoFile /\ script.pc # "fill"

\* Every mint of the instance is used by a launch that state.json has forgotten.
MintsUsedUp == ~HasMint /\ \A m \in Mints : Launched(m)

\* A wallet, or the admin, is no longer the one that 01 has set.
WalletsRotated ==
    Initialized /\ \/ config.admin # deployer
                   \/ \E f \in WalletFields : config[f] # ScriptParams[f]

\* Less is missing to the threshold than the least purchase costs.  An end for the
\* scripts only where somebody else left the gap: see ScriptsLeaveNoGap.
GapTooSmall ==
    HasMint /\ LET l == launch[file.mint]
               IN  ~l.graduated /\ l.real_sol_reserves < Threshold /\ ~ProbeFits(l)

SealedInTime == HasMint /\ launch[file.mint].pool_seeded

\* Run again and again, the scripts bring a launch from nothing to its seal: the
\* loop reaches the threshold exactly, graduation and the seal follow, through
\* crashes, timeouts, late transactions, pauses and the trades of others, unless
\* the run ends for good in one of the four ways above; a gap counts only if
\* somebody else has acted.
CarriedThrough ==
    \/ <>SealedInTime
    \/ <>[]\/ StateLost \/ MintsUsedUp \/ WalletsRotated
           \/ GapTooSmall /\ disturbed > 0

-----------------------------------------------------------------------------
\* The scripts never corner themselves: however often 03-buy.mjs is killed, times
\* out, lands late or is run again, its own purchases reach the threshold exactly
\* or leave at least what the least purchase costs.  It rests on a search that
\* stops neither short of the threshold nor beyond it.
ScriptsLeaveNoGap == disturbed = 0 => ~GapTooSmall


-----------------------------------------------------------------------------
\* 05-seal-graduation.mjs:53 "Verify launch is marked sealed", before the pool is
\* saved: a pool in state.json is the one the launch on chain has.
SavedPoolIsOnChain ==
    HasMint /\ file.lb_pair # DefaultKey => launch[file.mint].meteora_lb_pair = file.lb_pair
=============================================================================
