----------------------------- MODULE WalletLock -----------------------------
(***************************************************************************)
(* The wallet's encryption lock and the code that relies on it             *)
(* (src/wallet/rpcwallet.cpp, src/qt/ghostvault.cpp).                      *)
(*                                                                         *)
(*  - walletpassphrase: Unlock under cs_main only, then under cs_wallet    *)
(*    the staking-only flag and the relock timer (RPCRunLater) are set,    *)
(*    or the timer is erased for an unlimited staking-only unlock          *)
(*  - walletlock, walletpassphrasechange, encryptwallet under LOCK2        *)
(*  - LockWallet, run by the RPC timer thread, under cs_wallet             *)
(*  - the RPCs that need the keys, by how they check the lock:             *)
(*      LOCK2 then EnsureWalletIsUnlocked (sendtoaddress, ...)             *)
(*      EnsureWalletIsUnlocked with no lock (getsigmaseed, ...)           *)
(*      IsLocked() with no lock (spendzerocoin, ...)                      *)
(*      no check at all (ghostamount, ...)                                 *)
(*  - the GhostVault page, which asks for the passphrase through an        *)
(*    UnlockContext and relocks when the context goes out of scope         *)
(* CWallet (Unlock, Lock, the key-using calls) is not under src/: its      *)
(* calls are single steps, Unlock taking cs_wallet as CWallet::Unlock does.*)
(***************************************************************************)
EXTENDS Naturals, FiniteSets

CONSTANTS
    Workers,    \* RPC worker threads
    Passes,     \* non-empty passphrases a user may type
    NoPass,     \* the empty passphrase
    HD,         \* pwallet->IsHDEnabled()
    Clients,    \* the RPC methods the users of this node call
    GuiUser,    \* whether the GhostVault page is used
    NoThread    \* a mutex is free

(* The sign of walletpassphrase's timeout argument.                       *)
Sleeps == {"neg", "zero", "pos"}

LockedRpcs == {"sendtoaddress", "sendfrom", "sendmany", "signmessage",
               "keypoolrefill", "bumpfee", "leasestaking"}
EnsureRpcs == {"getsigmaseed", "setsigmaseed", "listsigmaentries", "getpubcoinpackv2"}
IsLockedRpcs == {"mintzerocoin", "spendzerocoin", "unghostamount", "unghostamountv2",
                 "payunloadedpubcoins", "encryptallzerocoins", "decryptallzerocoins"}
UncheckedRpcs == {"ghostamount", "ghostamountv2", "cancelstakingcontract"}
AdminRpcs == {"walletpassphrase", "walletlock", "walletpassphrasechange", "encryptwallet"}
KeyRpcs == LockedRpcs \cup EnsureRpcs \cup IsLockedRpcs \cup UncheckedRpcs
RpcNames == KeyRpcs \cup AdminRpcs

Threads == Workers \cup {"gui", "timer"}

ASSUME WalletAssumption ==
    /\ Passes # {} /\ NoPass \notin Passes
    /\ HD \in BOOLEAN /\ GuiUser \in BOOLEAN
    /\ Clients \subseteq RpcNames
    /\ NoThread \notin Threads

VARIABLES
    crypted,      \* IsCrypted()
    locked,       \* IsLocked(): the master key is not in memory
    stakingOnly,  \* fUnlockForStakingOnly
    relockSet,    \* nRelockTime # 0
    pass,         \* the passphrase the master key is encrypted with
    asked,        \* the stakingonly argument of the unlock now in force
    pending,      \* a "lockwallet" timer is scheduled
    firing,       \* LockWallet dispatched: "none", "current" or "stale"
    mainHolder,   \* who holds cs_main
    walletHolder, \* who holds cs_wallet
    wpc,          \* wpc[t]: where worker t is
    wrpc,         \* wrpc[t]: the RPC worker t runs
    warg,         \* warg[t]: walletpassphrase's arguments
    gpc, gop, gsmall, grelock,  \* the GUI thread in a GhostVault handler
    lastUse,      \* the last use of the keys: who, and under which unlock
    shutdown      \* StartShutdown() was called

walletVars == <<crypted, locked, stakingOnly, relockSet, pass, asked>>
timerVars == <<pending, firing>>
workerVars == <<wpc, wrpc, warg>>
guiVars == <<gpc, gop, gsmall, grelock>>
vars == <<walletVars, timerVars, mainHolder, walletHolder, workerVars, guiVars,
          lastUse, shutdown>>

Classes == {"locked", "ensure", "islocked", "unchecked", "gui"}

Class(r) == CASE r \in LockedRpcs -> "locked"
              [] r \in EnsureRpcs -> "ensure"
              [] r \in IsLockedRpcs -> "islocked"
              [] r \in UncheckedRpcs -> "unchecked"

WPArgs == [p: Passes \cup {NoPass}, sleep: Sleeps, staking: BOOLEAN]

-----------------------------------------------------------------------------
(* Helpers *)

(* EnsureWalletIsUnlocked does not throw.                                 *)
EnsureOK == ~locked /\ ~(HD /\ stakingOnly)

Free == NoThread

(* An RPC worker picks up a call to r.                                    *)
CanStart(t, r) == wpc[t] = "idle" /\ r \in Clients /\ ~shutdown

(* A key-using call inside CWallet: on a locked wallet it fails, else it  *)
(* uses the keys.                                                        *)
UseKeys(by) ==
    lastUse' = IF locked THEN lastUse ELSE [by |-> by, stakingAsked |-> asked]

Finish(t) == wpc' = [wpc EXCEPT ![t] = "idle"]

-----------------------------------------------------------------------------
(* The RPCs that take LOCK2 and call EnsureWalletIsUnlocked before using  *)
(* the keys under the lock.  Argument errors thrown before the check      *)
(* change nothing and are left out.                                       *)

(* Mutant: a sender that does not call EnsureWalletIsUnlocked.            *)
LockedBegin_noCheck(t, r) ==
    /\ CanStart(t, r)
    /\ mainHolder = Free /\ walletHolder = Free
    /\ mainHolder' = t /\ walletHolder' = t
    /\ wpc' = [wpc EXCEPT ![t] = "use"]
    /\ wrpc' = [wrpc EXCEPT ![t] = r]
    /\ UNCHANGED <<walletVars, timerVars, warg, guiVars, lastUse, shutdown>>

LockedBegin(t, r) ==
    /\ CanStart(t, r)
    /\ mainHolder = Free /\ walletHolder = Free
    /\ EnsureOK
    /\ mainHolder' = t /\ walletHolder' = t
    /\ wpc' = [wpc EXCEPT ![t] = "use"]
    /\ wrpc' = [wrpc EXCEPT ![t] = r]
    /\ UNCHANGED <<walletVars, timerVars, warg, guiVars, lastUse, shutdown>>

sendtoaddress(t) == LockedBegin(t, "sendtoaddress")
sendfrom(t) == LockedBegin(t, "sendfrom")
sendmany(t) == LockedBegin(t, "sendmany")
signmessage(t) == LockedBegin(t, "signmessage")
keypoolrefill(t) == LockedBegin(t, "keypoolrefill")
bumpfee(t) == LockedBegin(t, "bumpfee")
leasestaking(t) == LockedBegin(t, "leasestaking")

(* SendMoney / SignCompact / TopUpKeyPool ..., then the locks go.         *)
LockedUse(t) ==
    /\ wpc[t] = "use" /\ wrpc[t] \in LockedRpcs
    /\ UseKeys("locked")
    /\ mainHolder' = Free /\ walletHolder' = Free
    /\ Finish(t)
    /\ UNCHANGED <<walletVars, timerVars, wrpc, warg, guiVars, shutdown>>

(* The RPCs that check without holding a lock, then call into CWallet,    *)
(* which takes cs_wallet itself.                                          *)
UnlockedBegin(t, r, check) ==
    /\ CanStart(t, r)
    /\ check
    /\ wpc' = [wpc EXCEPT ![t] = "use"]
    /\ wrpc' = [wrpc EXCEPT ![t] = r]
    /\ UNCHANGED <<walletVars, timerVars, mainHolder, walletHolder, warg, guiVars,
                   lastUse, shutdown>>

getsigmaseed(t) == UnlockedBegin(t, "getsigmaseed", EnsureOK)
setsigmaseed(t) == UnlockedBegin(t, "setsigmaseed", EnsureOK)
listsigmaentries(t) == UnlockedBegin(t, "listsigmaentries", EnsureOK)
getpubcoinpackv2(t) == UnlockedBegin(t, "getpubcoinpackv2", EnsureOK)

mintzerocoin(t) == UnlockedBegin(t, "mintzerocoin", ~locked)
spendzerocoin(t) == UnlockedBegin(t, "spendzerocoin", ~locked)
unghostamount(t) == UnlockedBegin(t, "unghostamount", ~locked)
unghostamountv2(t) == UnlockedBegin(t, "unghostamountv2", ~locked)
payunloadedpubcoins(t) == UnlockedBegin(t, "payunloadedpubcoins", ~locked)
encryptallzerocoins(t) == UnlockedBegin(t, "encryptallzerocoins", ~locked)
decryptallzerocoins(t) == UnlockedBegin(t, "decryptallzerocoins", ~locked)

ghostamount(t) == UnlockedBegin(t, "ghostamount", TRUE)
ghostamountv2(t) == UnlockedBegin(t, "ghostamountv2", TRUE)
cancelstakingcontract(t) == UnlockedBegin(t, "cancelstakingcontract", TRUE)

UnlockedUse(t) ==
    /\ wpc[t] = "use" /\ wrpc[t] \in KeyRpcs \ LockedRpcs
    /\ walletHolder = Free
    /\ UseKeys(Class(wrpc[t]))
    /\ Finish(t)
    /\ UNCHANGED <<walletVars, timerVars, mainHolder, walletHolder, wrpc, warg,
                   guiVars, shutdown>>

-----------------------------------------------------------------------------
(* walletpassphrase.  LOCK(cs_main), the checks, Unlock (which takes      *)
(* cs_wallet inside CWallet); then a block under cs_wallet that sets the   *)
(* staking-only flag on an HD wallet and schedules LockWallet, or erases   *)
(* the scheduled one for an unlimited staking-only unlock.  A throw before *)
(* Unlock changes nothing: those inputs are not offered.                   *)

walletpassphrase(t) ==
    /\ CanStart(t, "walletpassphrase")
    /\ mainHolder = Free
    /\ crypted
    /\ \E a \in WPArgs :
          /\ a.sleep # "neg" /\ a.p # NoPass
          /\ warg' = [warg EXCEPT ![t] = a]
    /\ mainHolder' = t
    /\ wpc' = [wpc EXCEPT ![t] = "unlock"]
    /\ wrpc' = [wrpc EXCEPT ![t] = "walletpassphrase"]
    /\ UNCHANGED <<walletVars, timerVars, walletHolder, guiVars, lastUse, shutdown>>

(* Mutant: cs_main released as soon as Unlock succeeds.                  *)
WPUnlock_releaseMain(t) ==
    /\ wpc[t] = "unlock"
    /\ walletHolder = Free
    /\ IF warg[t].p = pass
          THEN /\ locked' = FALSE
               /\ asked' = warg[t].staking
               /\ wpc' = [wpc EXCEPT ![t] = "block"]
               /\ mainHolder' = Free
          ELSE /\ mainHolder' = Free
               /\ Finish(t)
               /\ UNCHANGED <<locked, asked>>
    /\ UNCHANGED <<crypted, stakingOnly, relockSet, pass, timerVars, walletHolder,
                   wrpc, warg, guiVars, lastUse, shutdown>>

(* pwallet->Unlock(strWalletPass): a wrong passphrase throws.            *)
WPUnlock(t) ==
    /\ wpc[t] = "unlock"
    /\ walletHolder = Free
    /\ IF warg[t].p = pass
          THEN /\ locked' = FALSE
               /\ asked' = warg[t].staking
               /\ wpc' = [wpc EXCEPT ![t] = "block"]
               /\ UNCHANGED mainHolder
          ELSE /\ mainHolder' = Free
               /\ Finish(t)
               /\ UNCHANGED <<locked, asked>>
    /\ UNCHANGED <<crypted, stakingOnly, relockSet, pass, timerVars, walletHolder,
                   wrpc, warg, guiVars, lastUse, shutdown>>

(* Only an unlimited timeout on a staking-only unlock erases the timer.   *)
Relocks(a) == a.sleep = "pos" \/ ~a.staking

(* Mutant: the staking-only flag is never set.                           *)
WPBlock_noFlag(t) ==
    /\ wpc[t] = "block"
    /\ walletHolder = Free
    /\ relockSet' = Relocks(warg[t])
    /\ pending' = Relocks(warg[t])
    /\ firing' = IF firing = "current" THEN "stale" ELSE firing
    /\ mainHolder' = Free
    /\ Finish(t)
    /\ UNCHANGED <<crypted, locked, stakingOnly, pass, asked, walletHolder, wrpc,
                   warg, guiVars, lastUse, shutdown>>

(* Mutant: the flag is only ever set, never cleared.                    *)
WPBlock_stickyFlag(t) ==
    /\ wpc[t] = "block"
    /\ walletHolder = Free
    /\ stakingOnly' = IF HD THEN stakingOnly \/ warg[t].staking ELSE stakingOnly
    /\ relockSet' = Relocks(warg[t])
    /\ pending' = Relocks(warg[t])
    /\ firing' = IF firing = "current" THEN "stale" ELSE firing
    /\ mainHolder' = Free
    /\ Finish(t)
    /\ UNCHANGED <<crypted, locked, pass, asked, walletHolder, wrpc, warg, guiVars,
                   lastUse, shutdown>>

(* RPCRunLater replaces the pending "lockwallet" timer, RPCRunLaterErase  *)
(* removes it; neither can recall a callback already dispatched.          *)
WPBlock(t) ==
    /\ wpc[t] = "block"
    /\ walletHolder = Free
    /\ stakingOnly' = IF HD THEN warg[t].staking ELSE stakingOnly
    /\ relockSet' = Relocks(warg[t])
    /\ pending' = Relocks(warg[t])
    /\ firing' = IF firing = "current" THEN "stale" ELSE firing
    /\ mainHolder' = Free
    /\ Finish(t)
    /\ UNCHANGED <<crypted, locked, pass, asked, walletHolder, wrpc, warg, guiVars,
                   lastUse, shutdown>>

(* walletlock: Lock() and nRelockTime = 0 under LOCK2; the timer and the  *)
(* staking-only flag are left as they are.                                *)
walletlock(t) ==
    /\ CanStart(t, "walletlock")
    /\ mainHolder = Free /\ walletHolder = Free
    /\ crypted
    /\ locked' = TRUE /\ relockSet' = FALSE
    /\ UNCHANGED <<crypted, stakingOnly, pass, asked, timerVars, mainHolder,
                   walletHolder, workerVars, guiVars, lastUse, shutdown>>

(* Mutant: the empty new passphrase is not refused.                      *)
walletpassphrasechange_emptyNew(t) ==
    /\ CanStart(t, "walletpassphrasechange")
    /\ mainHolder = Free /\ walletHolder = Free
    /\ crypted
    /\ \E new \in Passes \cup {NoPass} : pass' = new
    /\ UNCHANGED <<crypted, locked, stakingOnly, relockSet, asked, timerVars,
                   mainHolder, walletHolder, workerVars, guiVars, lastUse, shutdown>>

(* walletpassphrasechange: ChangeWalletPassphrase succeeds only with the  *)
(* current passphrase; a failed call changes nothing.                     *)
walletpassphrasechange(t) ==
    /\ CanStart(t, "walletpassphrasechange")
    /\ mainHolder = Free /\ walletHolder = Free
    /\ crypted
    /\ \E new \in Passes : pass' = new
    /\ UNCHANGED <<crypted, locked, stakingOnly, relockSet, asked, timerVars,
                   mainHolder, walletHolder, workerVars, guiVars, lastUse, shutdown>>

(* encryptwallet: EncryptWallet leaves the wallet encrypted and locked,   *)
(* then StartShutdown().                                                  *)
encryptwallet(t) ==
    /\ CanStart(t, "encryptwallet")
    /\ mainHolder = Free /\ walletHolder = Free
    /\ ~crypted
    /\ \E p \in Passes : pass' = p
    /\ crypted' = TRUE /\ locked' = TRUE /\ shutdown' = TRUE
    /\ UNCHANGED <<stakingOnly, relockSet, asked, timerVars, mainHolder,
                   walletHolder, workerVars, guiVars, lastUse>>

-----------------------------------------------------------------------------
(* The RPC timer thread.  A scheduled timer is dispatched; LockWallet     *)
(* then waits for cs_wallet, clears nRelockTime and calls Lock().         *)

TimerExpire ==
    /\ pending /\ firing = "none"
    /\ pending' = FALSE /\ firing' = "current"
    /\ UNCHANGED <<walletVars, mainHolder, walletHolder, workerVars, guiVars,
                   lastUse, shutdown>>

(* Mutant: LockWallet without LOCK(pWallet->cs_wallet).                  *)
LockWallet_noLock ==
    /\ firing # "none"
    /\ relockSet' = FALSE /\ locked' = TRUE
    /\ firing' = "none"
    /\ UNCHANGED <<crypted, stakingOnly, pass, asked, pending, mainHolder,
                   walletHolder, workerVars, guiVars, lastUse, shutdown>>

LockWallet ==
    /\ firing # "none"
    /\ walletHolder = Free
    /\ relockSet' = FALSE /\ locked' = TRUE
    /\ firing' = "none"
    /\ UNCHANGED <<crypted, stakingOnly, pass, asked, pending, mainHolder,
                   walletHolder, workerVars, guiVars, lastUse, shutdown>>

-----------------------------------------------------------------------------
(* The GhostVault page, on the GUI thread.  A handler that finds the      *)
(* wallet locked opens an UnlockContext (requestUnlock): the user types    *)
(* the passphrase or cancels; a valid context that unlocked the wallet     *)
(* relocks it when it goes out of scope, with Lock(), which takes no       *)
(* cs_wallet.  Returns on an invalid key pack or an empty "Spend To"      *)
(* field change nothing and are left out.                                 *)

GuiStart(op, small) ==
    /\ GuiUser /\ gpc = "idle" /\ ~shutdown
    /\ gpc' = IF locked THEN "dialog" ELSE "use"
    /\ gop' = op /\ gsmall' = small /\ grelock' = FALSE

(* The amount check shows "You must ghost more than 0 coins." and falls   *)
(* through: there is no return after it.                                  *)
on_ghostNIXButton_clicked ==
    /\ \E small \in BOOLEAN : GuiStart("ghost", small)
    /\ UNCHANGED <<walletVars, timerVars, mainHolder, walletHolder, workerVars,
                   lastUse, shutdown>>

(* Here the amount check returns.                                         *)
on_convertGhostButton_clicked ==
    /\ GuiStart("convert", FALSE)
    /\ UNCHANGED <<walletVars, timerVars, mainHolder, walletHolder, workerVars,
                   lastUse, shutdown>>

(* LOCK2(cs_main, cs_wallet) is taken before the unlock dialog and held   *)
(* until the handler returns.                                              *)
on_generateGhostKey_clicked ==
    /\ mainHolder = Free /\ walletHolder = Free
    /\ GuiStart("genkey", FALSE)
    /\ mainHolder' = "gui" /\ walletHolder' = "gui"
    /\ UNCHANGED <<walletVars, timerVars, workerVars, lastUse, shutdown>>

(* The GUI thread releases what the handler took.                         *)
GuiRelease ==
    IF gop = "genkey" THEN mainHolder' = Free /\ walletHolder' = Free
                      ELSE UNCHANGED <<mainHolder, walletHolder>>

(* The unlock dialog: cancel (the context is invalid and the handler      *)
(* returns), or the right passphrase, which CWallet::Unlock accepts under  *)
(* cs_wallet.                                                             *)
GuiCancel ==
    /\ gpc = "dialog"
    /\ gpc' = "idle"
    /\ GuiRelease
    /\ UNCHANGED <<walletVars, timerVars, workerVars, gop, gsmall, grelock,
                   lastUse, shutdown>>

GuiUnlock ==
    /\ gpc = "dialog"
    /\ walletHolder \in {Free, "gui"}
    /\ locked' = FALSE /\ asked' = FALSE
    /\ gpc' = "use" /\ grelock' = TRUE
    /\ UNCHANGED <<crypted, stakingOnly, relockSet, pass, timerVars, mainHolder,
                   walletHolder, workerVars, gop, gsmall, lastUse, shutdown>>

(* Mutant: the UnlockContext never relocks.                              *)
GuiUse_noRelock ==
    /\ gpc = "use"
    /\ walletHolder \in {Free, "gui"}
    /\ UseKeys("gui")
    /\ gpc' = "idle"
    /\ GuiRelease
    /\ UNCHANGED <<walletVars, timerVars, workerVars, gop, gsmall, grelock, shutdown>>

(* GhostModeMintSigma, GhostModeSpendSigma or getKeyPackList.  The        *)
(* context relocks after the result dialog (mint) or at once (spend, key  *)
(* list).                                                                 *)
GuiUse ==
    /\ gpc = "use"
    /\ walletHolder \in {Free, "gui"}
    /\ UseKeys("gui")
    /\ gpc' = IF grelock THEN "relock" ELSE "idle"
    /\ IF grelock THEN UNCHANGED <<mainHolder, walletHolder>> ELSE GuiRelease
    /\ UNCHANGED <<walletVars, timerVars, workerVars, gop, gsmall, grelock, shutdown>>

GuiRelock ==
    /\ gpc = "relock"
    /\ locked' = TRUE
    /\ gpc' = "idle"
    /\ GuiRelease
    /\ UNCHANGED <<crypted, stakingOnly, relockSet, pass, asked, timerVars,
                   workerVars, gop, gsmall, grelock, lastUse, shutdown>>

-----------------------------------------------------------------------------
(* The node has shut down after encryptwallet and every thread is done.   *)
Halted ==
    /\ shutdown
    /\ \A t \in Workers : wpc[t] = "idle"
    /\ gpc = "idle" /\ ~pending /\ firing = "none"
    /\ UNCHANGED vars

NoArgs == [p |-> NoPass, sleep |-> "zero", staking |-> FALSE]

(* A wallet is loaded unencrypted, or encrypted and locked.               *)
Init ==
    /\ crypted \in BOOLEAN
    /\ locked = crypted
    /\ stakingOnly = FALSE /\ relockSet = FALSE /\ asked = FALSE
    /\ pass \in Passes
    /\ pending = FALSE /\ firing = "none"
    /\ mainHolder = Free /\ walletHolder = Free
    /\ wpc = [t \in Workers |-> "idle"]
    /\ wrpc = [t \in Workers |-> "walletlock"]
    /\ warg = [t \in Workers |-> NoArgs]
    /\ gpc = "idle" /\ gop = "ghost" /\ gsmall = FALSE /\ grelock = FALSE
    /\ lastUse = [by |-> "none", stakingAsked |-> FALSE]
    /\ shutdown = FALSE

RpcStart(t) ==
    \/ sendtoaddress(t) \/ sendfrom(t) \/ sendmany(t) \/ signmessage(t)
    \/ keypoolrefill(t) \/ bumpfee(t) \/ leasestaking(t)
    \/ getsigmaseed(t) \/ setsigmaseed(t) \/ listsigmaentries(t) \/ getpubcoinpackv2(t)
    \/ mintzerocoin(t) \/ spendzerocoin(t) \/ unghostamount(t) \/ unghostamountv2(t)
    \/ payunloadedpubcoins(t) \/ encryptallzerocoins(t) \/ decryptallzerocoins(t)
    \/ ghostamount(t) \/ ghostamountv2(t) \/ cancelstakingcontract(t)
    \/ walletpassphrase(t) \/ walletlock(t) \/ walletpassphrasechange(t)
    \/ encryptwallet(t)

(* The steps a running thread takes by itself.                            *)
WorkerStep(t) == WPUnlock(t) \/ WPBlock(t) \/ LockedUse(t) \/ UnlockedUse(t)

Next ==
    \/ \E t \in Workers : RpcStart(t) \/ WorkerStep(t)
    \/ TimerExpire \/ LockWallet
    \/ on_ghostNIXButton_clicked \/ on_convertGhostButton_clicked
    \/ on_generateGhostKey_clicked
    \/ GuiCancel \/ GuiUnlock \/ GuiUse \/ GuiRelock
    \/ Halted

(* Running handlers and the timer thread make progress; users, who start  *)
(* calls, answer the unlock dialog and close the result box that keeps a   *)
(* GhostVault UnlockContext alive (GuiRelock), need not.  A step that      *)
(* waits for a mutex gets it once it is released again and again (strong   *)
(* fairness): a blocked thread is not starved by threads that retake it.  *)
Fairness ==
    /\ \A t \in Workers : SF_vars(WorkerStep(t))
    /\ WF_vars(TimerExpire) /\ SF_vars(LockWallet)
    /\ SF_vars(GuiUse)

Spec == Init /\ [][Next]_vars /\ Fairness

-----------------------------------------------------------------------------
(* Properties *)

Holders == Threads \cup {NoThread}

TypeWallet ==
    /\ crypted \in BOOLEAN /\ locked \in BOOLEAN /\ stakingOnly \in BOOLEAN
    /\ relockSet \in BOOLEAN /\ pass \in Passes /\ asked \in BOOLEAN
    /\ pending \in BOOLEAN /\ firing \in {"none", "current", "stale"}

TypeThreads ==
    /\ mainHolder \in Holders /\ walletHolder \in Holders
    /\ wpc \in [Workers -> {"idle", "unlock", "block", "use"}]
    /\ wrpc \in [Workers -> RpcNames]
    /\ warg \in [Workers -> WPArgs]

TypeGui ==
    /\ gpc \in {"idle", "dialog", "use", "relock"}
    /\ gop \in {"ghost", "convert", "genkey"}
    /\ gsmall \in BOOLEAN /\ grelock \in BOOLEAN
    /\ lastUse \in [by: Classes \cup {"none"}, stakingAsked: BOOLEAN]
    /\ shutdown \in BOOLEAN

(* Every variable holds a value of its type.                              *)
TypeOK == TypeWallet /\ TypeThreads /\ TypeGui

(* An RPC that took LOCK2 and passed EnsureWalletIsUnlocked still finds   *)
(* the wallet unlocked, and not staking-only on an HD wallet, when it     *)
(* signs: no walletlock, LockWallet timer or walletpassphrase can change  *)
(* the lock state between the check and the use.                          *)
LockedCheckHolds ==
    \A t \in Workers :
       wpc[t] = "use" /\ wrpc[t] \in LockedRpcs => EnsureOK

(* "stakingonly: If true, sending functions are disabled" (walletpassphrase *)
(* help): no RPC or GhostVault handler uses the keys while the unlock in    *)
(* force was asked for staking only.                                        *)
NoKeyUseWhileStakingOnly == ~lastUse.stakingAsked

(* "Issuing the walletpassphrase command while the wallet is already      *)
(* unlocked will set a new unlock time that overrides the old one": a     *)
(* LockWallet callback whose timer was replaced or erased never locks a    *)
(* wallet that was unlocked again.                                        *)
NoStaleRelock ==
    [][firing = "stale" /\ firing' = "none" => locked]_vars

(* An unlock that allows spending (the wallet is encrypted, unlocked, and *)
(* not staking-only on an HD wallet) always ends, by the relock timer,    *)
(* walletlock or a staking-only unlock, unless the GhostVault page holds  *)
(* it open: after GhostModeMintSigma the UnlockContext lives until the    *)
(* user closes the result box (ghostvault.cpp 201-223), and only then     *)
(* relocks.  "Only allow unlimited timeout (nSleepTime=0) on staking."    *)
FullUnlock == crypted /\ EnsureOK
FullUnlockEnds == FullUnlock ~> (~FullUnlock \/ gpc = "relock")

(* The staking-only flag as getwalletinfo sees it.  getwalletinfo takes  *)
(* LOCK2(cs_main, cs_wallet), and walletpassphrase holds cs_main from      *)
(* Unlock to the end of the block that sets fUnlockForStakingOnly: while  *)
(* a worker is in that block, the flag getwalletinfo will find is the one *)
(* the block sets, the stakingonly argument (asked).                       *)
StakingShown ==
    IF \E t \in Workers : wpc[t] = "block" THEN asked ELSE stakingOnly

(* The state getwalletinfo reports (rpcwallet.cpp 3390), with the        *)
(* staking-only flag counted where EnsureWalletIsUnlocked counts it: on an *)
(* HD wallet.                                                              *)
WalletStatus ==
    IF ~crypted THEN "plain"
    ELSE IF locked THEN "locked"
    ELSE IF HD /\ StakingShown THEN "staking"
    ELSE "full"

Abs == INSTANCE WalletLockAbs WITH Users <- Classes, status <- WalletStatus

(* The wallet implements what its RPCs promise (WalletLockAbs): seen      *)
(* through getwalletinfo, walletpassphrase is one atomic unlock into the  *)
(* mode its stakingonly argument asks for ("Unlocked, staking only" or    *)
(* "Unlocked"), whatever unlock was in force; walletlock, the relock timer *)
(* and encryptwallet are one atomic transition each; and the keys are      *)
(* used only on an unencrypted or a fully unlocked wallet.  The Unlock     *)
(* and the flag are two steps of walletpassphrase apart, with the timer    *)
(* thread and the other workers in between.                               *)
ImplementsAbs == Abs!Spec

(* on_ghostNIXButton_clicked never calls GhostModeMintSigma after it has  *)
(* told the user "You must ghost more than 0 coins."                      *)
GhostMintAmountChecked ==
    gpc = "use" /\ gop = "ghost" => ~gsmall

=============================================================================
