------------------------- MODULE WalletLock_proofs -------------------------
(***************************************************************************)
(* Proofs about WalletLock, for every set of workers, passphrases and     *)
(* RPC clients that satisfies WalletAssumption.                            *)
(***************************************************************************)
EXTENDS WalletLock, TLAPS

(* The named RPC starts are instances of three forms.                     *)
LEMMA RpcStartForms ==
    ASSUME NEW t \in Workers, RpcStart(t)
    PROVE  \/ \E r \in LockedRpcs : LockedBegin(t, r)
           \/ \E r \in KeyRpcs \ LockedRpcs :
                 \/ UnlockedBegin(t, r, EnsureOK)
                 \/ UnlockedBegin(t, r, ~locked)
                 \/ UnlockedBegin(t, r, TRUE)
           \/ walletpassphrase(t) \/ walletlock(t)
           \/ walletpassphrasechange(t) \/ encryptwallet(t)
BY DEF RpcStart, sendtoaddress, sendfrom, sendmany, signmessage, keypoolrefill,
       bumpfee, leasestaking, getsigmaseed, setsigmaseed, listsigmaentries,
       getpubcoinpackv2, mintzerocoin, spendzerocoin, unghostamount,
       unghostamountv2, payunloadedpubcoins, encryptallzerocoins,
       decryptallzerocoins, ghostamount, ghostamountv2, cancelstakingcontract,
       KeyRpcs, LockedRpcs, EnsureRpcs, IsLockedRpcs, UncheckedRpcs

(* A key user reports one of the classes.                                 *)
LEMMA ClassType ==
    ASSUME NEW r \in KeyRpcs
    PROVE  Class(r) \in Classes
BY Zenon DEF Class, Classes, KeyRpcs, LockedRpcs, EnsureRpcs, IsLockedRpcs,
             UncheckedRpcs

-----------------------------------------------------------------------------
(* Type correctness, one part of TypeOK at a time.                         *)

LEMMA WalletStep ==
    ASSUME TypeOK, Next
    PROVE  TypeWallet'
<1> USE DEF TypeOK
<1>1. CASE \E t \in Workers : RpcStart(t)
  <2> PICK t \in Workers : RpcStart(t)
    BY <1>1
  <2>1. CASE \E r \in LockedRpcs : LockedBegin(t, r)
    BY <2>1 DEF LockedBegin, TypeWallet, walletVars, timerVars
  <2>2. CASE \E r \in KeyRpcs \ LockedRpcs :
               \/ UnlockedBegin(t, r, EnsureOK)
               \/ UnlockedBegin(t, r, ~locked)
               \/ UnlockedBegin(t, r, TRUE)
    BY <2>2 DEF UnlockedBegin, TypeWallet, walletVars, timerVars
  <2>3. CASE walletpassphrase(t)
    BY <2>3 DEF walletpassphrase, TypeWallet, walletVars, timerVars
  <2>4. CASE walletlock(t)
    BY <2>4 DEF walletlock, TypeWallet, timerVars
  <2>5. CASE walletpassphrasechange(t)
    BY <2>5 DEF walletpassphrasechange, TypeWallet, timerVars
  <2>6. CASE encryptwallet(t)
    BY <2>6 DEF encryptwallet, TypeWallet, timerVars
  <2>7. QED
    BY <2>1, <2>2, <2>3, <2>4, <2>5, <2>6, RpcStartForms
<1>2. CASE \E t \in Workers : WPUnlock(t)
  BY <1>2 DEF WPUnlock, TypeWallet, TypeThreads, WPArgs, timerVars
<1>3. CASE \E t \in Workers : WPBlock(t)
  BY <1>3, WalletAssumption DEF WPBlock, Relocks, TypeWallet, TypeThreads, WPArgs
<1>4. CASE \E t \in Workers : LockedUse(t) \/ UnlockedUse(t)
  BY <1>4 DEF LockedUse, UnlockedUse, TypeWallet, walletVars, timerVars
<1>5. CASE TimerExpire \/ LockWallet
  BY <1>5 DEF TimerExpire, LockWallet, TypeWallet, walletVars
<1>6. CASE \/ on_ghostNIXButton_clicked \/ on_convertGhostButton_clicked
           \/ on_generateGhostKey_clicked \/ GuiCancel \/ GuiUse \/ Halted
  BY <1>6 DEF on_ghostNIXButton_clicked, on_convertGhostButton_clicked,
              on_generateGhostKey_clicked, GuiCancel, GuiUse, Halted, vars,
              TypeWallet, walletVars, timerVars
<1>7. CASE GuiUnlock \/ GuiRelock
  BY <1>7 DEF GuiUnlock, GuiRelock, TypeWallet, timerVars
<1>8. QED
  BY <1>1, <1>2, <1>3, <1>4, <1>5, <1>6, <1>7 DEF Next, WorkerStep

LEMMA ThreadsStep ==
    ASSUME TypeOK, Next
    PROVE  TypeThreads'
<1> USE DEF TypeOK, TypeThreads, Holders, Threads, Free
<1>1. CASE \E t \in Workers : RpcStart(t)
  <2> PICK t \in Workers : RpcStart(t)
    BY <1>1
  <2>1. CASE \E r \in LockedRpcs : LockedBegin(t, r)
    BY <2>1 DEF LockedBegin, RpcNames, KeyRpcs
  <2>2. CASE \E r \in KeyRpcs \ LockedRpcs :
               \/ UnlockedBegin(t, r, EnsureOK)
               \/ UnlockedBegin(t, r, ~locked)
               \/ UnlockedBegin(t, r, TRUE)
    BY <2>2 DEF UnlockedBegin, RpcNames
  <2>3. CASE walletpassphrase(t)
    BY <2>3 DEF walletpassphrase, RpcNames, AdminRpcs
  <2>4. CASE walletlock(t) \/ walletpassphrasechange(t) \/ encryptwallet(t)
    BY <2>4 DEF walletlock, walletpassphrasechange, encryptwallet, workerVars
  <2>5. QED
    BY <2>1, <2>2, <2>3, <2>4, RpcStartForms
<1>2. CASE \E t \in Workers : WorkerStep(t)
  BY <1>2 DEF WorkerStep, WPUnlock, WPBlock, LockedUse, UnlockedUse, Finish
<1>3. CASE TimerExpire \/ LockWallet \/ Halted
  BY <1>3 DEF TimerExpire, LockWallet, Halted, vars, workerVars
<1>4. CASE on_ghostNIXButton_clicked \/ on_convertGhostButton_clicked
  BY <1>4 DEF on_ghostNIXButton_clicked, on_convertGhostButton_clicked, workerVars
<1>5. CASE on_generateGhostKey_clicked \/ GuiUnlock
  BY <1>5 DEF on_generateGhostKey_clicked, GuiUnlock, workerVars
<1>6. CASE GuiCancel \/ GuiUse \/ GuiRelock
  BY <1>6 DEF GuiCancel, GuiUse, GuiRelock, GuiRelease, workerVars
<1>7. QED
  BY <1>1, <1>2, <1>3, <1>4, <1>5, <1>6 DEF Next

LEMMA GuiStep ==
    ASSUME TypeOK, Next
    PROVE  TypeGui'
<1> USE DEF TypeOK, TypeGui
<1>1. CASE \E t \in Workers : RpcStart(t)
  <2> PICK t \in Workers : RpcStart(t)
    BY <1>1
  <2>1. CASE \E r \in LockedRpcs : LockedBegin(t, r)
    BY <2>1 DEF LockedBegin, guiVars
  <2>2. CASE \E r \in KeyRpcs \ LockedRpcs :
               \/ UnlockedBegin(t, r, EnsureOK)
               \/ UnlockedBegin(t, r, ~locked)
               \/ UnlockedBegin(t, r, TRUE)
    BY <2>2 DEF UnlockedBegin, guiVars
  <2>3. CASE walletpassphrase(t) \/ walletlock(t) \/ walletpassphrasechange(t)
    BY <2>3 DEF walletpassphrase, walletlock, walletpassphrasechange, guiVars
  <2>4. CASE encryptwallet(t)
    BY <2>4 DEF encryptwallet, guiVars
  <2>5. QED
    BY <2>1, <2>2, <2>3, <2>4, RpcStartForms
<1>2. CASE \E t \in Workers : WPUnlock(t) \/ WPBlock(t)
  BY <1>2 DEF WPUnlock, WPBlock, guiVars, Finish
<1>3. CASE \E t \in Workers : LockedUse(t)
  BY <1>3 DEF LockedUse, UseKeys, TypeWallet, Classes, guiVars
<1>4. CASE \E t \in Workers : UnlockedUse(t)
  <2> PICK t \in Workers : UnlockedUse(t)
    BY <1>4
  <2>1. Class(wrpc[t]) \in Classes
    BY ClassType DEF UnlockedUse, TypeThreads
  <2>2. QED
    BY <2>1 DEF UnlockedUse, UseKeys, TypeWallet, guiVars
<1>5. CASE TimerExpire \/ LockWallet \/ Halted
  BY <1>5 DEF TimerExpire, LockWallet, Halted, vars, guiVars
<1>6. CASE on_ghostNIXButton_clicked \/ on_convertGhostButton_clicked
           \/ on_generateGhostKey_clicked
  BY <1>6 DEF on_ghostNIXButton_clicked, on_convertGhostButton_clicked,
              on_generateGhostKey_clicked, GuiStart
<1>7. CASE GuiCancel \/ GuiUnlock \/ GuiRelock
  BY <1>7 DEF GuiCancel, GuiUnlock, GuiRelock
<1>8. CASE GuiUse
  BY <1>8 DEF GuiUse, UseKeys, TypeWallet, Classes
<1>9. QED
  BY <1>1, <1>2, <1>3, <1>4, <1>5, <1>6, <1>7, <1>8 DEF Next, WorkerStep

LEMMA InitTypeOK == Init => TypeOK
<1> SUFFICES ASSUME Init PROVE TypeOK
  OBVIOUS
<1>1. TypeWallet
  BY DEF Init, TypeWallet
<1>2. TypeThreads
  <2>1. NoArgs \in WPArgs
    BY DEF NoArgs, WPArgs, Sleeps
  <2>2. "walletlock" \in RpcNames
    BY DEF RpcNames, AdminRpcs
  <2>3. QED
    BY <2>1, <2>2 DEF Init, TypeThreads, Holders, Free
<1>3. TypeGui
  BY DEF Init, TypeGui
<1>4. QED
  BY <1>1, <1>2, <1>3 DEF TypeOK

LEMMA StepTypeOK == TypeOK /\ [Next]_vars => TypeOK'
<1> SUFFICES ASSUME TypeOK, [Next]_vars PROVE TypeOK'
  OBVIOUS
<1>1. CASE Next
  BY <1>1, WalletStep, ThreadsStep, GuiStep DEF TypeOK
<1>2. CASE UNCHANGED vars
  BY <1>2 DEF vars, walletVars, timerVars, workerVars, guiVars, TypeOK,
              TypeWallet, TypeThreads, TypeGui
<1>3. QED
  BY <1>1, <1>2

(* Every state of the specification is well typed.                        *)
THEOREM TypeCorrect == Spec => []TypeOK
BY InitTypeOK, StepTypeOK, PTL DEF Spec

-----------------------------------------------------------------------------
(* The check under LOCK2 stays valid.                                     *)

(* A worker between its check and its use under LOCK2 holds both locks,   *)
(* and the check still passes.                                           *)
LockDiscipline ==
    \A t \in Workers :
       wpc[t] = "use" /\ wrpc[t] \in LockedRpcs =>
          /\ mainHolder = t /\ walletHolder = t
          /\ EnsureOK

(* Without the GhostVault page the GUI thread stays idle.                  *)
GuiIdle == ~GuiUser => gpc = "idle"

LEMMA GuiIdleStep ==
    ASSUME GuiIdle, ~GuiUser, [Next]_vars
    PROVE  GuiIdle'
<1>1. CASE on_ghostNIXButton_clicked \/ on_convertGhostButton_clicked
           \/ on_generateGhostKey_clicked
  BY <1>1 DEF on_ghostNIXButton_clicked, on_convertGhostButton_clicked,
              on_generateGhostKey_clicked, GuiStart
<1>2. CASE GuiCancel \/ GuiUnlock \/ GuiUse \/ GuiRelock
  BY <1>2 DEF GuiCancel, GuiUnlock, GuiUse, GuiRelock, GuiIdle
<1>3. CASE \E t \in Workers : RpcStart(t)
  BY <1>3, RpcStartForms, Zenon
  DEF GuiIdle, LockedBegin, UnlockedBegin, walletpassphrase, walletlock,
      walletpassphrasechange, encryptwallet, guiVars
<1>4. CASE \/ \E t \in Workers : WorkerStep(t)
           \/ TimerExpire \/ LockWallet \/ Halted \/ UNCHANGED vars
  BY <1>4 DEF GuiIdle, WorkerStep, WPUnlock, WPBlock, LockedUse, UnlockedUse,
              TimerExpire, LockWallet, Halted, vars, guiVars
<1>5. QED
  BY <1>1, <1>2, <1>3, <1>4 DEF Next

LEMMA LockDisciplineStep ==
    ASSUME TypeOK, LockDiscipline, GuiIdle, ~GuiUser, [Next]_vars
    PROVE  LockDiscipline'
<1> SUFFICES ASSUME NEW t \in Workers, wpc'[t] = "use", wrpc'[t] \in LockedRpcs
             PROVE  mainHolder' = t /\ walletHolder' = t /\ EnsureOK'
  BY DEF LockDiscipline
<1> USE DEF TypeOK, TypeThreads
<1> HeldBefore == wpc[t] = "use" /\ wrpc[t] \in LockedRpcs
<1>1. HeldBefore => mainHolder = t /\ walletHolder = t /\ EnsureOK
  BY DEF LockDiscipline
<1>2. CASE \E u \in Workers : RpcStart(u)
  <2> PICK u \in Workers : RpcStart(u)
    BY <1>2
  <2>1. CASE \E r \in LockedRpcs : LockedBegin(u, r)
    BY <2>1, <1>1, WalletAssumption
    DEF LockedBegin, CanStart, walletVars, Free, HeldBefore, EnsureOK, Threads
  <2>2. CASE \E r \in KeyRpcs \ LockedRpcs :
               \/ UnlockedBegin(u, r, EnsureOK)
               \/ UnlockedBegin(u, r, ~locked)
               \/ UnlockedBegin(u, r, TRUE)
    BY <2>2, <1>1 DEF UnlockedBegin, CanStart, walletVars, HeldBefore, EnsureOK
  <2>3. CASE walletpassphrase(u)
    BY <2>3, <1>1, WalletAssumption
    DEF walletpassphrase, CanStart, walletVars, Free, HeldBefore, EnsureOK, Threads
  <2>4. CASE walletlock(u) \/ walletpassphrasechange(u) \/ encryptwallet(u)
    BY <2>4, <1>1, WalletAssumption
    DEF walletlock, walletpassphrasechange, encryptwallet, workerVars, Free,
        Threads, HeldBefore
  <2>5. QED
    BY <2>1, <2>2, <2>3, <2>4, RpcStartForms
<1>3. CASE \E u \in Workers : WPUnlock(u) \/ WPBlock(u)
  BY <1>3, <1>1, WalletAssumption DEF WPUnlock, WPBlock, Finish, Free, Threads,
                                     HeldBefore
<1>4. CASE \E u \in Workers : LockedUse(u) \/ UnlockedUse(u)
  <2> PICK u \in Workers : LockedUse(u) \/ UnlockedUse(u)
    BY <1>4
  <2>1. CASE LockedUse(u)
    <3>1. u # t
      BY <2>1 DEF LockedUse, Finish
    <3>2. walletHolder = u
      BY <2>1 DEF LockedUse, LockDiscipline
    <3>3. QED
      BY <2>1, <3>1, <3>2, <1>1 DEF LockedUse, Finish, HeldBefore
  <2>2. CASE UnlockedUse(u)
    BY <2>2, <1>1 DEF UnlockedUse, Finish, walletVars, HeldBefore, EnsureOK
  <2>3. QED
    BY <2>1, <2>2
<1>5. CASE TimerExpire
  BY <1>5, <1>1 DEF TimerExpire, walletVars, workerVars, HeldBefore, EnsureOK
<1>6. CASE LockWallet
  BY <1>6, <1>1, WalletAssumption DEF LockWallet, workerVars, Free, Threads,
                                     HeldBefore
<1>7. CASE \/ on_ghostNIXButton_clicked \/ on_convertGhostButton_clicked
           \/ on_generateGhostKey_clicked
  BY <1>7 DEF on_ghostNIXButton_clicked, on_convertGhostButton_clicked,
              on_generateGhostKey_clicked, GuiStart
<1>8. CASE GuiCancel \/ GuiUnlock \/ GuiUse \/ GuiRelock
  BY <1>8 DEF GuiCancel, GuiUnlock, GuiUse, GuiRelock, GuiIdle
<1>9. CASE Halted \/ UNCHANGED vars
  BY <1>9, <1>1 DEF Halted, vars, walletVars, workerVars, HeldBefore, EnsureOK
<1>10. QED
  BY <1>2, <1>3, <1>4, <1>5, <1>6, <1>7, <1>8, <1>9 DEF Next, WorkerStep

(* Without the GhostVault page, an RPC that passed EnsureWalletIsUnlocked *)
(* under LOCK2 always signs with the wallet it checked: walletlock,       *)
(* walletpassphrase and LockWallet all wait for cs_wallet.               *)
THEOREM LockedCheckInvariant ==
    ASSUME ~GuiUser
    PROVE  Spec => []LockedCheckHolds
<1>1. Init => LockDiscipline /\ GuiIdle
  BY DEF Init, LockDiscipline, GuiIdle
<1>2. TypeOK /\ LockDiscipline /\ GuiIdle /\ [Next]_vars
        => (LockDiscipline /\ GuiIdle)'
  BY LockDisciplineStep, GuiIdleStep
<1>3. LockDiscipline => LockedCheckHolds
  BY DEF LockDiscipline, LockedCheckHolds
<1>4. QED
  BY <1>1, <1>2, <1>3, TypeCorrect, PTL DEF Spec

-----------------------------------------------------------------------------
(* A key use never happens under a staking-only unlock.                   *)

(* The RPCs a node's users call are the LOCK2 senders and the lock        *)
(* administration only.                                                  *)
Lock2Clients == Clients \subseteq LockedRpcs \cup AdminRpcs

(* walletpassphrase holds cs_main from its start to the end of its        *)
(* cs_wallet block; during the block the unlock in force is its own; an    *)
(* unlock asked for staking only is recorded in fUnlockForStakingOnly      *)
(* unless that block is still to run; and only LOCK2 senders use keys.     *)
UseIsLocked == \A t \in Workers : wpc[t] = "use" => wrpc[t] \in LockedRpcs
PassHoldsMain == \A t \in Workers : wpc[t] \in {"unlock", "block"} => mainHolder = t
BlockAsked == \A t \in Workers : wpc[t] = "block" => asked = warg[t].staking
AskedRecorded ==
    asked /\ ~locked => stakingOnly \/ \E t \in Workers : wpc[t] = "block"

StakingDiscipline ==
    /\ UseIsLocked /\ PassHoldsMain /\ BlockAsked /\ AskedRecorded
    /\ NoKeyUseWhileStakingOnly

(* With such clients a worker starts only a LOCK2 sender or an admin RPC. *)
LEMMA Lock2Starts ==
    ASSUME Lock2Clients, NEW t \in Workers, RpcStart(t)
    PROVE  \/ \E r \in LockedRpcs : LockedBegin(t, r)
           \/ walletpassphrase(t) \/ walletlock(t)
           \/ walletpassphrasechange(t) \/ encryptwallet(t)
<1>1. \A r \in KeyRpcs \ LockedRpcs : r \notin Clients
  BY DEF Lock2Clients, KeyRpcs, LockedRpcs, EnsureRpcs, IsLockedRpcs,
         UncheckedRpcs, AdminRpcs
<1>2. QED
  BY <1>1, RpcStartForms DEF UnlockedBegin, CanStart

(* Without the GhostVault page no GUI handler runs.                        *)
LEMMA NoGuiStep ==
    ASSUME GuiIdle, ~GuiUser
    PROVE  ~ \/ on_ghostNIXButton_clicked \/ on_convertGhostButton_clicked
             \/ on_generateGhostKey_clicked
             \/ GuiCancel \/ GuiUnlock \/ GuiUse \/ GuiRelock
BY DEF GuiIdle, on_ghostNIXButton_clicked, on_convertGhostButton_clicked,
       on_generateGhostKey_clicked, GuiStart, GuiCancel, GuiUnlock, GuiUse,
       GuiRelock


(* The steps that remain: no GUI handler, and no worker past a check that *)
(* takes no lock.                                                         *)
LEMMA ServerSteps ==
    ASSUME Lock2Clients, GuiIdle, ~GuiUser, UseIsLocked, [Next]_vars
    PROVE  \/ \E t \in Workers : \E r \in LockedRpcs : LockedBegin(t, r)
           \/ \E t \in Workers : \/ walletpassphrase(t) \/ walletlock(t)
                                \/ walletpassphrasechange(t) \/ encryptwallet(t)
           \/ \E t \in Workers : WPUnlock(t) \/ WPBlock(t) \/ LockedUse(t)
           \/ TimerExpire \/ LockWallet \/ Halted \/ UNCHANGED vars
<1>1. CASE \E t \in Workers : RpcStart(t)
  BY <1>1, Lock2Starts
<1>2. ~ \E t \in Workers : UnlockedUse(t)
  BY DEF UnlockedUse, UseIsLocked
<1>3. QED
  BY <1>1, <1>2, NoGuiStep DEF Next, WorkerStep


(* The hypotheses of every step below.                                    *)
StakingContext ==
    /\ HD /\ ~GuiUser /\ Lock2Clients
    /\ TypeOK /\ LockDiscipline /\ GuiIdle /\ StakingDiscipline

LEMMA UseIsLockedStep ==
    ASSUME StakingContext, [Next]_vars PROVE UseIsLocked'
<1> USE DEF StakingContext, StakingDiscipline, TypeOK, TypeThreads
<1>1. CASE \E t \in Workers : \E r \in LockedRpcs : LockedBegin(t, r)
  BY <1>1 DEF LockedBegin, UseIsLocked
<1>2. CASE \E t \in Workers : \/ walletpassphrase(t) \/ walletlock(t)
                              \/ walletpassphrasechange(t) \/ encryptwallet(t)
  BY <1>2 DEF walletpassphrase, walletlock, walletpassphrasechange,
              encryptwallet, workerVars, UseIsLocked
<1>3. CASE \E t \in Workers : WPUnlock(t) \/ WPBlock(t) \/ LockedUse(t)
  BY <1>3 DEF WPUnlock, WPBlock, LockedUse, Finish, UseIsLocked
<1>4. CASE TimerExpire \/ LockWallet \/ Halted \/ UNCHANGED vars
  BY <1>4 DEF TimerExpire, LockWallet, Halted, vars, workerVars, UseIsLocked
<1>5. QED
  BY <1>1, <1>2, <1>3, <1>4, ServerSteps

LEMMA PassHoldsMainStep ==
    ASSUME StakingContext, [Next]_vars PROVE PassHoldsMain'
<1> USE DEF StakingContext, StakingDiscipline, TypeOK, TypeThreads
<1> SUFFICES ASSUME NEW t \in Workers, wpc'[t] \in {"unlock", "block"}
             PROVE  mainHolder' = t
  BY DEF PassHoldsMain
<1>0. mainHolder = Free => wpc[t] \notin {"unlock", "block"}
  BY WalletAssumption DEF PassHoldsMain, Free, Threads
<1>1. CASE \E u \in Workers : \E r \in LockedRpcs : LockedBegin(u, r)
  BY <1>1, <1>0 DEF LockedBegin
<1>2. CASE \E u \in Workers : walletpassphrase(u)
  BY <1>2, <1>0 DEF walletpassphrase
<1>3. CASE \E u \in Workers : \/ walletlock(u) \/ walletpassphrasechange(u)
                              \/ encryptwallet(u)
  BY <1>3 DEF walletlock, walletpassphrasechange, encryptwallet, workerVars,
              PassHoldsMain
<1>4. CASE \E u \in Workers : WPUnlock(u) \/ WPBlock(u)
  BY <1>4, <1>0 DEF WPUnlock, WPBlock, Finish, PassHoldsMain
<1>5. CASE \E u \in Workers : LockedUse(u)
  <2> PICK u \in Workers : LockedUse(u)
    BY <1>5
  <2>1. mainHolder = u
    BY DEF LockedUse, LockDiscipline
  <2>2. QED
    BY <2>1, <1>0 DEF LockedUse, Finish, PassHoldsMain
<1>6. CASE TimerExpire \/ LockWallet \/ Halted \/ UNCHANGED vars
  BY <1>6 DEF TimerExpire, LockWallet, Halted, vars, workerVars, PassHoldsMain
<1>7. QED
  BY <1>1, <1>2, <1>3, <1>4, <1>5, <1>6, ServerSteps DEF UseIsLocked


LEMMA BlockAskedStep ==
    ASSUME StakingContext, [Next]_vars PROVE BlockAsked'
<1> USE DEF StakingContext, StakingDiscipline, TypeOK, TypeThreads
<1> SUFFICES ASSUME NEW t \in Workers, wpc'[t] = "block"
             PROVE  asked' = warg'[t].staking
  BY DEF BlockAsked
<1>1. CASE \E u \in Workers : \E r \in LockedRpcs : LockedBegin(u, r)
  BY <1>1 DEF LockedBegin, walletVars, BlockAsked
<1>2. CASE \E u \in Workers : walletpassphrase(u)
  BY <1>2 DEF walletpassphrase, walletVars, BlockAsked
<1>3. CASE \E u \in Workers : \/ walletlock(u) \/ walletpassphrasechange(u)
                              \/ encryptwallet(u)
  BY <1>3 DEF walletlock, walletpassphrasechange, encryptwallet, workerVars,
              BlockAsked
<1>4. CASE \E u \in Workers : WPUnlock(u)
  <2> PICK u \in Workers : WPUnlock(u)
    BY <1>4
  <2>1. CASE u = t
    BY <2>1 DEF WPUnlock, Finish
  <2>2. CASE u # t
    <3>1. wpc[t] = "block"
      BY <2>2 DEF WPUnlock, Finish
    <3>2. mainHolder = t /\ mainHolder = u
      BY <3>1 DEF WPUnlock, PassHoldsMain
    <3>3. QED
      BY <2>2, <3>2
  <2>3. QED
    BY <2>1, <2>2
<1>5. CASE \E u \in Workers : WPBlock(u) \/ LockedUse(u)
  BY <1>5 DEF WPBlock, LockedUse, Finish, walletVars, BlockAsked
<1>6. CASE TimerExpire \/ LockWallet \/ Halted \/ UNCHANGED vars
  BY <1>6 DEF TimerExpire, LockWallet, Halted, vars, walletVars, workerVars,
              BlockAsked
<1>7. QED
  BY <1>1, <1>2, <1>3, <1>4, <1>5, <1>6, ServerSteps DEF UseIsLocked

LEMMA AskedRecordedStep ==
    ASSUME StakingContext, [Next]_vars PROVE AskedRecorded'
<1> USE DEF StakingContext, StakingDiscipline, TypeOK, TypeThreads
<1> SUFFICES ASSUME asked', ~locked'
             PROVE  stakingOnly' \/ \E t \in Workers : wpc'[t] = "block"
  BY DEF AskedRecorded
<1>0. ~locked /\ asked => stakingOnly \/ \E t \in Workers : wpc[t] = "block"
  BY DEF AskedRecorded
<1>1. CASE \E u \in Workers : \E r \in LockedRpcs : LockedBegin(u, r)
  BY <1>1, <1>0 DEF LockedBegin, CanStart, walletVars
<1>2. CASE \E u \in Workers : walletpassphrase(u)
  BY <1>2, <1>0 DEF walletpassphrase, CanStart, walletVars
<1>3. CASE \E u \in Workers : walletlock(u) \/ encryptwallet(u)
  BY <1>3 DEF walletlock, encryptwallet
<1>4. CASE \E u \in Workers : walletpassphrasechange(u)
  BY <1>4, <1>0 DEF walletpassphrasechange, workerVars
<1>5. CASE \E u \in Workers : WPUnlock(u)
  <2> PICK u \in Workers : WPUnlock(u)
    BY <1>5
  <2>1. CASE warg[u].p = pass
    BY <2>1 DEF WPUnlock
  <2>2. CASE warg[u].p # pass
    <3>1. asked /\ ~locked /\ stakingOnly' = stakingOnly
      BY <2>2 DEF WPUnlock
    <3>2. \A t \in Workers : wpc[t] = "block" => wpc'[t] = "block"
      BY <2>2 DEF WPUnlock, Finish
    <3>3. QED
      BY <3>1, <3>2, <1>0
  <2>3. QED
    BY <2>1, <2>2
<1>6. CASE \E u \in Workers : WPBlock(u)
  BY <1>6 DEF WPBlock, BlockAsked
<1>7. CASE \E u \in Workers : LockedUse(u)
  BY <1>7, <1>0 DEF LockedUse, Finish, walletVars
<1>8. CASE TimerExpire
  BY <1>8, <1>0 DEF TimerExpire, walletVars, workerVars
<1>9. CASE LockWallet
  BY <1>9 DEF LockWallet
<1>10. CASE Halted \/ UNCHANGED vars
  <2>1. UNCHANGED <<asked, locked, stakingOnly, wpc>>
    BY <1>10 DEF Halted, vars, walletVars, workerVars
  <2>2. QED
    BY <2>1, <1>0
<1>11. QED
  BY <1>1, <1>2, <1>3, <1>4, <1>5, <1>6, <1>7, <1>8, <1>9, <1>10, ServerSteps
  DEF UseIsLocked

LEMMA NoKeyUseStep ==
    ASSUME StakingContext, [Next]_vars PROVE NoKeyUseWhileStakingOnly'
<1> USE DEF StakingContext, StakingDiscipline, TypeOK, TypeThreads
<1>1. CASE \E u \in Workers : LockedUse(u)
  <2> PICK u \in Workers : LockedUse(u)
    BY <1>1
  <2>1. mainHolder = u /\ ~locked => ~stakingOnly
    BY DEF LockedUse, LockDiscipline, EnsureOK
  <2>2. \A t \in Workers : wpc[t] = "block" => mainHolder # u
    BY DEF LockedUse, PassHoldsMain
  <2>3. mainHolder = u
    BY DEF LockedUse, LockDiscipline
  <2>4. ~locked => ~asked
    BY <2>1, <2>2, <2>3 DEF AskedRecorded
  <2>5. QED
    BY <2>4 DEF LockedUse, UseKeys, NoKeyUseWhileStakingOnly
<1>2. CASE ~ \E u \in Workers : LockedUse(u)
  BY <1>2, ServerSteps
  DEF UseIsLocked, LockedBegin, walletpassphrase, walletlock,
      walletpassphrasechange, encryptwallet, WPUnlock, WPBlock, TimerExpire,
      LockWallet, Halted, vars, NoKeyUseWhileStakingOnly
<1>3. QED
  BY <1>1, <1>2

LEMMA StakingStep ==
    ASSUME StakingContext, [Next]_vars PROVE StakingDiscipline'
BY UseIsLockedStep, PassHoldsMainStep, BlockAskedStep, AskedRecordedStep,
   NoKeyUseStep DEF StakingDiscipline

(* The inductive invariant: the lock discipline of the LOCK2 senders, the *)
(* idle GUI thread and the staking discipline of walletpassphrase.        *)
StakingInv == TypeOK /\ LockDiscipline /\ GuiIdle /\ StakingDiscipline

LEMMA StakingInvariant ==
    ASSUME HD, ~GuiUser, Lock2Clients
    PROVE  Spec => []StakingInv
<1>1. Init => StakingInv
  BY InitTypeOK DEF Init, StakingInv, LockDiscipline, GuiIdle, StakingDiscipline,
                    UseIsLocked, PassHoldsMain, BlockAsked, AskedRecorded,
                    NoKeyUseWhileStakingOnly
<1>2. StakingInv /\ [Next]_vars => StakingInv'
  <2> SUFFICES ASSUME StakingInv, [Next]_vars PROVE StakingInv'
    OBVIOUS
  <2>1. TypeOK'
    BY StepTypeOK DEF StakingInv
  <2>2. (LockDiscipline /\ GuiIdle)'
    BY LockDisciplineStep, GuiIdleStep DEF StakingInv
  <2>3. StakingDiscipline'
    BY StakingStep DEF StakingContext, StakingInv
  <2>4. QED
    BY <2>1, <2>2, <2>3 DEF StakingInv
<1>3. QED
  BY <1>1, <1>2, PTL DEF Spec

(* On an HD wallet used only through the LOCK2 senders and the lock       *)
(* administration, no key is ever used under a staking-only unlock:       *)
(* walletpassphrase keeps cs_main from Unlock to the end of the block that *)
(* sets fUnlockForStakingOnly, and the senders need cs_main to start.      *)
THEOREM StakingOnlyInvariant ==
    ASSUME HD, ~GuiUser, Lock2Clients
    PROVE  Spec => []NoKeyUseWhileStakingOnly
<1>1. StakingInv => NoKeyUseWhileStakingOnly
  BY DEF StakingInv, StakingDiscipline
<1>2. QED
  BY <1>1, StakingInvariant, PTL

-----------------------------------------------------------------------------
(* The wallet implements WalletLockAbs under the refinement mapping       *)
(* WalletStatus, which shows the flag that walletpassphrase's cs_wallet    *)
(* block is about to set while a worker is in that block.  Every step is   *)
(* one abstract step or a stutter: walletlock and LockWallet are Lock,     *)
(* encryptwallet is Encrypt, Unlock (WPUnlock) is Unlock with the asked    *)
(* mode, the block (WPBlock) is a stutter, a sender's use is Use, and the  *)
(* rest leave the mapped state alone.                                      *)

(* A worker in walletpassphrase past its start works on an encrypted       *)
(* wallet: nothing decrypts a wallet.                                      *)
PassCrypted == \A t \in Workers : wpc[t] \in {"unlock", "block"} => crypted

LEMMA PassCryptedStep ==
    ASSUME StakingContext, PassCrypted, [Next]_vars PROVE PassCrypted'
<1> USE DEF StakingContext, StakingDiscipline, TypeOK, TypeThreads
<1> SUFFICES ASSUME NEW t \in Workers, wpc'[t] \in {"unlock", "block"}
             PROVE  crypted'
  BY DEF PassCrypted
<1>1. CASE \E u \in Workers : \E r \in LockedRpcs : LockedBegin(u, r)
  BY <1>1 DEF LockedBegin, walletVars, PassCrypted
<1>2. CASE \E u \in Workers : walletpassphrase(u)
  BY <1>2 DEF walletpassphrase, walletVars, PassCrypted
<1>3. CASE \E u \in Workers : \/ walletlock(u) \/ walletpassphrasechange(u)
                              \/ encryptwallet(u)
  BY <1>3 DEF walletlock, walletpassphrasechange, encryptwallet, workerVars,
              PassCrypted
<1>4. CASE \E u \in Workers : WPUnlock(u) \/ WPBlock(u) \/ LockedUse(u)
  BY <1>4 DEF WPUnlock, WPBlock, LockedUse, Finish, walletVars, PassCrypted
<1>5. CASE TimerExpire \/ LockWallet \/ Halted \/ UNCHANGED vars
  BY <1>5 DEF TimerExpire, LockWallet, Halted, vars, walletVars, workerVars,
              PassCrypted
<1>6. QED
  BY <1>1, <1>2, <1>3, <1>4, <1>5, ServerSteps DEF UseIsLocked

LEMMA AbsInit == Init => Abs!Init
BY DEF Init, Abs!Init, WalletStatus

(* Some worker is in walletpassphrase's cs_wallet block.                  *)
InBlock == \E t \in Workers : wpc[t] = "block"

(* A step that leaves the lock state, the asked mode, the last use and    *)
(* whether a block is running alone is an abstract stutter.               *)
LEMMA AbsStutter ==
    ASSUME UNCHANGED <<crypted, locked, stakingOnly, asked, lastUse>>,
           InBlock' = InBlock
    PROVE  UNCHANGED Abs!absVars
BY DEF Abs!absVars, WalletStatus, StakingShown, InBlock

(* A worker moving between idle, unlock and use leaves InBlock alone.     *)
LEMMA NoBlockMove ==
    ASSUME NEW u, wpc[u] # "block", NEW x, x # "block", wpc' = [wpc EXCEPT ![u] = x]
    PROVE  InBlock' = InBlock
BY DEF InBlock

LEMMA AbsStep ==
    ASSUME StakingContext, PassCrypted, [Next]_vars
    PROVE  [Abs!Next]_Abs!absVars
<1> USE DEF StakingContext, TypeOK, TypeWallet
<1>1. CASE \E u \in Workers : \E r \in LockedRpcs : LockedBegin(u, r)
  <2> PICK u \in Workers, r \in LockedRpcs : LockedBegin(u, r)
    BY <1>1
  <2>1. wpc[u] = "idle" /\ wpc' = [wpc EXCEPT ![u] = "use"]
    BY DEF LockedBegin, CanStart
  <2>0. InBlock' = InBlock
    BY <2>1, NoBlockMove
  <2>2. QED
    BY <2>0, AbsStutter DEF LockedBegin, walletVars
<1>2. CASE \E u \in Workers : walletpassphrase(u) \/ walletpassphrasechange(u)
  <2> PICK u \in Workers : walletpassphrase(u) \/ walletpassphrasechange(u)
    BY <1>2
  <2>1. InBlock' = InBlock
    <3>1. CASE walletpassphrase(u)
      <4>1. wpc[u] = "idle" /\ wpc' = [wpc EXCEPT ![u] = "unlock"]
        BY <3>1 DEF walletpassphrase, CanStart
      <4>2. QED
        BY <4>1, NoBlockMove
    <3>2. CASE walletpassphrasechange(u)
      BY <3>2 DEF walletpassphrasechange, workerVars, InBlock
    <3>3. QED
      BY <3>1, <3>2
  <2>2. QED
    BY <2>1, AbsStutter DEF walletpassphrase, walletpassphrasechange, walletVars
<1>3. CASE \E u \in Workers : walletlock(u)
  <2>1. Abs!Lock
    BY <1>3 DEF walletlock, Abs!Lock, WalletStatus
  <2>2. QED
    BY <2>1 DEF Abs!Next
<1>4. CASE \E u \in Workers : encryptwallet(u)
  <2>1. Abs!Encrypt
    BY <1>4 DEF encryptwallet, Abs!Encrypt, WalletStatus
  <2>2. QED
    BY <2>1 DEF Abs!Next
<1>5. CASE \E u \in Workers : WPUnlock(u)
  <2> PICK u \in Workers : WPUnlock(u)
    BY <1>5
  <2>1. crypted /\ UNCHANGED <<crypted, lastUse>>
    BY DEF WPUnlock, PassCrypted
  <2>2. CASE warg[u].p = pass
    <3>1. ~locked' /\ asked' = warg[u].staking /\ InBlock'
      BY <2>2 DEF WPUnlock, InBlock, TypeThreads
    <3>2. Abs!Unlock(warg[u].staking)
      BY <2>1, <3>1 DEF Abs!Unlock, WalletStatus, StakingShown, InBlock
    <3>3. QED
      BY <3>2 DEF Abs!Next, TypeThreads, WPArgs
  <2>3. CASE warg[u].p # pass
    <3>0. wpc[u] = "unlock" /\ wpc' = [wpc EXCEPT ![u] = "idle"]
      BY <2>3 DEF WPUnlock, Finish
    <3>1. InBlock' = InBlock
      BY <3>0, NoBlockMove
    <3>2. QED
      BY <2>3, <3>1, AbsStutter DEF WPUnlock
  <2>4. QED
    BY <2>2, <2>3
<1>6. CASE \E u \in Workers : WPBlock(u)
  <2> PICK u \in Workers : WPBlock(u)
    BY <1>6
  <2>1. InBlock /\ ~InBlock'
    <3>1. \A t \in Workers : wpc[t] = "block" => t = u
      BY DEF WPBlock, StakingDiscipline, PassHoldsMain
    <3>2. QED
      BY <3>1 DEF WPBlock, Finish, InBlock, TypeThreads
  <2>2. stakingOnly' = asked
    BY DEF WPBlock, StakingDiscipline, BlockAsked
  <2>3. UNCHANGED <<crypted, locked, asked, lastUse>>
    BY DEF WPBlock
  <2>4. QED
    BY <2>1, <2>2, <2>3 DEF Abs!absVars, WalletStatus, StakingShown, InBlock
<1>7. CASE \E u \in Workers : LockedUse(u)
  <2> PICK u \in Workers : LockedUse(u)
    BY <1>7
  <2>1. InBlock' = InBlock /\ ~InBlock
    <3>1. mainHolder = u
      BY DEF LockedUse, LockDiscipline
    <3>2. ~InBlock
      BY <3>1 DEF LockedUse, StakingDiscipline, PassHoldsMain, InBlock
    <3>0. wpc[u] = "use" /\ wpc' = [wpc EXCEPT ![u] = "idle"]
      BY DEF LockedUse, Finish
    <3>3. InBlock' = InBlock
      BY <3>0, NoBlockMove
    <3>4. QED
      BY <3>2, <3>3
  <2>2. CASE locked
    BY <2>1, <2>2, AbsStutter DEF LockedUse, UseKeys, walletVars
  <2>3. CASE ~locked
    <3>1. WalletStatus \in {"plain", "full"} /\ WalletStatus' = WalletStatus
      BY <2>1, <2>3 DEF LockedUse, LockDiscipline, EnsureOK, WalletStatus,
                        StakingShown, InBlock, walletVars
    <3>2. lastUse' = [by |-> "locked", stakingAsked |-> asked]
      BY <2>3 DEF LockedUse, UseKeys
    <3>3. Abs!Use("locked")
      BY <3>1, <3>2 DEF LockedUse, walletVars, Abs!Use
    <3>4. QED
      BY <3>3 DEF Abs!Next, Classes
  <2>4. QED
    BY <2>2, <2>3
<1>8. CASE LockWallet
  <2>1. CASE ~crypted
    BY <1>8, <2>1 DEF LockWallet, Abs!absVars, WalletStatus, StakingShown
  <2>2. CASE crypted
    <3>1. Abs!Lock
      BY <1>8, <2>2 DEF LockWallet, Abs!Lock, WalletStatus
    <3>2. QED
      BY <3>1 DEF Abs!Next
  <2>3. QED
    BY <2>1, <2>2
<1>9. CASE TimerExpire \/ Halted \/ UNCHANGED vars
  <2>1. UNCHANGED <<crypted, locked, stakingOnly, asked, lastUse, wpc>>
    BY <1>9 DEF TimerExpire, Halted, vars, walletVars, workerVars
  <2>2. QED
    BY <2>1, AbsStutter DEF InBlock
<1>10. QED
  BY <1>1, <1>2, <1>3, <1>4, <1>5, <1>6, <1>7, <1>8, <1>9, ServerSteps
  DEF StakingDiscipline, UseIsLocked

(* On an HD wallet used only through the LOCK2 senders and the lock       *)
(* administration, walletpassphrase (Unlock under cs_main, then the flag  *)
(* and the timer under cs_wallet), walletlock, the relock timer,          *)
(* encryptwallet and the senders together behave as the atomic lock of    *)
(* WalletLockAbs as getwalletinfo sees it: each walletpassphrase is one   *)
(* unlock into the mode it asked for, and keys are used only unencrypted  *)
(* or fully unlocked.                                                      *)
THEOREM Refinement ==
    ASSUME HD, ~GuiUser, Lock2Clients
    PROVE  Spec => ImplementsAbs
<1>1. Init => PassCrypted
  BY DEF Init, PassCrypted
<1>2. StakingInv /\ PassCrypted /\ [Next]_vars => PassCrypted'
  BY PassCryptedStep DEF StakingContext, StakingInv
<1>3. Spec => [](StakingInv /\ PassCrypted)
  BY <1>1, <1>2, StakingInvariant, PTL DEF Spec
<1>4. StakingInv /\ PassCrypted /\ [Next]_vars => [Abs!Next]_Abs!absVars
  BY AbsStep DEF StakingContext, StakingInv
<1>5. QED
  BY <1>3, <1>4, AbsInit, PTL DEF Spec, ImplementsAbs, Abs!Spec

=============================================================================
