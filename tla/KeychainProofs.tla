--------------------------- MODULE KeychainProofs ---------------------------
(***************************************************************************)
(* Proofs about Keychain, for every set of mnemonics, passphrases, keys and*)
(* sources and any number of flash failures.  Then, about IdleTimer: the   *)
(* device is locked in time, and only when it was idle.                    *)
(***************************************************************************)
EXTENDS KeychainHistory, IdleTimer, Integers, TLAPS

(* What the control state says about the arguments of the current call. *)
CallOK ==
  /\ (pc = "idle") <=> (call.fn = "none")
  /\ pc \in {"decrement", "decrypt", "restore"} => call.fn \in {"load", "reencrypt"}
  /\ pc = "restore" => call.payload # None
  /\ pc = "passphrase" => call.fn = "load"
  /\ pc \in {"save_counter", "save_blob"} =>
       call.new # None /\ call.payload # None /\ call.fn \in {"store", "reencrypt"}
  /\ pc = "clear_net" => call.fn = "store"
  /\ pc # "idle" /\ call.fn = "reencrypt" => call.new # None

CtlOK == pc \in Steps /\ call \in Calls /\ CallOK

(* TypeOK, with the Boolean variables apart: the provers treat them separately. *)
BoolOK == has_encrypted_blob \in BOOLEAN /\ keychain_temporary \in BOOLEAN

DataOK ==
  /\ fCounter \in 0..MaxAttempts /\ begun \in 0..MaxAttempts
  /\ strikes \in 0..MaxStrikes /\ faults \in 0..MaxFaults
  /\ fBlob \in Blobs \cup {None}
  /\ fNet \in Restrictions /\ network_type_restriction \in Restrictions
  /\ fFlags \in KeyFlags /\ key_flags \in KeyFlags
  /\ keychain_data \in Wallets \cup {None}
  /\ keychain_userdata \in Sources \cup {SOURCE_NONE}
  /\ mnemonic_entropy \in Mnemonics \cup {None}

CounterInv == CtlOK /\ BoolOK /\ DataOK /\ AttemptsBounded

USE DEF MaxAttempts, MaxStrikes

(* What a factory reset that fails may leave of the keys, and what it counts. *)
LEMMA FailedReset ==
  ASSUME FactoryResetFails
  PROVE  /\ fCounter' = 0 \/ fCounter' = fCounter
         /\ fBlob' = None \/ fBlob' = fBlob
         /\ fNet' = "NONE" \/ fNet' = fNet
         /\ fFlags' = {} \/ fFlags' = fFlags
         /\ strikes' = 0 \/ (strikes' = strikes /\ fBlob' # None)
         /\ faults < MaxFaults /\ faults' = faults + 1
BY Zenon DEF FactoryResetFails, Commit

(* The steps that change one field of the current call. *)
LEMMA CallThen ==
  ASSUME NEW c \in Calls, NEW t \in {"return", "forget", "wipe", "pin"}
  PROVE  LET d == [c EXCEPT !.then = t] IN
         /\ d \in Calls
         /\ d.fn = c.fn /\ d.aes = c.aes /\ d.new = c.new /\ d.src = c.src
         /\ d.net = c.net /\ d.pin = c.pin /\ d.payload = c.payload
         /\ d.then = t
BY DEF Calls

LEMMA CallPayload ==
  ASSUME NEW c \in Calls, NEW p \in Payloads
  PROVE  LET d == [c EXCEPT !.payload = p] IN
         /\ d \in Calls
         /\ d.fn = c.fn /\ d.new = c.new /\ d.src = c.src /\ d.payload = p
BY DEF Calls

LEMMA CallReencrypt ==
  ASSUME NEW c \in Calls, NEW k \in AesKeys
  PROVE  LET d == [c EXCEPT !.fn = "reencrypt", !.new = k] IN
         /\ d \in Calls
         /\ d.fn = "reencrypt" /\ d.new = k /\ d.payload = c.payload
BY DEF Calls

LEMMA NoCallOK == NoCall \in Calls /\ NoCall.fn = "none"
BY DEF NoCall, NewCall, Calls, Restrictions

LEMMA InitCounter == Init => CounterInv
<1> SUFFICES ASSUME Init PROVE CounterInv
  OBVIOUS
<1>1. CtlOK
  BY NoCallOK DEF Init, CtlOK, CallOK, Steps
<1>2. BoolOK
  BY Zenon DEF Init, BoolOK
<1>3. DataOK /\ AttemptsBounded
  BY FaultAssumption DEF Init, DataOK, AttemptsBounded, KeyFlags, Restrictions
<1> QED BY <1>1, <1>2, <1>3 DEF CounterInv

(* A call that goes on to erase the blob, or returns false to its caller. *)
LEMMA ErasePreserves ==
  ASSUME call \in Calls, NEW t \in {"return", "forget", "wipe", "pin"}, CallOK,
         pc # "idle", Erase(t)
  PROVE  call' \in Calls /\ CallOK'
BY CallThen DEF Erase, CallOK

LEMMA FailedPreserves ==
  ASSUME call \in Calls, CallOK, pc # "idle", Failed
  PROVE  call' \in Calls /\ CallOK' /\ pc' \in Steps
<1>1. CASE call.fn = "load" /\ call.pin = "erase" /\ Erase("pin")
  BY <1>1, ErasePreserves DEF Erase, Steps
<1>2. CASE Return
  BY <1>2, NoCallOK DEF Return, CallOK, Steps
<1>3. CASE call.fn = "reencrypt" /\ Goto("set_net")
  BY <1>3 DEF Goto, CallOK, Steps
<1> QED BY <1>1, <1>2, <1>3 DEF Failed, Erase

LEMMA CallStep ==
  ASSUME CounterInv, KeychainCall
  PROVE  CounterInv'
<1> USE FaultAssumption, NoneAssumption
<1> USE DEF CounterInv, ramVars, flashVars, keyVars, ctlVars, histVars
<1>1. CASE storage_decrement_counter
  <2>1. CtlOK'
    BY <1>1, ErasePreserves DEF storage_decrement_counter, Erase, Goto, CtlOK, CallOK, Steps
  <2>2. BoolOK'
    BY <1>1 DEF storage_decrement_counter, BoolOK
  <2>3. DataOK' /\ AttemptsBounded'
    BY <1>1 DEF storage_decrement_counter, DataOK, AttemptsBounded, Commit
  <2> QED BY <2>1, <2>2, <2>3
<1>2. CASE DecryptBlob
  <2>1. CtlOK'
    <3>1. CASE Erase("forget") \/ Erase("wipe")
      BY <1>2, <3>1, ErasePreserves DEF DecryptBlob, CtlOK, Erase, Steps
    <3>2. CASE Failed
      BY <1>2, <3>2, FailedPreserves DEF DecryptBlob, CtlOK
    <3>3. CASE fBlob # None /\ pc' = "restore"
               /\ call' = [call EXCEPT !.payload = fBlob.payload]
      <4>1. fBlob.payload \in Payloads
        BY <3>3 DEF DataOK, Blobs
      <4> QED BY <1>2, <3>3, <4>1, CallPayload DEF DecryptBlob, Steps, CtlOK, CallOK
    <3> QED BY <1>2, <3>1, <3>2, <3>3 DEF DecryptBlob
  <2>2. BoolOK'
    BY <1>2 DEF DecryptBlob, BoolOK
  <2>3. DataOK' /\ AttemptsBounded'
    BY <1>2 DEF DecryptBlob, DataOK, AttemptsBounded
  <2> QED BY <2>1, <2>2, <2>3
<1>3. CASE RestoreCounter
  <2>1. CtlOK'
    BY <1>3 DEF RestoreCounter, Goto, CtlOK, CallOK, Steps, Calls
  <2>2. BoolOK'
    BY <1>3, Zenon DEF RestoreCounter, BoolOK, keychain_set
  <2>3. call.payload \in Payloads /\ call.src \in Sources \cup {SOURCE_NONE}
    BY <1>3 DEF RestoreCounter, CtlOK, CallOK, Calls
  <2>4. /\ Derived(call.payload, EmptyPassphrase) \in Wallets
        /\ call.payload.mnemonic \in Mnemonics
    BY <2>3, EmptyAssumption DEF Derived, Payloads, Wallets
  <2>5. DataOK' /\ AttemptsBounded'
    BY <1>3, <2>3, <2>4 DEF RestoreCounter, DataOK, AttemptsBounded, keychain_set, Commit
  <2> QED BY <2>1, <2>2, <2>5
<1>4. CASE EraseCounter
  <2>1. CtlOK'
    BY <1>4 DEF EraseCounter, Goto, CtlOK, CallOK, Steps
  <2>2. BoolOK'
    BY <1>4 DEF EraseCounter, BoolOK
  <2>3. DataOK' /\ AttemptsBounded'
    BY <1>4 DEF EraseCounter, DataOK, AttemptsBounded, Commit
  <2> QED BY <2>1, <2>2, <2>3
<1>5. CASE EraseBlob
  <2>1. CtlOK'
    BY <1>5, FailedPreserves DEF EraseBlob, Goto, CtlOK, CallOK, Steps
  <2>2. BoolOK'
    BY <1>5, Zenon DEF EraseBlob, BoolOK
  <2>3. DataOK' /\ AttemptsBounded'
    BY <1>5 DEF EraseBlob, DataOK, AttemptsBounded, Commit
  <2> QED BY <2>1, <2>2, <2>3
<1>6. CASE EraseNetwork
  <2>1. CtlOK'
    BY <1>6, FailedPreserves DEF EraseNetwork, Goto, CtlOK, CallOK, Steps
  <2>2. BoolOK'
    BY <1>6, Zenon DEF EraseNetwork, BoolOK
  <2>3. DataOK' /\ AttemptsBounded'
    BY <1>6 DEF EraseNetwork, DataOK, AttemptsBounded, Restrictions,
                keychain_clear_network_type_restriction, Commit
  <2> QED BY <2>1, <2>2, <2>3
<1>7. CASE EraseFlagsAndShutdown
  <2>1. CtlOK'
    BY <1>7, NoCallOK DEF EraseFlagsAndShutdown, keychain_init_cache, Return, CtlOK, CallOK, Steps
  <2>2. BoolOK'
    <3>1. (fCounter > 0) \in BOOLEAN
      BY DEF DataOK
    <3> QED BY <1>7, <3>1, Zenon DEF EraseFlagsAndShutdown, keychain_init_cache, BoolOK
  <2>3. fFlags' \in KeyFlags
    BY <1>7 DEF EraseFlagsAndShutdown, keychain_persist_key_flags, DataOK,
                keychain_set_passphrase_frequency, KeyFlags
  <2>4. DataOK' /\ AttemptsBounded'
    BY <1>7, <2>3 DEF EraseFlagsAndShutdown, keychain_init_cache, DataOK, AttemptsBounded, Commit
  <2> QED BY <2>1, <2>2, <2>4
<1>8. CASE SaveCounter
  <2>1. CtlOK'
    BY <1>8, FailedPreserves DEF SaveCounter, Goto, CtlOK, CallOK, Steps
  <2>2. BoolOK'
    BY <1>8 DEF SaveCounter, BoolOK
  <2>3. DataOK' /\ AttemptsBounded'
    BY <1>8 DEF SaveCounter, DataOK, AttemptsBounded, Commit
  <2> QED BY <2>1, <2>2, <2>3
<1>9. CASE SaveBlob
  <2>1. CtlOK'
    BY <1>9, FailedPreserves DEF SaveBlob, Goto, CtlOK, CallOK, Steps
  <2>2. BoolOK'
    BY <1>9 DEF SaveBlob, BoolOK
  <2>3. [aes |-> call.new, payload |-> call.payload] \in Blobs
    BY <1>9 DEF SaveBlob, CtlOK, CallOK, Calls, Blobs
  <2>4. DataOK' /\ AttemptsBounded'
    BY <1>9, <2>3 DEF SaveBlob, DataOK, AttemptsBounded, Commit
  <2> QED BY <2>1, <2>2, <2>4
<1>10. CASE FinishStore
  <2>1. CtlOK'
    BY <1>10 DEF FinishStore, Goto, CtlOK, CallOK, Steps
  <2>2. BoolOK'
    BY <1>10, Zenon DEF FinishStore, BoolOK, keychain_set
  <2>3. call.src \in Sources \cup {SOURCE_NONE}
    BY DEF CtlOK, Calls
  <2>4. DataOK' /\ AttemptsBounded'
    BY <1>10, <2>3 DEF FinishStore, keychain_clear_network_type_restriction, keychain_set,
                       Commit, Restrictions, DataOK, AttemptsBounded
  <2> QED BY <2>1, <2>2, <2>4
<1> QED BY <1>1, <1>2, <1>3, <1>4, <1>5, <1>6, <1>7, <1>8, <1>9, <1>10 DEF KeychainCall

LEMMA AuthStep ==
  ASSUME CounterInv, AuthUser
  PROVE  CounterInv'
<1> USE FaultAssumption, NoneAssumption
<1> USE DEF CounterInv, ramVars, flashVars, keyVars, ctlVars, histVars
<1>1. ASSUME NEW source \in Sources, NEW net \in NetworkTypes, NEW aes \in AesKeys,
             NEW pin \in {"wallet", "erase"}, AuthLocked(source, net, aes, pin)
      PROVE  CounterInv'
  <2>1. CtlOK'
    BY <1>1 DEF AuthLocked, NewCall, CtlOK, CallOK, Steps, Calls, Restrictions
  <2>2. BoolOK'
    BY <1>1, Zenon DEF AuthLocked, keychain_clear, keychain_set, BoolOK
  <2>3. DataOK' /\ AttemptsBounded'
    BY <1>1 DEF AuthLocked, keychain_clear, keychain_set, DataOK, AttemptsBounded
  <2> QED BY <2>1, <2>2, <2>3
<1>2. ASSUME NEW source \in Sources, NEW net \in NetworkTypes, NEW aes \in AesKeys,
             AuthUnsaved(source, net, aes)
      PROVE  CounterInv'
  <2>1. (IF mnemonic_entropy # None
         THEN [kind |-> "entropy", mnemonic |-> mnemonic_entropy,
               passphrase |-> EmptyPassphrase]
         ELSE [kind |-> "keys", mnemonic |-> keychain_data.mnemonic,
               passphrase |-> keychain_data.passphrase]) \in Payloads
    BY <1>2, EmptyAssumption DEF AuthUnsaved, DataOK, Payloads, Wallets
  <2>2. CtlOK'
    BY <1>2, <2>1 DEF AuthUnsaved, NewCall, CtlOK, CallOK, Steps, Calls, Restrictions
  <2>3. BoolOK'
    BY <1>2 DEF AuthUnsaved, BoolOK
  <2>4. DataOK' /\ AttemptsBounded'
    BY <1>2 DEF AuthUnsaved, DataOK, AttemptsBounded
  <2> QED BY <2>2, <2>3, <2>4
<1>3. ASSUME NEW source \in Sources, NEW net \in NetworkTypes, AuthReady(source, net)
      PROVE  CounterInv'
  <2>1. CtlOK'
    BY <1>3 DEF AuthReady, CtlOK, CallOK
  <2>2. BoolOK'
    BY <1>3, Zenon DEF AuthReady, keychain_set, BoolOK
  <2>3. DataOK' /\ AttemptsBounded'
    BY <1>3 DEF AuthReady, keychain_set, keychain_set_network_type_restriction, Commit,
                Restrictions, DataOK, AttemptsBounded
  <2> QED BY <2>1, <2>2, <2>3
<1>4. ASSUME NEW passphrase \in Passphrases, CompleteDerivation(passphrase)
      PROVE  CounterInv'
  <2>1. CtlOK'
    BY <1>4 DEF CompleteDerivation, Goto, CtlOK, CallOK, Steps
  <2>2. BoolOK'
    BY <1>4, Zenon DEF CompleteDerivation, keychain_set, BoolOK
  <2>3. /\ [mnemonic |-> mnemonic_entropy, passphrase |-> passphrase] \in Wallets
        /\ call.src \in Sources \cup {SOURCE_NONE}
    BY <1>4 DEF CompleteDerivation, keychain_requires_passphrase, DataOK, Wallets, CtlOK, Calls
  <2>4. DataOK' /\ AttemptsBounded'
    BY <1>4, <2>3 DEF CompleteDerivation, keychain_set, DataOK, AttemptsBounded
  <2> QED BY <2>1, <2>2, <2>4
<1>5. CASE KeepPin
  <2>1. CtlOK'
    BY <1>5 DEF KeepPin, Goto, CtlOK, CallOK, Steps
  <2>2. BoolOK'
    BY <1>5 DEF KeepPin, BoolOK
  <2>3. DataOK' /\ AttemptsBounded'
    BY <1>5 DEF KeepPin, DataOK, AttemptsBounded
  <2> QED BY <2>1, <2>2, <2>3
<1>6. ASSUME NEW new \in AesKeys, ChangePin(new)
      PROVE  CounterInv'
  <2>1. CtlOK'
    BY <1>6, CallReencrypt DEF ChangePin, CtlOK, CallOK, Steps
  <2>2. BoolOK'
    BY <1>6 DEF ChangePin, BoolOK
  <2>3. DataOK' /\ AttemptsBounded'
    BY <1>6 DEF ChangePin, DataOK, AttemptsBounded
  <2> QED BY <2>1, <2>2, <2>3
<1>7. CASE SetNetwork
  <2>1. CtlOK'
    BY <1>7, NoCallOK DEF SetNetwork, Return, CtlOK, CallOK, Steps
  <2>2. BoolOK'
    BY <1>7 DEF SetNetwork, BoolOK
  <2>3. call.net \in Restrictions
    BY DEF CtlOK, Calls
  <2>4. DataOK' /\ AttemptsBounded'
    BY <1>7, <2>3 DEF SetNetwork, keychain_set_network_type_restriction, Commit, DataOK,
                      AttemptsBounded
  <2> QED BY <2>1, <2>2, <2>4
<1> QED BY <1>1, <1>2, <1>3, <1>4, <1>5, <1>6, <1>7 DEF AuthUser

LEMMA DashboardStep ==
  ASSUME CounterInv, Dashboard
  PROVE  CounterInv'
<1> USE FaultAssumption, NoneAssumption
<1> USE DEF CounterInv, ramVars, flashVars, keyVars, ctlVars, histVars
<1>1. ASSUME NEW mnemonic \in Mnemonics, NEW passphrase \in Passphrases,
             NEW temporary \in BOOLEAN, NEW advanced \in BOOLEAN,
             Initialise(mnemonic, passphrase, temporary, advanced)
      PROVE  CounterInv'
  <2>1. CtlOK'
    BY <1>1 DEF Initialise, CtlOK, CallOK
  <2>2. BoolOK'
    BY <1>1, Zenon DEF Initialise, BoolOK
  <2>3. [mnemonic |-> mnemonic, passphrase |-> passphrase] \in Wallets
    BY <1>1 DEF Wallets
  <2>4. DataOK' /\ AttemptsBounded'
    BY <1>1, <2>3 DEF Initialise, keychain_clear_network_type_restriction, Commit,
                      Restrictions, DataOK, AttemptsBounded
  <2> QED BY <2>1, <2>2, <2>4
<1>2. CASE AuthQrTemporary
  <2>1. CtlOK'
    BY <1>2 DEF AuthQrTemporary, CtlOK, CallOK
  <2>2. BoolOK'
    BY <1>2, Zenon DEF AuthQrTemporary, keychain_set, BoolOK
  <2>3. DataOK' /\ AttemptsBounded'
    BY <1>2, SourceAssumption DEF AuthQrTemporary, keychain_set, DataOK, AttemptsBounded
  <2> QED BY <2>1, <2>2, <2>3
<1>3. ASSUME NEW source \in Sources, Relogin(source)
      PROVE  CounterInv'
  <2>1. CtlOK'
    BY <1>3 DEF Relogin, CtlOK, CallOK
  <2>2. BoolOK'
    BY <1>3, Zenon DEF Relogin, keychain_set, BoolOK
  <2>3. DataOK' /\ AttemptsBounded'
    BY <1>3 DEF Relogin, keychain_set, DataOK, AttemptsBounded
  <2> QED BY <2>1, <2>2, <2>3
<1>4. CASE Logout
  <2>1. CtlOK'
    BY <1>4 DEF Logout, CtlOK, CallOK
  <2>2. BoolOK'
    BY <1>4, Zenon DEF Logout, keychain_clear, keychain_set, BoolOK
  <2>3. DataOK' /\ AttemptsBounded'
    BY <1>4 DEF Logout, keychain_clear, keychain_set, DataOK, AttemptsBounded
  <2> QED BY <2>1, <2>2, <2>3
<1>5. ASSUME NEW net \in NetworkTypes, NetworkMenu(net)
      PROVE  CounterInv'
  <2>1. CtlOK'
    BY <1>5, SourceAssumption
    DEF NetworkMenu, NewCall, CtlOK, CallOK, Steps, Calls, Restrictions
  <2>2. BoolOK'
    BY <1>5 DEF NetworkMenu, BoolOK
  <2>3. DataOK' /\ AttemptsBounded'
    BY <1>5 DEF NetworkMenu, keychain_clear_network_type_restriction, Commit, Restrictions,
                DataOK, AttemptsBounded
  <2> QED BY <2>1, <2>2, <2>3
<1>6. ASSUME NEW freq \in Frequencies, PassphrasePrefs(freq)
      PROVE  CounterInv'
  <2>1. CtlOK'
    BY <1>6 DEF PassphrasePrefs, CtlOK, CallOK
  <2>2. BoolOK'
    BY <1>6 DEF PassphrasePrefs, BoolOK
  <2>3. key_flags' \in KeyFlags
    BY <1>6 DEF PassphrasePrefs, keychain_set_passphrase_frequency, DataOK, KeyFlags
  <2>4. fFlags' \in KeyFlags
    BY <1>6, <2>3 DEF PassphrasePrefs, keychain_persist_key_flags, DataOK, KeyFlags
  <2>5. DataOK' /\ AttemptsBounded'
    BY <1>6, <2>3, <2>4 DEF PassphrasePrefs, Commit, DataOK, AttemptsBounded
  <2> QED BY <2>1, <2>2, <2>5
<1>7. CASE FactoryReset
  <2>1. CtlOK'
    BY <1>7, NoCallOK DEF FactoryReset, keychain_init_cache, Return, CtlOK, CallOK, Steps
  <2>2. BoolOK'
    <3>1. (0 > 0) \in BOOLEAN
      OBVIOUS
    <3> QED BY <1>7, <3>1, Zenon DEF FactoryReset, keychain_init_cache, BoolOK
  <2>3. DataOK' /\ AttemptsBounded'
    BY <1>7 DEF FactoryReset, keychain_init_cache, Restrictions, KeyFlags, DataOK,
                AttemptsBounded
  <2> QED BY <2>1, <2>2, <2>3
<1>8. CASE Reboot
  <2>1. CtlOK'
    BY <1>8, NoCallOK DEF Reboot, keychain_init_cache, Return, CtlOK, CallOK, Steps
  <2>2. BoolOK'
    <3>1. (fCounter > 0) \in BOOLEAN
      BY DEF DataOK
    <3> QED BY <1>8, <3>1, Zenon DEF Reboot, keychain_init_cache, BoolOK
  <2>3. DataOK' /\ AttemptsBounded'
    BY <1>8 DEF Reboot, keychain_init_cache, DataOK, AttemptsBounded
  <2> QED BY <2>1, <2>2, <2>3
<1>9. CASE FactoryResetFails
  <2>1. CtlOK'
    BY <1>9 DEF FactoryResetFails, CtlOK, CallOK
  <2>2. BoolOK'
    BY <1>9, Zenon DEF FactoryResetFails, BoolOK
  <2>3. DataOK' /\ AttemptsBounded'
    <3>1. UNCHANGED <<network_type_restriction, key_flags, keychain_data, keychain_userdata,
                      mnemonic_entropy, begun>>
      BY <1>9, Zenon DEF FactoryResetFails, ramVars
    <3>2. fCounter \in 0..3 /\ begun \in 0..3 /\ begun + fCounter <= 3
      BY DEF DataOK, AttemptsBounded
    <3>3. fCounter' \in 0..3 /\ begun' \in 0..3 /\ begun' + fCounter' <= 3
      BY FailedReset, <1>9, <3>1, <3>2
    <3>4. strikes' \in 0..MaxStrikes /\ faults' \in 0..MaxFaults
      BY FailedReset, <1>9, FaultAssumption, SMT DEF DataOK
    <3>5. fBlob' \in Blobs \cup {None} /\ fNet' \in Restrictions /\ fFlags' \in KeyFlags
      BY FailedReset, <1>9, Zenon DEF DataOK, Restrictions, KeyFlags
    <3>6. DataOK'
      BY <3>1, <3>3, <3>4, <3>5, Zenon DEF DataOK
    <3>7. AttemptsBounded'
      BY <3>3 DEF AttemptsBounded
    <3> QED BY <3>6, <3>7
  <2> QED BY <2>1, <2>2, <2>3
<1> QED BY <1>1, <1>2, <1>3, <1>4, <1>5, <1>6, <1>7, <1>8, <1>9 DEF Dashboard

LEMMA CounterInductive == CounterInv /\ [Next]_vars => CounterInv'
<1> SUFFICES ASSUME CounterInv, [Next]_vars PROVE CounterInv'
  OBVIOUS
<1>1. CASE UNCHANGED vars
  <2>1. CtlOK'
    BY <1>1 DEF CounterInv, vars, ctlVars, CtlOK, CallOK
  <2>2. BoolOK'
    BY <1>1 DEF CounterInv, vars, ramVars, BoolOK
  <2>3. DataOK' /\ AttemptsBounded'
    BY <1>1 DEF CounterInv, vars, flashVars, ramVars, histVars, DataOK, AttemptsBounded
  <2> QED BY <2>1, <2>2, <2>3 DEF CounterInv
<1> QED BY <1>1, CallStep, AuthStep, DashboardStep DEF Next

(* The inductive invariant holds in every reachable state. *)
THEOREM CounterCorrect == Spec => []CounterInv
<1>1. CounterInv /\ UNCHANGED vars => CounterInv'
  BY CounterInductive
<1> QED BY InitCounter, CounterInductive, PTL DEF Spec

(* Every variable of keychain.c and storage.c, and every argument of the calls *)
(* between them, keeps its type, whatever commits fail and whenever power goes. *)
THEOREM TypeCorrect == Spec => []TypeOK
<1>1. CounterInv => TypeOK
  BY DEF CounterInv, CtlOK, BoolOK, DataOK, TypeOK
<1> QED BY <1>1, CounterCorrect, PTL

(* At most three attempts on the stored wallet are begun between two *)
(* restorations of the counter (keychain_load_and_decrypt_blob). *)
THEOREM AttemptsAreBounded == Spec => []AttemptsBounded
<1>1. CounterInv => AttemptsBounded
  BY DEF CounterInv
<1> QED BY <1>1, CounterCorrect, PTL

-----------------------------------------------------------------------------
(* The unlocked wallet and the stored one *)

EraseSteps == {"erase_counter", "erase_blob", "erase_net", "erase_flags"}

\* The three kinds of call, up to their last step, which is common (SetNetwork).
Loading == call.fn = "load" /\ pc # "set_net"
Changing == call.fn = "reencrypt" /\ pc # "set_net"
Storing == call.fn = "store" /\ pc # "set_net"

\* A wallet is loaded into an empty RAM, and saved or given a new PIN only while it is
\* there; a change of PIN erases the blob only if the counter cannot be decremented.
CallInv ==
  /\ pc \in EraseSteps => Loading \/ Changing
  /\ pc = "erase_flags" => Loading
  /\ Loading => /\ ~keychain_temporary
                /\ pc \notin {"save_counter", "save_blob", "clear_net"}
                /\ pc \notin EraseSteps => has_encrypted_blob
                /\ pc # "unlocked" => keychain_data = None
                /\ pc # "passphrase" => mnemonic_entropy = None
  /\ Changing => /\ keychain_data # None /\ ~keychain_temporary /\ has_encrypted_blob
                 /\ pc \notin {"passphrase", "clear_net", "erase_net", "erase_flags"}
                 /\ pc \in EraseSteps => call.then = "return"
  /\ Storing => /\ keychain_data # None /\ ~keychain_temporary /\ ~has_encrypted_blob
                /\ pc \in {"save_counter", "save_blob", "clear_net"}
  /\ pc = "unlocked" => Loading /\ keychain_data # None
  /\ pc = "set_net" => keychain_data # None /\ (keychain_temporary \/ has_encrypted_blob)

\* No connection has unlocked a wallet that is neither saved nor temporary.
SessionInv ==
  /\ keychain_temporary => keychain_data # None
  /\ keychain_data # None /\ ~keychain_temporary /\ ~has_encrypted_blob =>
       keychain_userdata = SOURCE_NONE

\* The key of the call is known to open the blob in flash.
Opened ==
  \/ pc \in {"restore", "passphrase", "unlocked"}
  \/ Changing /\ pc \notin EraseSteps

Holds(payload) == Derived(payload, keychain_data.passphrase) = keychain_data

\* What is about to be delivered or saved, what is in flash and what is in RAM agree.
BlobInv ==
  /\ Opened => fBlob # None /\ fBlob.aes = call.aes
  /\ pc = "restore" => call.payload = fBlob.payload
  /\ Changing /\ pc \in {"save_counter", "save_blob"} => call.payload = fBlob.payload
  /\ pc = "passphrase" =>
       fBlob.payload.kind = "entropy" /\ mnemonic_entropy = fBlob.payload.mnemonic
  /\ Storing /\ pc \in {"save_counter", "save_blob"} => Holds(call.payload)
  /\ pc = "clear_net" => fBlob # None /\ Holds(fBlob.payload)

\* Every attempt that the counter has given up was begun, until the counter is erased.
AttemptInv ==
  /\ fCounter > 0 \/ pc = "decrypt" => begun + fCounter = MaxAttempts
  /\ pc \in {"save_blob", "clear_net"} => fCounter > 0
  /\ pc \in {"erase_counter", "erase_blob"} /\ call.then = "forget" => fBlob = None
  /\ pc \in {"erase_counter", "erase_blob"} /\ call.then = "wipe" =>
       begun = MaxAttempts /\ fCounter = 0
  /\ pc = "erase_net" /\ call.then = "wipe" => fCounter = 0
  /\ fBlob = None \/ (Opened /\ pc # "restore") => strikes = 0

\* The has-pin flag, the counter and the restriction, as long as every commit succeeds.
NoFaultInv ==
  faults = 0 =>
    /\ pc \in {"idle", "set_net"} /\ has_encrypted_blob => fCounter > 0
    /\ pc \in {"decrement", "passphrase", "unlocked"} => fCounter > 0
    /\ pc \in {"erase_counter", "erase_blob"} => call.then # "return"
    /\ keychain_data # None /\ ~keychain_temporary /\ ~has_encrypted_blob => fNet = "NONE"

WalletInv ==
  /\ CallInv /\ SessionInv
  /\ BlobInv /\ UnlockedWalletIsStored /\ EntropyIsTransient
  /\ AttemptInv /\ NoFaultInv

\* Wrong keys are counted as attempts, and no attempts remain for a blob that the unit
\* does not know of, except where a reset or a store is about to end.
Counted ==
  /\ strikes <= begun
  /\ pc = "decrypt" => strikes < begun
  /\ fBlob # None /\ ~has_encrypted_blob =>
       fCounter = 0 \/ pc \in {"erase_flags", "clear_net"}

\* What a step does to the two relations that HSpec needs history variables for.
CountStep ==
  /\ Counted => Counted' \/ Revives
  /\ fBlob' # fBlob => Counted'

NetStep ==
  /\ faults <= faults'
  /\ ~keychain_temporary /\ ~keychain_temporary' /\ faults' = 0
       /\ network_type_restriction = fNet => network_type_restriction' = fNet'

\* What every step does, the inductive invariant given.
StepOK == WalletInv' /\ KeepsSavedWallet /\ CountStep /\ NetStep

LEMMA InitWallet == Init => WalletInv /\ Counted
BY NoCallOK, NoneAssumption
DEF Init, WalletInv, CallInv, SessionInv, BlobInv, UnlockedWalletIsStored, EntropyIsTransient,
    AttemptInv, NoFaultInv, Counted, EraseSteps, Loading, Changing, Storing, Opened

(* After a start the has-pin flag says whether attempts remain. *)
LEMMA CacheAgrees ==
  ASSUME NEW counter \in Nat, NEW net, NEW flags, keychain_init_cache(counter, net, flags)
  PROVE  has_encrypted_blob' <=> counter > 0
BY Zenon DEF keychain_init_cache

LEMMA CallKeepsWallet ==
  ASSUME CounterInv, WalletInv, KeychainCall
  PROVE  StepOK
<1> USE NoneAssumption, SourceAssumption, FaultAssumption, NoCallOK
<1> USE DEF CounterInv, CtlOK, CallOK, DataOK, BoolOK, AttemptsBounded, Calls, Wallets, Blobs,
            Payloads, Derived, WalletInv, CallInv, SessionInv, BlobInv, UnlockedWalletIsStored,
            EntropyIsTransient, AttemptInv, NoFaultInv, EraseSteps, Loading, Changing, Storing,
            Opened, Holds, ramVars, flashVars, keyVars, ctlVars, histVars
<1>1. CASE storage_decrement_counter
  <2>1. CallInv' /\ SessionInv'
    BY <1>1, SMTT(20) DEF storage_decrement_counter, Erase, Goto, Commit
  <2>2. BlobInv' /\ UnlockedWalletIsStored' /\ EntropyIsTransient'
    BY <1>1, SMTT(20) DEF storage_decrement_counter, Erase, Goto, Commit
  <2>3. AttemptInv' /\ NoFaultInv' /\ CountStep
    BY <1>1, SMTT(20) DEF
      storage_decrement_counter, Erase, Goto, Commit, CountStep, Counted, Revives
  <2>4. KeepsSavedWallet /\ NetStep
    BY <1>1, SMTT(20) DEF
      storage_decrement_counter, Erase, Goto, Commit, KeepsSavedWallet, NetStep
  <2> QED BY <2>1, <2>2, <2>3, <2>4 DEF StepOK
<1>2. CASE DecryptBlob
  <2>1. CallInv' /\ SessionInv'
    BY <1>2, SMTT(20) DEF DecryptBlob, Erase, Failed, Goto, Return
  <2>2. BlobInv' /\ UnlockedWalletIsStored' /\ EntropyIsTransient'
    BY <1>2, SMTT(20) DEF DecryptBlob, Erase, Failed, Goto, Return
  <2>3. AttemptInv' /\ NoFaultInv' /\ CountStep
    BY <1>2, SMTT(20) DEF
      DecryptBlob, Erase, Failed, Goto, Return, CountStep, Counted, Revives
  <2>4. KeepsSavedWallet /\ NetStep
    BY <1>2, SMTT(20) DEF
      DecryptBlob, Erase, Failed, Goto, Return, KeepsSavedWallet, NetStep
  <2> QED BY <2>1, <2>2, <2>3, <2>4 DEF StepOK
<1>3. CASE RestoreCounter
  <2>1. CallInv' /\ SessionInv'
    BY <1>3, SMTT(20) DEF RestoreCounter, Goto, keychain_set, Commit
  <2>2. BlobInv' /\ UnlockedWalletIsStored' /\ EntropyIsTransient'
    BY <1>3, SMTT(20) DEF RestoreCounter, Goto, keychain_set, Commit
  <2>3. AttemptInv' /\ NoFaultInv' /\ CountStep
    BY <1>3, SMTT(20) DEF
      RestoreCounter, Goto, keychain_set, Commit, CountStep, Counted, Revives
  <2>4. KeepsSavedWallet /\ NetStep
    BY <1>3, SMTT(20) DEF
      RestoreCounter, Goto, keychain_set, Commit, KeepsSavedWallet, NetStep
  <2> QED BY <2>1, <2>2, <2>3, <2>4 DEF StepOK
<1>4. CASE EraseCounter
  <2>1. CallInv' /\ SessionInv'
    BY <1>4, SMTT(20) DEF EraseCounter, Goto, Commit
  <2>2. BlobInv' /\ UnlockedWalletIsStored' /\ EntropyIsTransient'
    BY <1>4, SMTT(20) DEF EraseCounter, Goto, Commit
  <2>3. AttemptInv' /\ NoFaultInv' /\ CountStep
    BY <1>4, SMTT(20) DEF EraseCounter, Goto, Commit, CountStep, Counted, Revives
  <2>4. KeepsSavedWallet /\ NetStep
    BY <1>4, SMTT(20) DEF EraseCounter, Goto, Commit, KeepsSavedWallet, NetStep
  <2> QED BY <2>1, <2>2, <2>3, <2>4 DEF StepOK
<1>5. CASE EraseBlob
  <2>1. CallInv' /\ SessionInv'
    BY <1>5, SMTT(20) DEF EraseBlob, Goto, Commit, Failed, Return
  <2>2. BlobInv' /\ UnlockedWalletIsStored' /\ EntropyIsTransient'
    BY <1>5, SMTT(20) DEF EraseBlob, Goto, Commit, Failed, Return
  <2>3. AttemptInv' /\ NoFaultInv' /\ CountStep
    BY <1>5, SMTT(20) DEF
      EraseBlob, Goto, Commit, Failed, Return, CountStep, Counted, Revives
  <2>4. KeepsSavedWallet /\ NetStep
    BY <1>5, SMTT(20) DEF EraseBlob, Goto, Commit, Failed, Return, KeepsSavedWallet, NetStep
  <2> QED BY <2>1, <2>2, <2>3, <2>4 DEF StepOK
<1>6. CASE EraseNetwork
  <2>1. CallInv' /\ SessionInv'
    BY <1>6, SMTT(20) DEF
      EraseNetwork, Goto, Commit, Failed, Return, keychain_clear_network_type_restriction
  <2>2. BlobInv' /\ UnlockedWalletIsStored' /\ EntropyIsTransient'
    BY <1>6, SMTT(20) DEF
      EraseNetwork, Goto, Commit, Failed, Return, keychain_clear_network_type_restriction
  <2>3. AttemptInv' /\ NoFaultInv' /\ CountStep
    BY <1>6, SMTT(20) DEF
      EraseNetwork, Goto, Commit, Failed, Return, keychain_clear_network_type_restriction,
      CountStep, Counted, Revives
  <2>4. KeepsSavedWallet /\ NetStep
    BY <1>6, SMTT(20) DEF
      EraseNetwork, Goto, Commit, Failed, Return, keychain_clear_network_type_restriction,
      KeepsSavedWallet, NetStep
  <2> QED BY <2>1, <2>2, <2>3, <2>4 DEF StepOK
<1>7. CASE EraseFlagsAndShutdown
  <2>1. CallInv' /\ SessionInv'
    BY <1>7, SMTT(20) DEF EraseFlagsAndShutdown, Commit, keychain_init_cache, Return
  <2>2. BlobInv' /\ UnlockedWalletIsStored' /\ EntropyIsTransient'
    BY <1>7, SMTT(20) DEF EraseFlagsAndShutdown, Commit, keychain_init_cache, Return
  <2>3. has_encrypted_blob' <=> fCounter' > 0
    BY <1>7, CacheAgrees DEF EraseFlagsAndShutdown
  <2>4. AttemptInv' /\ NoFaultInv' /\ CountStep
    BY <1>7, <2>3, SMTT(20) DEF
      EraseFlagsAndShutdown, Commit, keychain_init_cache, Return, CountStep, Counted,
      Revives
  <2>5. KeepsSavedWallet /\ NetStep
    BY <1>7, SMTT(20) DEF
      EraseFlagsAndShutdown, Commit, keychain_init_cache, Return, KeepsSavedWallet, NetStep
  <2> QED BY <2>1, <2>2, <2>4, <2>5 DEF StepOK
<1>8. CASE SaveCounter
  <2>1. CallInv' /\ SessionInv'
    BY <1>8, SMTT(20) DEF SaveCounter, Goto, Commit, Failed, Return
  <2>2. BlobInv' /\ UnlockedWalletIsStored' /\ EntropyIsTransient'
    BY <1>8, SMTT(20) DEF SaveCounter, Goto, Commit, Failed, Return
  <2>3. AttemptInv' /\ NoFaultInv' /\ CountStep
    BY <1>8, SMTT(20) DEF
      SaveCounter, Goto, Commit, Failed, Return, CountStep, Counted, Revives
  <2>4. KeepsSavedWallet /\ NetStep
    BY <1>8, SMTT(20) DEF
      SaveCounter, Goto, Commit, Failed, Return, KeepsSavedWallet, NetStep
  <2> QED BY <2>1, <2>2, <2>3, <2>4 DEF StepOK
<1>9. CASE SaveBlob
  <2>1. CallInv' /\ SessionInv'
    BY <1>9, SMTT(20) DEF SaveBlob, Goto, Commit, Failed, Return
  <2>2. BlobInv' /\ UnlockedWalletIsStored' /\ EntropyIsTransient'
    BY <1>9, SMTT(20) DEF SaveBlob, Goto, Commit, Failed, Return
  <2>3. AttemptInv' /\ NoFaultInv' /\ CountStep
    BY <1>9, SMTT(20) DEF
      SaveBlob, Goto, Commit, Failed, Return, CountStep, Counted, Revives
  <2>4. KeepsSavedWallet /\ NetStep
    BY <1>9, SMTT(20) DEF SaveBlob, Goto, Commit, Failed, Return, KeepsSavedWallet, NetStep
  <2> QED BY <2>1, <2>2, <2>3, <2>4 DEF StepOK
<1>10. CASE FinishStore
  <2>1. CallInv' /\ SessionInv'
    BY <1>10, SMTT(20) DEF
      FinishStore, Goto, Commit, keychain_set, keychain_clear_network_type_restriction
  <2>2. BlobInv' /\ UnlockedWalletIsStored' /\ EntropyIsTransient'
    BY <1>10, SMTT(20) DEF
      FinishStore, Goto, Commit, keychain_set, keychain_clear_network_type_restriction
  <2>3. AttemptInv' /\ NoFaultInv' /\ CountStep
    BY <1>10, SMTT(20) DEF
      FinishStore, Goto, Commit, keychain_set, keychain_clear_network_type_restriction,
      CountStep, Counted, Revives
  <2>4. KeepsSavedWallet /\ NetStep
    BY <1>10, SMTT(20) DEF
      FinishStore, Goto, Commit, keychain_set, keychain_clear_network_type_restriction,
      KeepsSavedWallet, NetStep
  <2> QED BY <2>1, <2>2, <2>3, <2>4 DEF StepOK
<1> QED BY <1>1, <1>2, <1>3, <1>4, <1>5, <1>6, <1>7, <1>8, <1>9, <1>10 DEF KeychainCall

LEMMA AuthKeepsWallet ==
  ASSUME CounterInv, WalletInv, AuthUser
  PROVE  StepOK
<1> USE NoneAssumption, SourceAssumption, FaultAssumption, NoCallOK
<1> USE DEF CounterInv, CtlOK, CallOK, DataOK, BoolOK, AttemptsBounded, Calls, Wallets, Blobs,
            Payloads, Derived, WalletInv, CallInv, SessionInv, BlobInv, UnlockedWalletIsStored,
            EntropyIsTransient, AttemptInv, NoFaultInv, EraseSteps, Loading, Changing, Storing,
            Opened, Holds, ramVars, flashVars, keyVars, ctlVars, histVars
<1>1. ASSUME NEW source \in Sources, NEW net \in NetworkTypes, NEW aes \in AesKeys,
             NEW pin \in {"wallet", "erase"}, AuthLocked(source, net, aes, pin)
      PROVE  StepOK
  <2>1. CallInv' /\ SessionInv'
    BY <1>1, SMTT(20) DEF AuthLocked, keychain_clear, keychain_set, NewCall
  <2>2. BlobInv' /\ UnlockedWalletIsStored' /\ EntropyIsTransient'
    BY <1>1, SMTT(20) DEF AuthLocked, keychain_clear, keychain_set, NewCall
  <2>3. AttemptInv' /\ NoFaultInv' /\ CountStep
    BY <1>1, SMTT(20) DEF
      AuthLocked, keychain_clear, keychain_set, NewCall, CountStep, Counted, Revives
  <2>4. KeepsSavedWallet /\ NetStep
    BY <1>1, SMTT(20) DEF
      AuthLocked, keychain_clear, keychain_set, NewCall, KeepsSavedWallet, NetStep
  <2> QED BY <2>1, <2>2, <2>3, <2>4 DEF StepOK
<1>2. ASSUME NEW source \in Sources, NEW net \in NetworkTypes, NEW aes \in AesKeys,
             AuthUnsaved(source, net, aes)
      PROVE  StepOK
  <2>1. CallInv' /\ SessionInv'
    BY <1>2, SMTT(20) DEF AuthUnsaved, NewCall
  <2>2. BlobInv' /\ UnlockedWalletIsStored' /\ EntropyIsTransient'
    BY <1>2, SMTT(20) DEF AuthUnsaved, NewCall
  <2>3. AttemptInv' /\ NoFaultInv' /\ CountStep
    BY <1>2, SMTT(20) DEF AuthUnsaved, NewCall, CountStep, Counted, Revives
  <2>4. KeepsSavedWallet /\ NetStep
    BY <1>2, SMTT(20) DEF AuthUnsaved, NewCall, KeepsSavedWallet, NetStep
  <2> QED BY <2>1, <2>2, <2>3, <2>4 DEF StepOK
<1>3. ASSUME NEW source \in Sources, NEW net \in NetworkTypes, AuthReady(source, net)
      PROVE  StepOK
  <2>1. CallInv' /\ SessionInv'
    BY <1>3, SMTT(20) DEF
      AuthReady, keychain_set, keychain_set_network_type_restriction, UnlockedBy, Commit
  <2>2. BlobInv' /\ UnlockedWalletIsStored' /\ EntropyIsTransient'
    BY <1>3, SMTT(20) DEF
      AuthReady, keychain_set, keychain_set_network_type_restriction, UnlockedBy, Commit
  <2>3. AttemptInv' /\ NoFaultInv' /\ CountStep
    BY <1>3, SMTT(20) DEF
      AuthReady, keychain_set, keychain_set_network_type_restriction, UnlockedBy, Commit,
      CountStep, Counted, Revives
  <2>4. KeepsSavedWallet /\ NetStep
    BY <1>3, SMTT(20) DEF
      AuthReady, keychain_set, keychain_set_network_type_restriction, UnlockedBy, Commit,
      KeepsSavedWallet, NetStep
  <2> QED BY <2>1, <2>2, <2>3, <2>4 DEF StepOK
<1>4. ASSUME NEW passphrase \in Passphrases, CompleteDerivation(passphrase)
      PROVE  StepOK
  <2>1. CallInv' /\ SessionInv'
    BY <1>4, SMTT(20) DEF
      CompleteDerivation, keychain_set, Goto, keychain_requires_passphrase
  <2>2. BlobInv' /\ UnlockedWalletIsStored' /\ EntropyIsTransient'
    BY <1>4, SMTT(20) DEF
      CompleteDerivation, keychain_set, Goto, keychain_requires_passphrase
  <2>3. AttemptInv' /\ NoFaultInv' /\ CountStep
    BY <1>4, SMTT(20) DEF
      CompleteDerivation, keychain_set, Goto, keychain_requires_passphrase, CountStep,
      Counted, Revives
  <2>4. KeepsSavedWallet /\ NetStep
    BY <1>4, SMTT(20) DEF
      CompleteDerivation, keychain_set, Goto, keychain_requires_passphrase,
      KeepsSavedWallet, NetStep
  <2> QED BY <2>1, <2>2, <2>3, <2>4 DEF StepOK
<1>5. CASE KeepPin
  <2>1. CallInv' /\ SessionInv'
    BY <1>5, SMTT(20) DEF KeepPin, Goto
  <2>2. BlobInv' /\ UnlockedWalletIsStored' /\ EntropyIsTransient'
    BY <1>5, SMTT(20) DEF KeepPin, Goto
  <2>3. AttemptInv' /\ NoFaultInv' /\ CountStep
    BY <1>5, SMTT(20) DEF KeepPin, Goto, CountStep, Counted, Revives
  <2>4. KeepsSavedWallet /\ NetStep
    BY <1>5, SMTT(20) DEF KeepPin, Goto, KeepsSavedWallet, NetStep
  <2> QED BY <2>1, <2>2, <2>3, <2>4 DEF StepOK
<1>6. ASSUME NEW new \in AesKeys, ChangePin(new)
      PROVE  StepOK
  <2>1. CallInv' /\ SessionInv'
    BY <1>6, SMTT(20) DEF ChangePin
  <2>2. BlobInv' /\ UnlockedWalletIsStored' /\ EntropyIsTransient'
    BY <1>6, SMTT(20) DEF ChangePin
  <2>3. AttemptInv' /\ NoFaultInv' /\ CountStep
    BY <1>6, SMTT(20) DEF ChangePin, CountStep, Counted, Revives
  <2>4. KeepsSavedWallet /\ NetStep
    BY <1>6, SMTT(20) DEF ChangePin, KeepsSavedWallet, NetStep
  <2> QED BY <2>1, <2>2, <2>3, <2>4 DEF StepOK
<1>7. CASE SetNetwork
  <2>1. CallInv' /\ SessionInv'
    BY <1>7, SMTT(20) DEF SetNetwork, Commit, Return, keychain_set_network_type_restriction
  <2>2. BlobInv' /\ UnlockedWalletIsStored' /\ EntropyIsTransient'
    BY <1>7, SMTT(20) DEF SetNetwork, Commit, Return, keychain_set_network_type_restriction
  <2>3. AttemptInv' /\ NoFaultInv' /\ CountStep
    BY <1>7, SMTT(20) DEF
      SetNetwork, Commit, Return, keychain_set_network_type_restriction, CountStep, Counted,
      Revives
  <2>4. KeepsSavedWallet /\ NetStep
    BY <1>7, SMTT(20) DEF
      SetNetwork, Commit, Return, keychain_set_network_type_restriction, KeepsSavedWallet,
      NetStep
  <2> QED BY <2>1, <2>2, <2>3, <2>4 DEF StepOK
<1> QED BY <1>1, <1>2, <1>3, <1>4, <1>5, <1>6, <1>7 DEF AuthUser

LEMMA DashboardKeepsWallet ==
  ASSUME CounterInv, WalletInv, Dashboard
  PROVE  StepOK
<1> USE NoneAssumption, SourceAssumption, FaultAssumption, NoCallOK
<1> USE DEF CounterInv, CtlOK, CallOK, DataOK, BoolOK, AttemptsBounded, Calls, Wallets, Blobs,
            Payloads, Derived, WalletInv, CallInv, SessionInv, BlobInv, UnlockedWalletIsStored,
            EntropyIsTransient, AttemptInv, NoFaultInv, EraseSteps, Loading, Changing, Storing,
            Opened, Holds, ramVars, flashVars, keyVars, ctlVars, histVars
<1>1. ASSUME NEW mnemonic \in Mnemonics, NEW passphrase \in Passphrases,
             NEW temporary \in BOOLEAN, NEW advanced \in BOOLEAN,
             Initialise(mnemonic, passphrase, temporary, advanced)
      PROVE  StepOK
  <2>1. CallInv' /\ SessionInv'
    BY <1>1, SMTT(20) DEF Initialise, Commit, keychain_clear_network_type_restriction
  <2>2. BlobInv' /\ UnlockedWalletIsStored' /\ EntropyIsTransient'
    BY <1>1, SMTT(20) DEF Initialise, Commit, keychain_clear_network_type_restriction
  <2>3. AttemptInv' /\ NoFaultInv' /\ CountStep
    BY <1>1, SMTT(20) DEF
      Initialise, Commit, keychain_clear_network_type_restriction, CountStep, Counted,
      Revives
  <2>4. KeepsSavedWallet /\ NetStep
    BY <1>1, SMTT(20) DEF
      Initialise, Commit, keychain_clear_network_type_restriction, KeepsSavedWallet, NetStep
  <2> QED BY <2>1, <2>2, <2>3, <2>4 DEF StepOK
<1>2. CASE AuthQrTemporary
  <2>1. CallInv' /\ SessionInv'
    BY <1>2, SMTT(20) DEF AuthQrTemporary, keychain_set
  <2>2. BlobInv' /\ UnlockedWalletIsStored' /\ EntropyIsTransient'
    BY <1>2, SMTT(20) DEF AuthQrTemporary, keychain_set
  <2>3. AttemptInv' /\ NoFaultInv' /\ CountStep
    BY <1>2, SMTT(20) DEF AuthQrTemporary, keychain_set, CountStep, Counted, Revives
  <2>4. KeepsSavedWallet /\ NetStep
    BY <1>2, SMTT(20) DEF AuthQrTemporary, keychain_set, KeepsSavedWallet, NetStep
  <2> QED BY <2>1, <2>2, <2>3, <2>4 DEF StepOK
<1>3. ASSUME NEW source \in Sources, Relogin(source)
      PROVE  StepOK
  <2>1. CallInv' /\ SessionInv'
    BY <1>3, SMTT(20) DEF Relogin, keychain_set, UnlockedBy
  <2>2. BlobInv' /\ UnlockedWalletIsStored' /\ EntropyIsTransient'
    BY <1>3, SMTT(20) DEF Relogin, keychain_set, UnlockedBy
  <2>3. AttemptInv' /\ NoFaultInv' /\ CountStep
    BY <1>3, SMTT(20) DEF Relogin, keychain_set, UnlockedBy, CountStep, Counted, Revives
  <2>4. KeepsSavedWallet /\ NetStep
    BY <1>3, SMTT(20) DEF Relogin, keychain_set, UnlockedBy, KeepsSavedWallet, NetStep
  <2> QED BY <2>1, <2>2, <2>3, <2>4 DEF StepOK
<1>4. CASE Logout
  <2>1. CallInv' /\ SessionInv'
    BY <1>4, SMTT(20) DEF Logout, keychain_clear, keychain_set
  <2>2. BlobInv' /\ UnlockedWalletIsStored' /\ EntropyIsTransient'
    BY <1>4, SMTT(20) DEF Logout, keychain_clear, keychain_set
  <2>3. AttemptInv' /\ NoFaultInv' /\ CountStep
    BY <1>4, SMTT(20) DEF Logout, keychain_clear, keychain_set, CountStep, Counted, Revives
  <2>4. KeepsSavedWallet /\ NetStep
    BY <1>4, SMTT(20) DEF Logout, keychain_clear, keychain_set, KeepsSavedWallet, NetStep
  <2> QED BY <2>1, <2>2, <2>3, <2>4 DEF StepOK
<1>5. ASSUME NEW net \in NetworkTypes, NetworkMenu(net)
      PROVE  StepOK
  <2>1. CallInv' /\ SessionInv'
    BY <1>5, SMTT(20) DEF
      NetworkMenu, NewCall, Commit, UnlockedBy, keychain_clear_network_type_restriction
  <2>2. BlobInv' /\ UnlockedWalletIsStored' /\ EntropyIsTransient'
    BY <1>5, SMTT(20) DEF
      NetworkMenu, NewCall, Commit, UnlockedBy, keychain_clear_network_type_restriction
  <2>3. AttemptInv' /\ NoFaultInv' /\ CountStep
    BY <1>5, SMTT(20) DEF
      NetworkMenu, NewCall, Commit, UnlockedBy, keychain_clear_network_type_restriction,
      CountStep, Counted, Revives
  <2>4. KeepsSavedWallet /\ NetStep
    BY <1>5, SMTT(20) DEF
      NetworkMenu, NewCall, Commit, UnlockedBy, keychain_clear_network_type_restriction,
      KeepsSavedWallet, NetStep
  <2> QED BY <2>1, <2>2, <2>3, <2>4 DEF StepOK
<1>6. ASSUME NEW freq \in Frequencies, PassphrasePrefs(freq)
      PROVE  StepOK
  <2>1. CallInv' /\ SessionInv'
    BY <1>6, SMTT(20) DEF PassphrasePrefs, Commit
  <2>2. BlobInv' /\ UnlockedWalletIsStored' /\ EntropyIsTransient'
    BY <1>6, SMTT(20) DEF PassphrasePrefs, Commit
  <2>3. AttemptInv' /\ NoFaultInv' /\ CountStep
    BY <1>6, SMTT(20) DEF PassphrasePrefs, Commit, CountStep, Counted, Revives
  <2>4. KeepsSavedWallet /\ NetStep
    BY <1>6, SMTT(20) DEF PassphrasePrefs, Commit, KeepsSavedWallet, NetStep
  <2> QED BY <2>1, <2>2, <2>3, <2>4 DEF StepOK
<1>7. CASE FactoryReset
  <2>1. CallInv' /\ SessionInv'
    BY <1>7, SMTT(20) DEF FactoryReset, keychain_init_cache, Return
  <2>2. BlobInv' /\ UnlockedWalletIsStored' /\ EntropyIsTransient'
    BY <1>7, SMTT(20) DEF FactoryReset, keychain_init_cache, Return
  <2>3. has_encrypted_blob' <=> fCounter' > 0
    BY <1>7, CacheAgrees DEF FactoryReset
  <2>4. AttemptInv' /\ NoFaultInv' /\ CountStep
    BY <1>7, <2>3, SMTT(20) DEF
      FactoryReset, keychain_init_cache, Return, CountStep, Counted, Revives
  <2>5. KeepsSavedWallet /\ NetStep
    BY <1>7, SMTT(20) DEF
      FactoryReset, keychain_init_cache, Return, KeepsSavedWallet, NetStep
  <2> QED BY <2>1, <2>2, <2>4, <2>5 DEF StepOK
<1>8. CASE Reboot
  <2>1. CallInv' /\ SessionInv'
    BY <1>8, SMTT(20) DEF Reboot, keychain_init_cache, Return
  <2>2. BlobInv' /\ UnlockedWalletIsStored' /\ EntropyIsTransient'
    BY <1>8, SMTT(20) DEF Reboot, keychain_init_cache, Return
  <2>3. has_encrypted_blob' <=> fCounter' > 0
    BY <1>8, CacheAgrees DEF Reboot
  <2>4. AttemptInv' /\ NoFaultInv' /\ CountStep
    BY <1>8, <2>3, SMTT(20) DEF
      Reboot, keychain_init_cache, Return, CountStep, Counted, Revives
  <2>5. KeepsSavedWallet /\ NetStep
    BY <1>8, SMTT(20) DEF Reboot, keychain_init_cache, Return, KeepsSavedWallet, NetStep
  <2> QED BY <2>1, <2>2, <2>4, <2>5 DEF StepOK
<1>9. CASE FactoryResetFails
  <2>1. CallInv' /\ SessionInv'
    BY <1>9, SMTT(20) DEF FactoryResetFails, Commit
  <2>2. BlobInv' /\ UnlockedWalletIsStored' /\ EntropyIsTransient'
    BY <1>9, SMTT(20) DEF FactoryResetFails, Commit
  <2>3. AttemptInv' /\ NoFaultInv' /\ CountStep
    <3>1. pc = "idle" /\ UNCHANGED <<pc, call, has_encrypted_blob, begun>>
      BY <1>9, Zenon DEF FactoryResetFails
    <3>2. AttemptInv'
      BY FailedReset, <1>9, <3>1, SMT
    <3>3. NoFaultInv'
      BY FailedReset, <1>9, SMT
    <3>4. Counted => Counted'
      BY FailedReset, <1>9, <3>1, SMT DEF Counted
    <3>5. fBlob' # fBlob => Counted'
      BY FailedReset, <1>9, <3>1, SMT DEF Counted
    <3> QED BY <3>2, <3>3, <3>4, <3>5 DEF CountStep
  <2>4. KeepsSavedWallet /\ NetStep
    BY <1>9, SMTT(20) DEF FactoryResetFails, Commit, KeepsSavedWallet, NetStep
  <2> QED BY <2>1, <2>2, <2>3, <2>4 DEF StepOK
<1> QED BY <1>1, <1>2, <1>3, <1>4, <1>5, <1>6, <1>7, <1>8, <1>9 DEF Dashboard

LEMMA WalletStep ==
  ASSUME CounterInv, WalletInv, Next
  PROVE  StepOK
BY CallKeepsWallet, AuthKeepsWallet, DashboardKeepsWallet DEF Next

LEMMA WalletInductive == CounterInv /\ WalletInv /\ [Next]_vars => WalletInv'
<1>1. WalletInv /\ UNCHANGED vars => WalletInv'
  BY DEF vars, flashVars, ramVars, ctlVars, histVars, WalletInv, CallInv, SessionInv, BlobInv,
         UnlockedWalletIsStored, EntropyIsTransient, AttemptInv, NoFaultInv, EraseSteps,
         Loading, Changing, Storing, Opened, Holds
<1> QED BY <1>1, WalletStep DEF StepOK

THEOREM WalletCorrect == Spec => []WalletInv
BY InitWallet, WalletInductive, CounterCorrect, PTL DEF Spec

(* While a persisted wallet is unlocked the blob in flash is that wallet, *)
(* whatever happens between the steps of keychain_store and keychain_reencrypt. *)
THEOREM UnlockedIsStored == Spec => []UnlockedWalletIsStored
<1>1. WalletInv => UnlockedWalletIsStored
  BY DEF WalletInv
<1> QED BY <1>1, WalletCorrect, PTL

(* The recovery entropy is in RAM only while a passphrase is awaited or the *)
(* wallet it belongs to is not yet saved (keychain_complete_derivation_with_passphrase). *)
THEOREM EntropyIsWiped == Spec => []EntropyIsTransient
<1>1. WalletInv => EntropyIsTransient
  BY DEF WalletInv
<1> QED BY <1>1, WalletCorrect, PTL

(* The assertion of get_pin_get_aeskey cannot fail unless a commit has. *)
THEOREM AttemptsRemain == Spec => []AttemptsRemainIfNoFault
<1>1. WalletInv => AttemptsRemainIfNoFault
  BY DEF WalletInv, NoFaultInv, AttemptsRemainIfNoFault
<1> QED BY <1>1, WalletCorrect, PTL

(* A saved wallet disappears only for cause, keeps its payload when its PIN changes *)
(* (keychain_reencrypt), and is not touched by a session on a temporary wallet. *)
THEOREM SavedWalletKept == Spec => SavedWalletIsKept
<1>1. CounterInv /\ WalletInv /\ [Next]_vars => [KeepsSavedWallet]_vars
  BY WalletStep DEF StepOK
<1> QED BY <1>1, CounterCorrect, WalletCorrect, PTL DEF Spec, SavedWalletIsKept

-----------------------------------------------------------------------------
(* With history variables *)

HistoryInv ==
  /\ revived \/ Counted
  /\ keychain_temporary => borrowed
  /\ borrowed \/ faults # 0 \/ network_type_restriction = fNet

LEMMA HistoryInit == HInit => Init /\ HistoryInv
<1>1. Init => network_type_restriction = fNet /\ ~keychain_temporary
  BY DEF Init
<1> QED BY <1>1, InitWallet, Zenon DEF HInit, HistoryInv

LEMMA HistoryNext == HNext => Next
BY DEF HNext, HStep, HReboot, Next, Dashboard

LEMMA HistoryStep ==
  ASSUME CounterInv, WalletInv, HistoryInv, HNext
  PROVE  HistoryInv'
<1>1. CountStep /\ NetStep
  BY HistoryNext, WalletStep DEF StepOK
<1>2. faults' = 0 => faults = 0
  BY <1>1 DEF NetStep, CounterInv, DataOK
<1>3. CASE HStep
  <2>1. revived' \/ Counted'
    <3>1. (fBlob' = fBlob /\ revived => revived') /\ (Revives => revived')
      BY <1>3, Zenon DEF HStep, Revives
    <3> QED BY <1>1, <3>1, Zenon DEF HistoryInv, CountStep
  <2>2. keychain_temporary' => borrowed'
    BY <1>3, Zenon DEF HStep
  <2>3. borrowed' \/ faults' # 0 \/ network_type_restriction' = fNet'
    BY <1>1, <1>2, <1>3, Zenon DEF HStep, HistoryInv, NetStep
  <2> QED BY <2>1, <2>2, <2>3 DEF HistoryInv
<1>4. CASE HReboot
  <2>1. /\ UNCHANGED flashVars
        /\ network_type_restriction' = fNet /\ ~keychain_temporary'
    BY <1>4, Zenon DEF HReboot, Reboot, keychain_init_cache
  <2>2. ~Revives
    BY <2>1 DEF Revives, flashVars, CounterInv, DataOK
  <2>3. revived' \/ Counted'
    BY <1>1, <1>4, <2>2, Zenon DEF HReboot, HistoryInv, CountStep
  <2> QED BY <2>1, <2>3, Zenon DEF HistoryInv, flashVars
<1> QED BY <1>3, <1>4 DEF HNext

THEOREM HistoryCorrect == HSpec => [](CounterInv /\ WalletInv /\ HistoryInv)
<1>1. HInit => CounterInv /\ WalletInv /\ HistoryInv
  BY HistoryInit, InitCounter, InitWallet
<1>2. CounterInv /\ WalletInv /\ HistoryInv /\ [HNext]_hvars
        => (CounterInv /\ WalletInv /\ HistoryInv)'
  <2> SUFFICES ASSUME CounterInv, WalletInv, HistoryInv, [HNext]_hvars
               PROVE  (CounterInv /\ WalletInv /\ HistoryInv)'
    OBVIOUS
  <2>1. [Next]_vars
    BY HistoryNext DEF hvars
  <2>2. CounterInv' /\ WalletInv'
    BY <2>1, CounterInductive, WalletInductive
  <2>3. CASE UNCHANGED hvars
    <3>1. UNCHANGED <<fBlob, fCounter, fNet, has_encrypted_blob, keychain_temporary, pc,
                      network_type_restriction, faults, strikes, begun, revived, borrowed>>
      BY <2>3 DEF hvars, vars, flashVars, ramVars, ctlVars, histVars
    <3> QED BY <2>2, <3>1, Zenon DEF HistoryInv, Counted
  <2> QED BY <2>2, <2>3, HistoryStep
<1> QED BY <1>1, <1>2, PTL DEF HSpec

(* No more than three wrong keys are tried on one blob, whatever is interrupted or fails, *)
(* unless an erasure was interrupted and a new wallet's save restored the counter. *)
THEOREM ThreeStrikes == HSpec => []ThreeStrikesErase
<1>1. CounterInv /\ HistoryInv => ThreeStrikesErase
  <2>1. CounterInv /\ Counted => strikes <= MaxAttempts
    BY DEF CounterInv, DataOK, Counted
  <2> QED BY <2>1, Zenon DEF HistoryInv, ThreeStrikesErase
<1> QED BY <1>1, HistoryCorrect, PTL

(* The restriction in force is the one saved with the wallet, and a wallet that was never *)
(* saved inherits none (keychain_set_network_type_restriction and its counterpart). *)
THEOREM NetworkIsLocked == HSpec => []LockedToNetwork
<1>1. WalletInv /\ HistoryInv => LockedToNetwork
  BY Zenon DEF WalletInv, NoFaultInv, HistoryInv, LockedToNetwork
<1> QED BY <1>1, HistoryCorrect, PTL

-----------------------------------------------------------------------------
(* The idle timer, which restarts the device and so clears the wallet: IdleTimer. *)

\* The assumptions of IdleTimer on its constants: the time-outs are at least the period in
\* which the task wakes up, and the warning is shorter than that.
LEMMA IdleConstants ==
  /\ Timeouts \subseteq {t \in Nat : Period <= t /\ t < NEVER} /\ Timeouts # {}
  /\ Period \in Nat \ {0} /\ Warning \in 1..Period /\ UiTimeout \in Nat
  /\ TickMod \in Nat \ {0} /\ MaxTime \in Nat /\ NEVER \in Nat /\ Raised \in 0..NEVER - 1
  BY TimeoutAssumption, PeriodAssumption, ClockAssumption

\* The quotient and the remainder of a number, as SMT has them.
LEMMA Division ==
  ASSUME NEW M \in Nat \ {0}, NEW a \in Nat
  PROVE  /\ a \div M \in Nat /\ a % M \in Nat /\ a % M < M /\ a = M * (a \div M) + (a % M)
<1>1. a \div M \in Int /\ a = M * (a \div M) + (a % M) /\ a % M \in Int /\ 0 <= a % M /\ a % M < M
  BY SMT
<1> DEFINE q == a \div M
           r == a % M
<1>2. q \in Int /\ a = M * q + r /\ r \in Int /\ 0 <= r /\ r < M
  BY <1>1
<1> HIDE DEF q, r
<1>3. q > -1
  BY <1>2, SMT
<1>4. q \in Nat /\ r \in Nat
  BY <1>2, <1>3
<1>5. r < M /\ a = M * q + r
  BY <1>2
<1> QED BY <1>4, <1>5, Zenon DEF q, r

\* They are the only ones.
LEMMA Quotient ==
  ASSUME NEW M \in Nat \ {0}, NEW a \in Nat, NEW q \in Nat, NEW r \in Nat, r < M, a = M * q + r
  PROVE  a \div M = q /\ a % M = r
<1> DEFINE p == a \div M
           s == a % M
<1>1. p \in Nat /\ s \in Nat /\ s < M /\ a = M * p + s
  BY Division
<1> HIDE DEF p, s
<1>2. M * (p - q) = r - s
  BY <1>1
<1> DEFINE d == p - q
<1>3. d \in Int /\ M * d < M /\ M * d > -M /\ p = q + d
  BY <1>1, <1>2
<1> HIDE DEF d
<1>4. d < 1 /\ d > -1
  BY <1>3, SMT
<1>5. d = 0
  BY <1>3, <1>4
<1>6. p = q
  BY <1>3, <1>5, <1>1
<1>7. M * q \in Int
  OBVIOUS
<1>8. s = r
  BY <1>1, <1>6, <1>7
<1> QED BY <1>6, <1>8 DEF p, s

\* A sum as a TickType_t, which is what the code adds, wraps as the sum of the true times.
LEMMA Wraps ==
  ASSUME NEW M \in Nat \ {0}, NEW a \in Nat, NEW t \in Nat
  PROVE  /\ ((a % M) + t) % M = (a + t) % M
         /\ (a + t) % M <= (a % M) + t
         /\ a \div M = (a + t) \div M => (a + t) % M = (a % M) + t
<1> DEFINE q == a \div M
           r == a % M
           x == r + t
           u == x \div M
           v == x % M
<1>1. q \in Nat /\ r \in Nat /\ r < M /\ a = M * q + r
  BY Division
<1>2. x \in Nat /\ x = r + t
  BY <1>1
<1>3. u \in Nat /\ v \in Nat /\ v < M /\ x = M * u + v
  <2> HIDE DEF x
  <2> QED BY <1>2, Division
<1> HIDE DEF q, r, x, u, v
<1>4. a + t = M * (q + u) + v /\ q + u \in Nat /\ a + t \in Nat
  BY <1>1, <1>2, <1>3, SMT
<1>5. (a + t) % M = v /\ (a + t) \div M = q + u
  <2> DEFINE b == a + t
             w == q + u
  <2>1. b \in Nat /\ w \in Nat /\ b = M * w + v
    BY <1>4
  <2> HIDE DEF b, w
  <2>2. b % M = v /\ b \div M = w
    BY <1>3, <2>1, Quotient
  <2> QED BY <2>2 DEF b, w
<1>6. M * u >= 0
  BY <1>3, SMT
<1>7. v <= x
  BY <1>2, <1>3, <1>6
<1>8. q = q + u => v = x
  <2>1. q = q + u => u = 0
    BY <1>1, <1>3
  <2>2. u = 0 => M * u = 0
    OBVIOUS
  <2> QED BY <1>2, <1>3, <2>1, <2>2
<1> QED BY <1>5, <1>7, <1>8, <1>2 DEF q, r, x, u, v

\* A later time is in the same epoch of the clock or a later one, and times of the same one
\* are compared by their ticks.
LEMMA Epochs ==
  ASSUME NEW M \in Nat \ {0}, NEW a \in Nat, NEW b \in Nat
  PROVE  /\ a <= b => a \div M <= b \div M
         /\ a \div M = b \div M => (a <= b <=> a % M <= b % M)
<1> DEFINE q == a \div M
           r == a % M
           u == b \div M
           v == b % M
<1>1. q \in Nat /\ r \in Nat /\ r < M /\ a = M * q + r
  BY Division
<1>2. u \in Nat /\ v \in Nat /\ v < M /\ b = M * u + v
  BY Division
<1> HIDE DEF q, r, u, v
<1>3. ASSUME a <= b PROVE q <= u
  <2> DEFINE d == q - u
  <2>1. d \in Int /\ M * d < M
    <3>1. M * d = M * q - M * u /\ M * q \in Int /\ M * u \in Int
      BY <1>1, <1>2, SMT
    <3> QED BY <1>1, <1>2, <1>3, <3>1
  <2> HIDE DEF d
  <2>2. d < 1
    BY <2>1, SMT
  <2> QED BY <1>1, <1>2, <2>2, <2>1 DEF d
<1>4. ASSUME q = u PROVE a <= b <=> r <= v
  <2>1. M * q \in Int
    BY <1>1
  <2> QED BY <1>1, <1>2, <1>4, <2>1
<1> QED BY <1>3, <1>4 DEF q, r, u, v

\* What SleepTime and TimedOut compute, of the locals of the task.
Projected(last, timeout) == (Tick(last) + timeout) % TickMod
SleepOf(last, timeout, check) ==
  IF Projected(last, timeout) > Tick(check) /\ Projected(last, timeout) < Tick(check + Period)
  THEN Projected(last, timeout) - Tick(check) ELSE Period

\* The moment the time-out or the change is noticed, for a last activity, a time-out and a
\* last change; and whether the device is to be locked, and the clock does not wrap.  The task
\* has been held back for h ticks since the last activity or change.
Base(last, timeout, change) == Max2(last + timeout, change + Period)
Locking(last, timeout, change, h) ==
  /\ timeout # NEVER
  /\ SameEpoch(last, Base(last, timeout, change) + 2 * Warning + h + Period)

\* Besides the ticks in which the task was held back, at most s have passed since the last
\* activity or change.
Since(n, last, change, h, s) == n <= last + s + h \/ n <= change + s + h

\* The steps in which the task reads, has yet to decide, or is about to warn; those after it has
\* read the clock; and those after it has found a time-out.
Reading == {"minimum", "activity", "clock", "decide", "loaded", "show"}
HasChecked == {"decide", "loaded", "show", "warn", "act", "dim"}
HasTimedOut == {"loaded", "show", "warn", "act"}

\* The time that the task is late at most, by its step.
InTime(n, last, timeout, change, h, k) ==
  Locking(last, timeout, change, h) =>
    LET base == Base(last, timeout, change) + h IN
    /\ k.pc = "sleep" => k.wake <= base + Warning /\ n <= base + Warning
    /\ k.pc \in Reading => n <= base + Warning
    /\ k.pc = "dim" => n + SleepOf(k.last, k.timeout, k.check) <= base
    /\ k.pc = "warn" => k.wake <= base + 2 * Warning /\ n <= base + 2 * Warning
    /\ k.pc = "act" => n <= base + 2 * Warning

Fields == {"pc", "wake", "timeout", "last", "check", "action", "acted", "unseen"}

\* The task and its locals, at time n with the last activity at time last: what it has read of
\* that, and what it has seen of an activity that came later.
TaskOK(n, last, change, h, k) ==
  /\ DOMAIN k = Fields
  /\ k.pc \in {"sleep", "warn", "act", "dim"} \cup Reading
  /\ k.wake \in Nat /\ k.check \in Nat /\ k.last \in Nat /\ k.timeout \in Nat
  /\ k.check <= n /\ k.last <= n
  /\ k.pc = "sleep" => k.wake <= n + Period
  /\ k.pc = "warn" => k.wake <= n + Warning
  /\ k.pc \in HasChecked => k.last <= k.check /\ (last = k.last \/ k.unseen \/ k.check <= last)
  /\ k.pc = "clock" => last = k.last \/ k.unseen
  /\ k.pc \in HasTimedOut => Projected(k.last, k.timeout) <= Tick(k.check)
  /\ k.pc = "decide" => n <= k.check + h \/ Since(n, last, change, h, 0)
  /\ k.pc \in {"decide", "loaded", "show"} /\ k.check <= last => Since(n, last, change, h, 0)
  /\ k.pc = "warn" /\ (k.acted \/ k.check <= last) =>
       Since(n, last, change, h, Warning) /\ Since(k.wake, last, change, h, Warning)
  /\ k.acted => k.pc = "warn"
  /\ k.pc = "act" => k.unseen \/ Tick(last) <= Tick(k.check)

\* The values of the setting, the minimum and the clock.
IdleTimes ==
  /\ now \in Nat /\ last_activity_registered \in 0..now /\ changed \in 0..now /\ held \in Nat
  /\ idle_timeout \in Timeouts \cup {NEVER} /\ min_timeout_override_secs \in {0, Raised}

\* What the task has read is still true while it decides.
UpToDate ==
  /\ task.pc = "minimum" => task.timeout = idle_timeout
  /\ task.pc \in {"activity", "clock", "decide"} => task.timeout = Timeout
  /\ task.pc \in {"clock", "decide"} => task.last = last_activity_registered

\* Nothing but time in which the task was held back has passed since the last activity or change.
JustNow == Since(now, last_activity_registered, changed, held, 0)

\* The task; what it has read, of the cable too, is true or has just changed.
IdleTask ==
  /\ TaskOK(now, last_activity_registered, changed, held, task)
  /\ UpToDate \/ JustNow
  /\ task.pc = "loaded" => usb_is_powered \/ JustNow

\* A device that is to be locked has a task in time.
IdleLock ==
  keychain \/ ~usb_is_powered =>
    InTime(now, last_activity_registered, Timeout, changed, held, task)

\* The inductive invariant.
IdleInv == IdleTimes /\ IdleTask /\ IdleLock

\* A time-out is never shorter than the period, whatever the minimum.
LEMMA TimeoutFacts ==
  ASSUME NEW t \in Timeouts \cup {NEVER}, NEW m \in {0, Raised}
  PROVE  Max2(t, m) \in Nat /\ Max2(t, m) >= Period
<1>1. t \in Nat /\ m \in Nat /\ Period \in Nat
  BY IdleConstants
<1>2. t >= Period \/ t = NEVER
  BY IdleConstants
<1>3. NEVER \in Nat /\ NEVER > Period
  <2>1. PICK s \in Timeouts : TRUE
    BY IdleConstants
  <2>2. s \in Nat /\ Period <= s /\ s < NEVER /\ Period \in Nat /\ NEVER \in Nat
    BY IdleConstants
  <2> QED BY <2>2
<1>4. t >= Period
  BY <1>1, <1>2, <1>3
<1> QED BY <1>1, <1>4 DEF Max2

\* The task may take the whole period after an activity or a change.
LEMMA BaseFacts ==
  ASSUME NEW l \in Nat, NEW t \in Nat, NEW c \in Nat, t >= Period
  PROVE  /\ Base(l, t, c) \in Nat /\ Base(l, t, c) >= l + t /\ Base(l, t, c) >= c + Period
         /\ Base(l, t, c) >= l + Period
         /\ Period \in Nat /\ Warning \in Nat /\ Warning >= 1 /\ Warning <= Period
         /\ TickMod \in Nat \ {0}
<1>1. Period \in Nat /\ Warning \in Nat /\ Warning >= 1 /\ Warning <= Period /\ TickMod \in Nat \ {0}
  BY IdleConstants
<1> QED BY <1>1 DEF Base, Max2

\* The projected time is the true one, as a TickType_t.
LEMMA ProjectedFacts ==
  ASSUME NEW l \in Nat, NEW t \in Nat
  PROVE  Projected(l, t) = Tick(l + t)
<1>1. TickMod \in Nat \ {0}
  BY IdleConstants
<1> QED BY <1>1, Wraps, Zenon DEF Projected, Tick

\* What is needed of ticks.
LEMMA TickFacts ==
  ASSUME NEW a \in Nat, NEW b \in Nat
  PROVE  /\ Tick(a) \in Nat
         /\ a <= b => (a \div TickMod) <= (b \div TickMod)
         /\ (a \div TickMod) \in Nat /\ (b \div TickMod) \in Nat
         /\ SameEpoch(a, b) => (a <= b <=> Tick(a) <= Tick(b))
         /\ Tick(a + b) <= Tick(a) + b
         /\ SameEpoch(a, a + b) => Tick(a + b) = Tick(a) + b
<1>1. TickMod \in Nat \ {0}
  BY IdleConstants
<1>2. /\ a % TickMod \in Nat /\ (a \div TickMod) \in Nat /\ (b \div TickMod) \in Nat
  BY <1>1, Division
<1>3. /\ a <= b => (a \div TickMod) <= (b \div TickMod)
      /\ (a \div TickMod) = (b \div TickMod) => (a <= b <=> (a % TickMod) <= (b % TickMod))
  BY <1>1, Epochs
<1>4. /\ (a + b) % TickMod <= (a % TickMod) + b
      /\ (a \div TickMod) = ((a + b) \div TickMod) => (a + b) % TickMod = (a % TickMod) + b
  BY <1>1, Wraps
<1> QED BY <1>2, <1>3, <1>4, Zenon DEF Tick, SameEpoch

\* Times between two of the same epoch are of that epoch.
LEMMA EpochBetween ==
  ASSUME NEW a \in Nat, NEW b \in Nat, NEW c \in Nat, NEW d \in Nat,
         a <= b, b <= c, c <= d, SameEpoch(a, d)
  PROVE  SameEpoch(a, b) /\ SameEpoch(b, c) /\ SameEpoch(a, c)
<1>1. TickMod \in Nat \ {0}
  BY IdleConstants
<1>2. /\ (a \div TickMod) <= (b \div TickMod) /\ (b \div TickMod) <= (c \div TickMod)
      /\ (c \div TickMod) <= (d \div TickMod)
  BY <1>1, Epochs
<1>3. /\ (a \div TickMod) \in Nat /\ (b \div TickMod) \in Nat /\ (c \div TickMod) \in Nat
      /\ (d \div TickMod) \in Nat
  BY <1>1, Division
<1> DEFINE e == a \div TickMod
           f == b \div TickMod
           g == c \div TickMod
           h == d \div TickMod
<1>4. e \in Nat /\ f \in Nat /\ g \in Nat /\ h \in Nat /\ e <= f /\ f <= g /\ g <= h /\ e = h
  BY <1>2, <1>3 DEF SameEpoch
<1> HIDE DEF e, f, g, h
<1>5. e = f /\ f = g /\ e = g
  BY <1>4
<1> QED BY <1>5 DEF SameEpoch, e, f, g, h

\* The task sleeps for a period at most.
LEMMA SleepFacts ==
  ASSUME NEW l \in Nat, NEW t \in Nat, NEW c \in Nat
  PROVE  SleepOf(l, t, c) \in Nat /\ SleepOf(l, t, c) <= Period
<1>1. Period \in Nat
  BY IdleConstants
<1>2. /\ Tick(c) \in Nat /\ Tick(c + Period) <= Tick(c) + Period
      /\ Tick(c + Period) \in Nat /\ Tick(l + t) \in Nat
  <2>1. c + Period \in Nat /\ l + t \in Nat
    BY <1>1
  <2> QED BY <1>1, <2>1, TickFacts
<1>3. Projected(l, t) = Tick(l + t)
  BY ProjectedFacts
<1> QED BY <1>1, <1>2, <1>3 DEF SleepOf

\* Right after an activity or a change the task cannot be late.
LEMMA FreshInTime ==
  ASSUME NEW n \in Nat, NEW l \in Nat, NEW t \in Nat, NEW c \in Nat, NEW h \in Nat, t >= Period,
         Since(n, l, c, h, 0), NEW k, TaskOK(n, l, c, h, k)
  PROVE  InTime(n, l, t, c, h, k)
<1> DEFINE base == Base(l, t, c)
           sleep == SleepOf(k.last, k.timeout, k.check)
<1>1. /\ base \in Nat /\ base + h >= n + Period
      /\ Period \in Nat /\ Warning \in Nat /\ Warning <= Period
  <2>1. /\ base \in Nat /\ base >= l + Period /\ base >= c + Period
        /\ Period \in Nat /\ Warning \in Nat /\ Warning <= Period
    BY BaseFacts
  <2> HIDE DEF base
  <2> QED BY <2>1 DEF Since
<1>2. sleep \in Nat /\ sleep <= Period
  BY SleepFacts DEF TaskOK
<1>3. /\ k.wake \in Nat
      /\ k.pc = "sleep" => k.wake <= n + Period
      /\ k.pc = "warn" => k.wake <= n + Warning
  BY DEF TaskOK
<1> HIDE DEF base, sleep
<1>4. /\ k.pc = "sleep" => k.wake <= base + h + Warning
      /\ n <= base + h + Warning /\ n + sleep <= base + h /\ n <= base + h + 2 * Warning
      /\ k.pc = "warn" => k.wake <= base + h + 2 * Warning
  BY <1>1, <1>2, <1>3
<1> QED BY <1>4, Zenon DEF InTime, base, sleep

\* A check that finds no time-out lets the task sleep till the time-out at most.
LEMMA SleepsInTime ==
  ASSUME NEW n \in Nat, NEW l \in Nat, NEW t \in Nat, NEW c \in Nat, NEW h \in Nat, t >= Period,
         l <= n, Locking(l, t, c, h), n <= Base(l, t, c) + h + Warning,
         ~(Projected(l, t) <= Tick(n))
  PROVE  n + SleepOf(l, t, n) <= Base(l, t, c)
<1> DEFINE base == Base(l, t, c)
           end == base + 2 * Warning + h + Period
           due == l + t
<1>1. /\ base \in Nat /\ base >= due /\ Period \in Nat /\ Warning \in Nat
      /\ n <= base + h + Warning
  BY BaseFacts
<1>2. SameEpoch(l, end)
  BY DEF Locking
<1>3. Projected(l, t) = Tick(due)
  BY ProjectedFacts
<1> HIDE DEF base
<1>4. /\ end \in Nat /\ due \in Nat /\ n + Period \in Nat
      /\ l <= n /\ n <= n + Period /\ n + Period <= end /\ l <= due /\ due <= end
  BY <1>1
<1> HIDE DEF end
<1>5. SameEpoch(l, n) /\ SameEpoch(n, n + Period) /\ SameEpoch(l, n + Period)
  BY <1>2, <1>4, EpochBetween
<1>6. SameEpoch(l, due)
  <2> HIDE DEF due
  <2>1. due <= due
    BY <1>4
  <2> QED BY <1>2, <1>4, <2>1, EpochBetween
<1>7. /\ SameEpoch(n, due) /\ SameEpoch(due, n) /\ SameEpoch(n + Period, due)
  BY <1>5, <1>6, Zenon DEF SameEpoch
<1>8. Tick(due) \in Nat /\ Tick(n) \in Nat /\ Tick(n + Period) = Tick(n) + Period
  BY <1>1, <1>4, <1>5, TickFacts
<1>9. due > n
  <2>1. due <= n <=> Tick(due) <= Tick(n)
    <3> HIDE DEF due
    <3> QED BY <1>4, <1>7, TickFacts
  <2> QED BY <1>3, <1>4, <2>1
<1>10. Tick(due) > Tick(n)
  BY <1>3, <1>8
<1>11. CASE Tick(due) < Tick(n + Period)
  <2> DEFINE d == due - n
  <2>1. d \in Nat /\ due = n + d
    BY <1>4, <1>9
  <2>2. Tick(due) = Tick(n) + d
    <3> HIDE DEF d, due
    <3> QED BY <1>7, <2>1, TickFacts
  <2>3. SleepOf(l, t, n) = Tick(due) - Tick(n)
    BY <1>3, <1>10, <1>11 DEF SleepOf
  <2> HIDE DEF d, due
  <2>4. SleepOf(l, t, n) = d
    BY <1>8, <2>1, <2>2, <2>3
  <2> QED BY <1>1, <2>1, <2>4 DEF base
<1>12. CASE ~(Tick(due) < Tick(n + Period))
  <2>1. SleepOf(l, t, n) = Period
    BY <1>3, <1>12 DEF SleepOf
  <2>2. n + Period <= due <=> Tick(n + Period) <= Tick(due)
    <3> DEFINE m == n + Period
    <3> HIDE DEF due, m
    <3>1. m <= due <=> Tick(m) <= Tick(due)
      BY <1>4, <1>7, TickFacts DEF m
    <3> QED BY <3>1 DEF m
  <2>3. n + Period <= due
    <3> HIDE DEF due
    <3>1. Tick(n + Period) \in Nat
      BY <1>1, <1>8
    <3> QED BY <1>8, <1>12, <2>2, <3>1
  <2> QED BY <1>1, <1>4, <2>1, <2>3 DEF base
<1> QED BY <1>11, <1>12

\* The sleep after a warning that an activity has ended.
LEMMA WarnedInTime ==
  ASSUME NEW n \in Nat, NEW l \in Nat, NEW t \in Nat, NEW c \in Nat, NEW h \in Nat, t >= Period,
         l <= n, Locking(l, t, c, h), NEW check \in Nat, check <= n,
         n <= Base(l, t, c) + h + 2 * Warning,
         check <= l => Since(n, l, c, h, Warning),
         Since(n, l, c, h, Warning) \/ Tick(l) > Tick(check)
  PROVE  n + Period <= Base(l, t, c) + h + Warning
<1> DEFINE base == Base(l, t, c)
           end == base + 2 * Warning + h + Period
<1>1. /\ base \in Nat /\ base >= l + Period /\ base >= c + Period
      /\ Period \in Nat /\ Warning \in Nat /\ n <= base + h + 2 * Warning
  BY BaseFacts
<1>2. SameEpoch(l, end)
  BY DEF Locking
<1> HIDE DEF base
<1>3. CASE Since(n, l, c, h, Warning)
  <2>1. n + Period <= base + h + Warning
    BY <1>1, <1>3 DEF Since
  <2> QED BY <2>1 DEF base
<1>4. CASE ~Since(n, l, c, h, Warning)
  <2>1. end \in Nat /\ l <= check /\ check <= end
    BY <1>1, <1>4
  <2> HIDE DEF end
  <2>2. SameEpoch(l, check)
    <3>1. check <= check
      OBVIOUS
    <3> QED BY <1>2, <2>1, <3>1, EpochBetween
  <2>3. Tick(l) <= Tick(check) /\ Tick(l) \in Nat /\ Tick(check) \in Nat
    BY <2>1, <2>2, TickFacts
  <2> QED BY <1>4, <2>3
<1> QED BY <1>3, <1>4

\* When the device restarts nothing has happened for the time-out of the last check.
LEMMA IdleWhenActing ==
  ASSUME NEW n \in Nat, NEW l \in Nat, NEW c, NEW h, NEW k, TaskOK(n, l, c, h, k), k.pc = "act"
  PROVE  \/ l + k.timeout <= k.check
         \/ k.unseen \/ l = k.check
         \/ ~SameEpoch(l, l + k.timeout) \/ ~SameEpoch(k.check, l)
<1> SUFFICES ASSUME ~k.unseen, l # k.check, SameEpoch(l, l + k.timeout), SameEpoch(k.check, l)
             PROVE  l + k.timeout <= k.check
  OBVIOUS
<1> DEFINE check == k.check
           t == k.timeout
           due == l + t
<1>1. /\ check \in Nat /\ t \in Nat /\ l # check
      /\ Tick(l) <= Tick(check)
      /\ Projected(k.last, t) <= Tick(check)
      /\ l = k.last \/ check <= l
      /\ SameEpoch(l, due) /\ SameEpoch(check, l)
  BY DEF TaskOK, HasChecked, HasTimedOut
<1> HIDE DEF check, t
<1>2. l < check
  <2>1. SameEpoch(l, check)
    BY <1>1 DEF SameEpoch
  <2>2. l <= check
    BY <1>1, <2>1, TickFacts
  <2> QED BY <1>1, <2>2
<1>3. k.last = l
  BY <1>1, <1>2
<1>4. Tick(due) <= Tick(check) /\ due \in Nat
  BY <1>1, <1>3, ProjectedFacts
<1>5. due <= check
  <2> HIDE DEF due
  <2>1. SameEpoch(due, check)
    BY <1>1 DEF SameEpoch
  <2> QED BY <1>1, <1>4, <2>1, TickFacts
<1> QED BY <1>5 DEF check, t

\* The values the invariant is about, as numbers.
IdleValues ==
  /\ now \in Nat /\ last_activity_registered \in Nat /\ changed \in Nat /\ held \in Nat
  /\ last_activity_registered <= now /\ changed <= now
  /\ Timeout \in Nat /\ Timeout >= Period

\* They are numbers, in a state with the right types and in the next one.
LEMMA IdleValuesHold ==
  (IdleTimes => IdleValues) /\ (IdleTimes' => IdleValues')
<1>1. ASSUME IdleTimes PROVE IdleValues
  <2>1. Timeout \in Nat /\ Timeout >= Period
    BY <1>1, TimeoutFacts DEF IdleTimes, Timeout
  <2> QED BY <1>1, <2>1 DEF IdleTimes, IdleValues
<1>2. ASSUME IdleTimes' PROVE IdleValues'
  <2>1. Timeout' \in Nat /\ Timeout' >= Period
    BY <1>2, TimeoutFacts DEF IdleTimes, Timeout
  <2> QED BY <1>2, <2>1 DEF IdleTimes, IdleValues
<1> QED BY <1>1, <1>2

\* The periods are positive.
LEMMA IdleConsts ==
  Period \in Nat /\ Period >= 1 /\ Warning \in Nat /\ Warning >= 1 /\ Warning <= Period
  BY IdleConstants

\* An activity or a change leaves the task in time.
LEMMA FreshLock ==
  ASSUME IdleTimes', IdleTask', JustNow'
  PROVE  IdleLock'
<1>1. IdleValues'
  BY IdleValuesHold
<1>2. TaskOK(now', last_activity_registered', changed', held', task')
  BY DEF IdleTask
<1>3. Since(now', last_activity_registered', changed', held', 0)
  BY DEF JustNow
<1>4. InTime(now', last_activity_registered', Timeout', changed', held', task')
  BY <1>1, <1>2, <1>3, FreshInTime DEF IdleValues
<1> QED BY <1>4 DEF IdleLock

\* A message or a button.
LEMMA ActivityStep ==
  ASSUME IdleInv, NEW is_ui \in BOOLEAN, idletimer_register_activity(is_ui)
  PROVE  IdleInv'
<1>1. /\ last_activity_registered' = now /\ held' = 0
      /\ UNCHANGED <<now, idle_timeout, min_timeout_override_secs, changed>>
  BY DEF idletimer_register_activity
<1>2. IdleTimes'
  BY <1>1 DEF IdleInv, IdleTimes
<1>3. PICK seen \in BOOLEAN :
        /\ seen => task.pc = "warn"
        /\ task' = [task EXCEPT !.acted = @ \/ seen,
                                !.unseen = task.pc \in {"clock", "act"}]
  BY Zenon DEF idletimer_register_activity
<1>4. TaskOK(now, last_activity_registered, changed, held, task)
  BY DEF IdleInv, IdleTask
<1>5. DOMAIN task = Fields
  BY <1>4 DEF TaskOK
<1>6. /\ DOMAIN task' = Fields
      /\ task'.pc = task.pc /\ task'.wake = task.wake /\ task'.check = task.check
      /\ task'.last = task.last /\ task'.timeout = task.timeout
      /\ task'.acted <=> task.acted \/ seen
      /\ task'.unseen <=> task.pc \in {"clock", "act"}
  BY <1>3, <1>5 DEF Fields
<1>7. now \in Nat /\ changed \in Nat /\ Warning \in Nat
  BY IdleConsts DEF IdleInv, IdleTimes
<1>8. TaskOK(now, now, changed, 0, task')
  BY <1>3, <1>4, <1>6, <1>7 DEF TaskOK, Since, HasChecked
<1>9. JustNow'
  BY <1>1, <1>7 DEF JustNow, Since
<1>10. IdleTask'
  BY <1>1, <1>8, <1>9 DEF IdleTask
<1>11. IdleLock'
  BY <1>2, <1>9, <1>10, FreshLock
<1> QED BY <1>2, <1>10, <1>11 DEF IdleInv

\* The setting, the minimum or the cable changes.
LEMMA ChangeStep ==
  ASSUME IdleInv, Change
  PROVE  IdleInv'
<1>1. changed' = now /\ held' = 0 /\ UNCHANGED <<now, last_activity_registered, task>>
  BY DEF Change
<1>2. idle_timeout' \in Timeouts \cup {NEVER} /\ min_timeout_override_secs' \in {0, Raised}
  BY DEF Change, IdleInv, IdleTimes
<1>3. IdleTimes'
  BY <1>1, <1>2 DEF IdleInv, IdleTimes
<1>4. now \in Nat /\ last_activity_registered \in Nat /\ Warning \in Nat
  BY IdleConsts DEF IdleInv, IdleTimes
<1>5. JustNow'
  BY <1>1, <1>4 DEF JustNow, Since
<1>6. TaskOK(now, last_activity_registered, now, 0, task)
  <2>1. TaskOK(now, last_activity_registered, changed, held, task)
    BY DEF IdleInv, IdleTask
  <2> QED BY <1>4, <2>1 DEF TaskOK, Since
<1>7. IdleTask'
  BY <1>1, <1>5, <1>6 DEF IdleTask
<1>8. IdleLock'
  BY <1>3, <1>5, <1>7, FreshLock
<1> QED BY <1>3, <1>7, <1>8 DEF IdleInv

\* Time that is counted as held, and time for which the task waits, keep what has passed since
\* the last activity or change.
LEMMA SinceStep ==
  ASSUME NEW n \in Nat, NEW l \in Nat, NEW c \in Nat, NEW h \in Nat, NEW s \in Nat,
         Since(n, l, c, h, s)
  PROVE  Since(n + 1, l, c, h + 1, s) /\ Since(n, l, c, h + 1, s)
  BY DEF Since

\* The clock: what is due while the task waits is not due yet, and the rest is held back.
LEMMA TimeStep ==
  ASSUME IdleInv, TimePasses
  PROVE  IdleInv'
<1> DEFINE last == last_activity_registered
<1>1. /\ now' = now + 1
      /\ held' = IF Waiting THEN held ELSE held + 1
      /\ UNCHANGED <<last_activity_registered, idle_timeout, min_timeout_override_secs,
                     keychain, usb_is_powered, task, changed>>
  BY DEF TimePasses
<1>2. IdleValues /\ IdleTimes
  BY IdleValuesHold DEF IdleInv
<1>3. IdleTimes'
  BY <1>1, <1>2 DEF IdleValues, IdleTimes
<1>4. TaskOK(now, last, changed, held, task)
  BY DEF IdleInv, IdleTask
<1>5. Warning \in Nat /\ Period \in Nat
  BY IdleConsts
<1>6. Timeout' = Timeout
  BY <1>1 DEF Timeout
<1>7. CASE Waiting
  <2>1. /\ task.pc \in {"sleep", "warn"} /\ task.wake > now /\ ~task.acted
        /\ held' = held
    BY <1>1, <1>7 DEF Waiting
  <2>2. task.wake \in Nat /\ now + 1 <= task.wake
    BY <1>2, <1>4, <2>1 DEF TaskOK, IdleValues
  <2>3. Since(task.wake, last, changed, held, Warning)
          => Since(now + 1, last, changed, held, Warning)
    BY <1>2, <1>5, <2>2 DEF Since, IdleValues
  <2>4. TaskOK(now + 1, last, changed, held, task)
    BY <1>2, <1>4, <1>5, <2>1, <2>2, <2>3 DEF TaskOK, IdleValues, Reading, HasChecked, HasTimedOut
  <2>5. IdleTask'
    BY <1>1, <2>1, <2>4 DEF IdleTask, UpToDate
  <2>6. ASSUME InTime(now, last, Timeout, changed, held, task)
        PROVE  InTime(now + 1, last, Timeout, changed, held, task)
    <3> SUFFICES ASSUME Locking(last, Timeout, changed, held)
                 PROVE  LET base == Base(last, Timeout, changed) + held IN
                        /\ task.pc = "sleep" => task.wake <= base + Warning
                        /\ task.pc = "warn" => task.wake <= base + 2 * Warning
                        /\ task.pc = "sleep" => now + 1 <= base + Warning
                        /\ task.pc = "warn" => now + 1 <= base + 2 * Warning
      BY <2>1, Zenon DEF InTime, Reading
    <3> DEFINE base == Base(last, Timeout, changed) + held
    <3>1. /\ task.pc = "sleep" => task.wake <= base + Warning
          /\ task.pc = "warn" => task.wake <= base + 2 * Warning
      BY <2>6, Zenon DEF InTime
    <3>2. base \in Nat
      <4>1. Base(last, Timeout, changed) \in Nat /\ held \in Nat
        BY <1>2, BaseFacts DEF IdleValues
      <4> QED BY <4>1
    <3> HIDE DEF base
    <3>3. /\ task.pc = "sleep" => now + 1 <= base + Warning
          /\ task.pc = "warn" => now + 1 <= base + 2 * Warning
      BY <1>2, <1>5, <2>2, <3>1, <3>2 DEF IdleValues
    <3> QED BY <3>1, <3>3 DEF base
  <2>7. InTime(now', last', Timeout', changed', held', task') <=> InTime(now + 1, last, Timeout, changed, held, task)
    BY <1>1, <1>6, <2>1, Zenon
  <2>8. IdleLock'
    BY <1>1, <2>6, <2>7 DEF IdleInv, IdleLock
  <2> QED BY <1>3, <2>5, <2>8 DEF IdleInv
<1>8. CASE ~Waiting
  <2>1. held' = held + 1
    BY <1>1, <1>8
  <2>2. \A s \in Nat : Since(now, last, changed, held, s)
                         => Since(now + 1, last, changed, held + 1, s)
    BY <1>2, SinceStep DEF IdleValues
  <2>3. Since(task.wake, last, changed, held, Warning)
          => Since(task.wake, last, changed, held + 1, Warning)
    BY <1>2, <1>4, <1>5, SinceStep DEF IdleValues, TaskOK
  <2>4. TaskOK(now + 1, last, changed, held + 1, task)
    BY <1>2, <1>4, <1>5, <2>2, <2>3 DEF TaskOK, IdleValues
  <2>5. JustNow => JustNow'
    BY <1>1, <2>1, <2>2 DEF JustNow
  <2>6. IdleTask'
    BY <1>1, <1>6, <2>1, <2>4, <2>5 DEF IdleInv, IdleTask, UpToDate
  <2>7. ASSUME InTime(now, last, Timeout, changed, held, task)
        PROVE  InTime(now + 1, last, Timeout, changed, held + 1, task)
    <3> DEFINE b == Base(last, Timeout, changed)
               sleep == SleepOf(task.last, task.timeout, task.check)
    <3> SUFFICES ASSUME Locking(last, Timeout, changed, held + 1)
                 PROVE  LET base == b + (held + 1) IN
                        /\ task.pc = "sleep" => task.wake <= base + Warning
                                                  /\ now + 1 <= base + Warning
                        /\ task.pc \in Reading => now + 1 <= base + Warning
                        /\ task.pc = "dim" => now + 1 + sleep <= base
                        /\ task.pc = "warn" => task.wake <= base + 2 * Warning
                                                 /\ now + 1 <= base + 2 * Warning
                        /\ task.pc = "act" => now + 1 <= base + 2 * Warning
      BY Zenon DEF InTime
    <3>1. b \in Nat /\ b >= last
      <4>1. b \in Nat /\ b >= last + Period
        BY <1>2, BaseFacts DEF IdleValues
      <4> HIDE DEF b
      <4> QED BY <1>2, <1>5, <4>1 DEF IdleValues
    <3>2. sleep \in Nat /\ task.wake \in Nat
      BY <1>4, SleepFacts DEF TaskOK
    <3>3. Locking(last, Timeout, changed, held)
      <4> DEFINE e == b + 2 * Warning + held + Period
                 f == b + 2 * Warning + (held + 1) + Period
      <4>1. Timeout # NEVER /\ SameEpoch(last, f)
        BY DEF Locking
      <4>2. e \in Nat /\ f \in Nat /\ last <= e /\ e <= f /\ last \in Nat /\ last <= last
        <5> HIDE DEF b
        <5> QED BY <1>2, <1>5, <3>1 DEF IdleValues
      <4>3. SameEpoch(last, e)
        <5> HIDE DEF e, f
        <5> QED BY <4>1, <4>2, EpochBetween
      <4> QED BY <4>1, <4>3 DEF Locking
    <3>4. /\ task.pc = "sleep" => task.wake <= b + held + Warning /\ now <= b + held + Warning
          /\ task.pc \in Reading => now <= b + held + Warning
          /\ task.pc = "dim" => now + sleep <= b + held
          /\ task.pc = "warn" => task.wake <= b + held + 2 * Warning
                                   /\ now <= b + held + 2 * Warning
          /\ task.pc = "act" => now <= b + held + 2 * Warning
      BY <2>7, <3>3, Zenon DEF InTime
    <3> HIDE DEF b, sleep
    <3> QED BY <1>2, <1>5, <3>1, <3>2, <3>4 DEF IdleValues
  <2>8. IdleLock'
    BY <1>1, <1>6, <2>1, <2>7 DEF IdleInv, IdleLock
  <2> QED BY <1>3, <2>6, <2>8 DEF IdleInv
<1> QED BY <1>7, <1>8

\* What the steps of the task leave alone.
TaskStep ==
  UNCHANGED <<now, last_activity_registered, idle_timeout, min_timeout_override_secs,
              keychain, usb_is_powered, changed, held>>

\* So much for a step of the task.
LEMMA TaskStepInv ==
  ASSUME IdleInv, TaskStep, TaskOK(now, last_activity_registered, changed, held, task'),
         keychain \/ ~usb_is_powered =>
           InTime(now, last_activity_registered, Timeout, changed, held, task'),
         UpToDate' \/ JustNow, task'.pc = "loaded" => usb_is_powered \/ JustNow
  PROVE  IdleInv'
<1>1. Timeout' = Timeout /\ (JustNow' <=> JustNow)
  BY DEF TaskStep, Timeout, JustNow
<1>2. IdleTimes'
  BY DEF TaskStep, IdleInv, IdleTimes
<1>3. IdleTask'
  BY <1>1 DEF TaskStep, IdleTask
<1>4. IdleLock'
  BY <1>1 DEF TaskStep, IdleLock
<1> QED BY <1>2, <1>3, <1>4 DEF IdleInv

\* What is known before a step of the task.
LEMMA BeforeStep ==
  ASSUME IdleInv
  PROVE  /\ IdleValues /\ TaskOK(now, last_activity_registered, changed, held, task)
         /\ DOMAIN task = Fields
         /\ UpToDate \/ JustNow
  BY IdleValuesHold DEF IdleInv, IdleTask, TaskOK

\* The task goes on reading, from one step to the next or when it wakes up.
LEMMA ReadingInTime ==
  ASSUME IdleInv, task.pc \in Reading \cup {"sleep"}, task'.pc \in Reading,
         keychain \/ ~usb_is_powered
  PROVE  InTime(now, last_activity_registered, Timeout, changed, held, task')
<1>1. InTime(now, last_activity_registered, Timeout, changed, held, task)
  BY DEF IdleInv, IdleLock
<1> QED BY <1>1, Zenon DEF InTime, Reading

\* The task wakes up and reads the setting.
LEMMA SettingStep ==
  ASSUME IdleInv, ReadSetting
  PROVE  IdleInv'
<1>1. TaskStep /\ task.pc = "sleep"
  BY DEF ReadSetting, others, TaskStep
<1>2. /\ DOMAIN task' = Fields
      /\ task'.pc = "minimum" /\ task'.wake = 0 /\ task'.timeout = idle_timeout
      /\ task'.check = task.check /\ task'.last = task.last /\ task'.acted = task.acted
  BY BeforeStep DEF ReadSetting, Fields
<1>3. idle_timeout \in Nat
  BY IdleConstants DEF IdleInv, IdleTimes
<1>4. TaskOK(now, last_activity_registered, changed, held, task')
  BY <1>1, <1>2, <1>3, BeforeStep DEF TaskOK, Reading, HasChecked, HasTimedOut
<1>5. UpToDate'
  BY <1>1, <1>2 DEF UpToDate, TaskStep
<1>6. task.pc \in Reading \cup {"sleep"} /\ task'.pc \in Reading /\ task'.pc # "loaded"
  BY <1>1, <1>2 DEF Reading
<1> QED BY <1>1, <1>4, <1>5, <1>6, ReadingInTime, TaskStepInv

\* Then the minimum.
LEMMA MinimumStep ==
  ASSUME IdleInv, ReadMinimum
  PROVE  IdleInv'
<1>1. TaskStep /\ task.pc = "minimum"
  BY DEF ReadMinimum, others, TaskStep
<1>2. /\ DOMAIN task' = Fields
      /\ task'.pc = "activity" /\ task'.wake = task.wake
      /\ task'.timeout = Max2(task.timeout, min_timeout_override_secs)
      /\ task'.check = task.check /\ task'.last = task.last /\ task'.acted = task.acted
  BY BeforeStep DEF ReadMinimum, Fields
<1>3. task'.timeout \in Nat
  <2>1. task.timeout \in Nat /\ min_timeout_override_secs \in Nat
    BY IdleConstants, BeforeStep DEF IdleInv, IdleTimes, TaskOK
  <2> QED BY <1>2, <2>1 DEF Max2
<1>4. TaskOK(now, last_activity_registered, changed, held, task')
  BY <1>1, <1>2, <1>3, BeforeStep DEF TaskOK, Reading, HasChecked, HasTimedOut
<1>5. UpToDate' \/ JustNow
  <2>1. Timeout' = Timeout
    BY <1>1 DEF TaskStep, Timeout
  <2> QED BY <1>1, <1>2, <2>1, BeforeStep DEF UpToDate, Timeout
<1>6. task.pc \in Reading \cup {"sleep"} /\ task'.pc \in Reading /\ task'.pc # "loaded"
  BY <1>1, <1>2 DEF Reading
<1> QED BY <1>1, <1>4, <1>5, <1>6, ReadingInTime, TaskStepInv

\* Then the time of the last activity.
LEMMA LastActivityStep ==
  ASSUME IdleInv, ReadActivity
  PROVE  IdleInv'
<1>1. TaskStep /\ task.pc = "activity"
  BY DEF ReadActivity, others, TaskStep
<1>2. /\ DOMAIN task' = Fields
      /\ task'.pc = "clock" /\ task'.wake = task.wake /\ task'.timeout = task.timeout
      /\ task'.check = task.check /\ task'.last = last_activity_registered
      /\ task'.acted = task.acted
  BY BeforeStep DEF ReadActivity, Fields
<1>3. TaskOK(now, last_activity_registered, changed, held, task')
  BY <1>1, <1>2, BeforeStep DEF TaskOK, IdleValues, Reading, HasChecked, HasTimedOut
<1>4. UpToDate' \/ JustNow
  <2>1. Timeout' = Timeout /\ last_activity_registered' = last_activity_registered
    BY <1>1 DEF TaskStep, Timeout
  <2> QED BY <1>1, <1>2, <2>1, BeforeStep DEF UpToDate
<1>5. task.pc \in Reading \cup {"sleep"} /\ task'.pc \in Reading /\ task'.pc # "loaded"
  BY <1>1, <1>2 DEF Reading
<1> QED BY <1>1, <1>3, <1>4, <1>5, ReadingInTime, TaskStepInv

\* Then the clock: what it has read of the activity is true, or there was one it has not seen.
LEMMA ClockStep ==
  ASSUME IdleInv, ReadClock
  PROVE  IdleInv'
<1>1. TaskStep /\ task.pc = "clock"
  BY DEF ReadClock, others, TaskStep
<1>2. /\ DOMAIN task' = Fields
      /\ task'.pc = "decide" /\ task'.wake = task.wake /\ task'.timeout = task.timeout
      /\ task'.check = now /\ task'.last = task.last /\ task'.acted = task.acted
      /\ task'.unseen = task.unseen
  BY BeforeStep DEF ReadClock, Fields
<1>3. now <= now + held /\ (now <= last_activity_registered => JustNow)
  BY BeforeStep DEF IdleValues, JustNow, Since
<1>4. TaskOK(now, last_activity_registered, changed, held, task')
  BY <1>1, <1>2, <1>3, BeforeStep DEF
    TaskOK, IdleValues, JustNow, Reading, HasChecked, HasTimedOut
<1>5. UpToDate' \/ JustNow
  <2>1. Timeout' = Timeout /\ last_activity_registered' = last_activity_registered
    BY <1>1 DEF TaskStep, Timeout
  <2> QED BY <1>1, <1>2, <2>1, BeforeStep DEF UpToDate
<1>6. task.pc \in Reading \cup {"sleep"} /\ task'.pc \in Reading /\ task'.pc # "loaded"
  BY <1>1, <1>2 DEF Reading
<1> QED BY <1>1, <1>4, <1>5, <1>6, ReadingInTime, TaskStepInv

\* The task decides on what it has read.
LEMMA DecideStep ==
  ASSUME IdleInv, Decide
  PROVE  IdleInv'
<1> DEFINE last == last_activity_registered
           timeout == Timeout
           base == Base(last, timeout, changed)
           Late == task.timeout # NEVER /\ Projected(task.last, task.timeout) <= Tick(task.check)
<1>1. TaskStep /\ task.pc = "decide" /\ task.pc \in Reading
  BY DEF Decide, others, TaskStep, Reading
<1>2. IdleValues /\ TaskOK(now, last, changed, held, task) /\ DOMAIN task = Fields
  BY BeforeStep
<1>3. JustNow \/ (task.last = last /\ task.timeout = timeout)
  BY <1>1, BeforeStep DEF UpToDate
<1>4. base \in Nat /\ Period \in Nat /\ Warning \in Nat /\ Warning <= Period
  BY <1>2, BaseFacts DEF IdleValues
<1>5. Late <=> TimedOut
  BY Zenon DEF TimedOut, projected_timeout_time, Projected
<1> HIDE DEF Late
<1>6. ASSUME task' = [task EXCEPT !.pc = "dim"], ~Late
      PROVE  IdleInv'
  <2>1. /\ DOMAIN task' = Fields
        /\ task'.pc = "dim" /\ task'.wake = task.wake /\ task'.check = task.check
        /\ task'.last = task.last /\ task'.timeout = task.timeout
        /\ task'.acted = task.acted /\ task'.unseen = task.unseen
    BY <1>2, <1>6 DEF Fields
  <2>2. TaskOK(now, last, changed, held, task')
    BY <1>1, <1>2, <2>1 DEF TaskOK, HasChecked, HasTimedOut, Reading
  <2>3. ASSUME keychain \/ ~usb_is_powered
        PROVE  InTime(now, last, timeout, changed, held, task')
    <3>1. CASE JustNow
      BY <1>2, <2>2, <3>1, FreshInTime DEF IdleValues, JustNow
    <3>2. CASE ~JustNow
      <4> DEFINE s == SleepOf(last, timeout, task.check)
      <4> SUFFICES ASSUME Locking(last, timeout, changed, held)
                   PROVE  now + s <= base + held
        BY <1>3, <2>1, <3>2 DEF InTime, Reading
      <4>1. now <= base + held + Warning
        BY <1>1, <2>3 DEF IdleInv, IdleLock, InTime
      <4>2. ~(Projected(last, timeout) <= Tick(task.check))
        BY <1>3, <1>6, <3>2 DEF Late, Locking
      <4>3. /\ task.check \in Nat /\ task.check <= now /\ now <= task.check + held
            /\ last <= task.check
        BY <1>1, <1>2, <1>3, <3>2 DEF TaskOK, JustNow, HasChecked
      <4>4. task.check <= base + held + Warning
        <5> HIDE DEF base
        <5> QED BY <1>2, <1>4, <4>1, <4>3 DEF IdleValues
      <4>5. task.check + s <= base
        BY <1>2, <4>2, <4>3, <4>4, SleepsInTime DEF IdleValues
      <4>6. s \in Nat
        BY <1>2, <4>3, SleepFacts DEF IdleValues
      <4> HIDE DEF base, s
      <4> QED BY <1>2, <1>4, <4>3, <4>5, <4>6 DEF IdleValues
    <3> QED BY <3>1, <3>2
  <2>4. UpToDate' /\ task'.pc # "loaded"
    BY <2>1 DEF UpToDate
  <2> QED BY <1>1, <2>2, <2>3, <2>4, TaskStepInv
<1>7. ASSUME Late, NEW step \in {"loaded", "show"}, task'.pc = step, DOMAIN task' = Fields,
             task'.wake = task.wake, task'.check = task.check, task'.last = task.last,
             task'.timeout = task.timeout, task'.acted = task.acted,
             task'.unseen = task.unseen, step = "loaded" => usb_is_powered
      PROVE  IdleInv'
  <2>1. TaskOK(now, last, changed, held, task')
    BY <1>1, <1>2, <1>7 DEF TaskOK, HasChecked, HasTimedOut, Reading, Late
  <2>2. task.pc \in Reading \cup {"sleep"} /\ task'.pc \in Reading
    BY <1>1, <1>7 DEF Reading
  <2>3. UpToDate'
    BY <1>7 DEF UpToDate
  <2> QED BY <1>1, <1>7, <2>1, <2>2, <2>3, ReadingInTime, TaskStepInv
<1>8. CASE ~TimedOut
  BY <1>5, <1>6, <1>8 DEF Decide
<1>9. CASE TimedOut /\ usb_is_powered
  <2>1. task' = [task EXCEPT !.pc = "loaded"]
    BY <1>9 DEF Decide
  <2> QED BY <1>2, <1>5, <1>7, <1>9, <2>1 DEF Fields
<1>10. CASE TimedOut /\ ~usb_is_powered
  <2>1. task' = [task EXCEPT !.pc = "show", !.action = "POWER_OFF"]
    BY <1>10 DEF Decide
  <2> QED BY <1>2, <1>5, <1>7, <1>10, <2>1 DEF Fields
<1> QED BY <1>8, <1>9, <1>10

\* Without a wallet, and with the cable, there is nothing to do in time.
LEMMA LoadedStep ==
  ASSUME IdleInv, KeychainLoaded
  PROVE  IdleInv'
<1> DEFINE last == last_activity_registered
<1>1. TaskStep /\ task.pc = "loaded" /\ task.pc \in Reading
  BY DEF KeychainLoaded, others, TaskStep, Reading
<1>2. IdleValues /\ TaskOK(now, last, changed, held, task) /\ DOMAIN task = Fields
  BY BeforeStep
<1>3. usb_is_powered \/ JustNow
  BY <1>1 DEF IdleInv, IdleTask
<1>4. CASE keychain
  <2>1. task' = [task EXCEPT !.pc = "show", !.action = "REBOOT"]
    BY <1>4 DEF KeychainLoaded
  <2>2. /\ DOMAIN task' = Fields
        /\ task'.pc = "show" /\ task'.wake = task.wake /\ task'.check = task.check
        /\ task'.last = task.last /\ task'.timeout = task.timeout
        /\ task'.acted = task.acted /\ task'.unseen = task.unseen
    BY <1>2, <2>1 DEF Fields
  <2>3. TaskOK(now, last, changed, held, task')
    BY <1>1, <1>2, <2>2 DEF TaskOK, HasChecked, HasTimedOut, Reading
  <2>4. task.pc \in Reading \cup {"sleep"} /\ task'.pc \in Reading
    BY <1>1, <2>2 DEF Reading
  <2>5. UpToDate' /\ task'.pc # "loaded"
    BY <2>2 DEF UpToDate
  <2> QED BY <1>1, <2>3, <2>4, <2>5, ReadingInTime, TaskStepInv
<1>5. CASE ~keychain
  <2>1. task' = [task EXCEPT !.pc = "dim"]
    BY <1>5 DEF KeychainLoaded
  <2>2. /\ DOMAIN task' = Fields
        /\ task'.pc = "dim" /\ task'.wake = task.wake /\ task'.check = task.check
        /\ task'.last = task.last /\ task'.timeout = task.timeout
        /\ task'.acted = task.acted /\ task'.unseen = task.unseen
    BY <1>2, <2>1 DEF Fields
  <2>3. TaskOK(now, last, changed, held, task')
    BY <1>1, <1>2, <2>2 DEF TaskOK, HasChecked, HasTimedOut, Reading
  <2>4. ASSUME keychain \/ ~usb_is_powered
        PROVE  InTime(now, last, Timeout, changed, held, task')
    <3>1. Since(now, last, changed, held, 0)
      BY <1>3, <1>5, <2>4 DEF JustNow
    <3> QED BY <1>2, <2>3, <3>1, FreshInTime DEF IdleValues
  <2>5. UpToDate' /\ task'.pc # "loaded"
    BY <2>2 DEF UpToDate
  <2> QED BY <1>1, <2>3, <2>4, <2>5, TaskStepInv
<1> QED BY <1>4, <1>5

\* The wait for a button begins.
LEMMA ScreenStep ==
  ASSUME IdleInv, show_timeout_warning_screen
  PROVE  IdleInv'
<1> DEFINE last == last_activity_registered
           base == Base(last, Timeout, changed)
<1>1. TaskStep /\ task.pc = "show" /\ task' = [task EXCEPT !.pc = "warn", !.wake = now + Warning]
  BY DEF show_timeout_warning_screen, others, TaskStep
<1>2. IdleValues /\ TaskOK(now, last, changed, held, task) /\ DOMAIN task = Fields
  BY BeforeStep
<1>3. base \in Nat /\ Warning \in Nat
  BY <1>2, BaseFacts DEF IdleValues
<1>4. /\ DOMAIN task' = Fields
      /\ task'.pc = "warn" /\ task'.wake = now + Warning /\ task'.check = task.check
      /\ task'.last = task.last /\ task'.timeout = task.timeout
      /\ task'.acted = task.acted /\ task'.unseen = task.unseen
  BY <1>1, <1>2 DEF Fields
<1>5. task.check <= last =>
        Since(now, last, changed, held, Warning) /\ Since(now + Warning, last, changed, held, Warning)
  <2>1. task.check <= last => Since(now, last, changed, held, 0)
    BY <1>1, <1>2 DEF TaskOK
  <2> QED BY <1>2, <1>3, <2>1 DEF Since, IdleValues
<1>6. ~task.acted
  BY <1>1, <1>2 DEF TaskOK
<1>7. TaskOK(now, last, changed, held, task')
  BY <1>1, <1>2, <1>3, <1>4, <1>5, <1>6 DEF TaskOK, IdleValues, HasChecked, HasTimedOut, Reading
<1>8. ASSUME keychain \/ ~usb_is_powered
      PROVE  InTime(now, last, Timeout, changed, held, task')
  <2> SUFFICES ASSUME Locking(last, Timeout, changed, held)
               PROVE  /\ now + Warning <= base + held + 2 * Warning
                      /\ now <= base + held + 2 * Warning
    BY <1>4 DEF InTime, Reading
  <2>1. now <= base + held + Warning
    BY <1>1, <1>8 DEF IdleInv, IdleLock, InTime, Reading
  <2> HIDE DEF base
  <2> QED BY <1>2, <1>3, <2>1 DEF IdleValues
<1>9. UpToDate' /\ task'.pc # "loaded"
  BY <1>4 DEF UpToDate
<1> QED BY <1>1, <1>7, <1>8, <1>9, TaskStepInv

\* The fields of the task that goes to sleep.
LEMMA AsleepFields ==
  ASSUME NEW until
  PROVE  LET k == Asleep(until) IN
         /\ DOMAIN k = Fields
         /\ k.pc = "sleep" /\ k.wake = until /\ k.check = 0 /\ k.last = 0 /\ k.timeout = 0
         /\ ~k.acted
  BY DEF Asleep, Fields

\* The task goes to sleep for the given time, and will not be late.
LEMMA SleepStep ==
  ASSUME IdleInv, TaskStep, NEW s \in Nat, s <= Period,
         task' = Asleep(now + s),
         (keychain \/ ~usb_is_powered) /\ Locking(last_activity_registered, Timeout, changed, held)
           => now + s <= Base(last_activity_registered, Timeout, changed) + held + Warning
  PROVE  IdleInv'
<1>1. IdleValues
  BY BeforeStep
<1> DEFINE u == now + s
           last == last_activity_registered
           base == Base(last, Timeout, changed)
<1>2. u \in Nat /\ now <= u /\ u <= now + Period /\ Period \in Nat
  BY <1>1, IdleConsts DEF IdleValues
<1>3. /\ DOMAIN task' = Fields
      /\ task'.pc = "sleep" /\ task'.wake = u /\ task'.check = 0 /\ task'.last = 0
      /\ task'.timeout = 0 /\ ~task'.acted
  <2> HIDE DEF u
  <2>1. task' = Asleep(u)
    BY DEF u
  <2> QED BY <2>1, AsleepFields
<1>4. TaskOK(now, last, changed, held, task')
  <2> HIDE DEF u
  <2> QED BY <1>1, <1>2, <1>3 DEF TaskOK, IdleValues, HasChecked, HasTimedOut, Reading
<1>5. ASSUME keychain \/ ~usb_is_powered
      PROVE  InTime(now, last, Timeout, changed, held, task')
  <2> SUFFICES ASSUME Locking(last, Timeout, changed, held)
               PROVE  u <= base + held + Warning /\ now <= base + held + Warning
    BY <1>3 DEF InTime, Reading
  <2>1. u <= base + held + Warning
    BY <1>5
  <2>2. base \in Nat /\ Warning \in Nat
    BY <1>1, BaseFacts DEF IdleValues
  <2> HIDE DEF base, u
  <2> QED BY <1>1, <1>2, <2>1, <2>2 DEF IdleValues
<1>6. UpToDate' /\ task'.pc # "loaded"
  BY <1>3 DEF UpToDate
<1> QED BY <1>4, <1>5, <1>6, TaskStepInv

\* The warning ends.
LEMMA LookStep ==
  ASSUME IdleInv, LookAgain
  PROVE  IdleInv'
<1> DEFINE last == last_activity_registered
           timeout == Timeout
           base == Base(last, timeout, changed)
           Kept == task.acted \/ Tick(last) > Tick(task.check)
<1>1. TaskStep /\ task.pc = "warn"
  BY DEF LookAgain, others, TaskStep
<1>2. IdleValues /\ TaskOK(now, last, changed, held, task) /\ DOMAIN task = Fields
  BY BeforeStep
<1>3. /\ task.check \in Nat /\ task.check <= now
      /\ task.acted \/ task.check <= last => Since(now, last, changed, held, Warning)
  BY <1>1, <1>2 DEF TaskOK
<1>4. base \in Nat /\ Period \in Nat /\ Warning \in Nat /\ Warning <= Period
  BY <1>2, BaseFacts DEF IdleValues
<1>5. ASSUME keychain \/ ~usb_is_powered, Locking(last, timeout, changed, held)
      PROVE  now <= base + held + 2 * Warning
  BY <1>1, <1>5 DEF IdleInv, IdleLock, InTime, Reading
<1>6. ASSUME Kept, task' = Asleep(now + Period)
      PROVE  IdleInv'
  <2>1. ASSUME keychain \/ ~usb_is_powered, Locking(last, timeout, changed, held)
        PROVE  now + Period <= base + held + Warning
    <3>1. Since(now, last, changed, held, Warning) \/ Tick(last) > Tick(task.check)
      BY <1>3, <1>6
    <3>2. now <= base + held + 2 * Warning
      BY <1>5, <2>1
    <3> QED BY <1>2, <1>3, <2>1, <3>1, <3>2, WarnedInTime DEF IdleValues
  <2>2. Period \in Nat /\ Period <= Period
    BY <1>4
  <2> QED BY <1>1, <1>6, <2>1, <2>2, SleepStep
<1>7. ASSUME ~Kept, task' = [task EXCEPT !.pc = "act", !.wake = 0]
      PROVE  IdleInv'
  <2>1. /\ DOMAIN task' = Fields
        /\ task'.pc = "act" /\ task'.wake = 0 /\ task'.check = task.check
        /\ task'.last = task.last /\ task'.timeout = task.timeout
        /\ task'.acted = task.acted /\ task'.unseen = task.unseen
    BY <1>2, <1>7 DEF Fields
  <2>2. Tick(last) <= Tick(task.check)
    <3>1. Tick(last) \in Nat /\ Tick(task.check) \in Nat
      BY <1>2, <1>3, TickFacts DEF IdleValues
    <3> QED BY <1>7, <3>1
  <2>3. TaskOK(now, last, changed, held, task')
    BY <1>1, <1>2, <1>7, <2>1, <2>2 DEF TaskOK, HasChecked, HasTimedOut, Reading
  <2>4. ASSUME keychain \/ ~usb_is_powered
        PROVE  InTime(now, last, timeout, changed, held, task')
    <3> SUFFICES ASSUME Locking(last, timeout, changed, held)
                 PROVE  now <= base + held + 2 * Warning
      BY <2>1 DEF InTime, Reading
    <3> QED BY <1>5, <2>4
  <2>5. UpToDate' /\ task'.pc # "loaded"
    BY <2>1 DEF UpToDate
  <2> QED BY <1>1, <2>3, <2>4, <2>5, TaskStepInv
<1> QED BY <1>6, <1>7, Zenon DEF LookAgain

\* The task goes to sleep after a check.
LEMMA DimStep ==
  ASSUME IdleInv, Dim
  PROVE  IdleInv'
<1> DEFINE s == SleepOf(task.last, task.timeout, task.check)
           base == Base(last_activity_registered, Timeout, changed)
<1>1. TaskStep /\ task.pc = "dim"
  BY DEF Dim, others, TaskStep
<1>2. task' = Asleep(now + s)
  BY Zenon DEF Dim, SleepTime, projected_timeout_time, SleepOf, Projected
<1>3. s \in Nat /\ s <= Period
  BY SleepFacts DEF IdleInv, IdleTask, TaskOK
<1>4. ASSUME keychain \/ ~usb_is_powered,
             Locking(last_activity_registered, Timeout, changed, held)
      PROVE  now + s <= base + held + Warning
  <2>1. now + s <= base + held
    BY <1>1, <1>4 DEF IdleInv, IdleLock, InTime, Reading
  <2>2. base \in Nat /\ Warning \in Nat /\ now \in Nat /\ held \in Nat
    <3>1. IdleValues
      BY IdleValuesHold DEF IdleInv
    <3> QED BY <3>1, BaseFacts DEF IdleValues
  <2> HIDE DEF base, s
  <2> QED BY <1>3, <2>1, <2>2
<1> HIDE DEF s
<1> QED BY <1>1, <1>2, <1>3, <1>4, SleepStep

\* The start of the device.
LEMMA BootTask ==
  /\ TaskOK(0, 0, 0, 0, Asleep(0))
  /\ Asleep(0).pc = "sleep"
<1> DEFINE k == Asleep(0)
<1>1. /\ DOMAIN k = Fields
      /\ k.pc = "sleep" /\ k.wake = 0 /\ k.check = 0 /\ k.last = 0 /\ k.timeout = 0 /\ ~k.acted
  BY AsleepFields
<1> HIDE DEF k
<1>2. TaskOK(0, 0, 0, 0, k)
  BY <1>1, IdleConsts DEF TaskOK, HasChecked, HasTimedOut, Reading
<1> QED BY <1>1, <1>2 DEF k

\* The device restarts, or is switched off and on.
LEMMA RestartStep ==
  ASSUME IdleInv, Restart
  PROVE  IdleInv'
<1>1. PICK state \in {"NORMAL", "IDLE"} : Boot(state)
  BY DEF Restart
<1>2. /\ now' = 0 /\ last_activity_registered' = 0 /\ min_timeout_override_secs' = 0
      /\ changed' = 0 /\ held' = 0 /\ idle_timeout' = idle_timeout /\ task' = Asleep(0)
  BY <1>1 DEF Boot
<1>3. IdleTimes'
  BY <1>2 DEF IdleInv, IdleTimes
<1>4. JustNow'
  BY <1>2 DEF JustNow, Since
<1>5. IdleTask'
  <2>1. task'.pc = "sleep" /\ TaskOK(0, 0, 0, 0, task')
    BY <1>2, BootTask
  <2> QED BY <1>2, <1>4, <2>1 DEF IdleTask
<1>6. IdleLock'
  BY <1>3, <1>4, <1>5, FreshLock
<1> QED BY <1>3, <1>5, <1>6 DEF IdleInv

\* And for the first time.
LEMMA IdleInitial ==
  ASSUME IdleInit
  PROVE  IdleInv
<1>1. /\ now = 0 /\ last_activity_registered = 0 /\ min_timeout_override_secs = 0
      /\ changed = 0 /\ held = 0 /\ idle_timeout \in Timeouts /\ task = Asleep(0)
  BY DEF IdleInit
<1>2. IdleTimes
  BY <1>1 DEF IdleTimes
<1>3. Since(0, 0, 0, 0, 0)
  BY DEF Since
<1>4. IdleTask
  <2>1. task.pc = "sleep" /\ TaskOK(0, 0, 0, 0, task)
    BY <1>1, BootTask
  <2> QED BY <1>1, <1>3, <2>1 DEF IdleTask, JustNow
<1>5. IdleLock
  <2>1. IdleValues
    BY <1>2, IdleValuesHold
  <2>2. TaskOK(now, last_activity_registered, changed, held, task)
    BY <1>4 DEF IdleTask
  <2>3. InTime(now, last_activity_registered, Timeout, changed, held, task)
    BY <1>1, <1>3, <2>1, <2>2, FreshInTime DEF IdleValues
  <2> QED BY <2>3 DEF IdleLock
<1> QED BY <1>2, <1>4, <1>5 DEF IdleInv

\* Every step keeps the invariant.
LEMMA IdleStep ==
  ASSUME IdleInv, [IdleNext]_idle_vars
  PROVE  IdleInv'
<1>1. CASE UNCHANGED idle_vars
  BY <1>1 DEF
    idle_vars, Timeout, IdleInv, IdleTimes, IdleTask, IdleLock, UpToDate, JustNow
<1> QED
  BY <1>1, ActivityStep, ChangeStep, TimeStep, SettingStep, MinimumStep, LastActivityStep,
     ClockStep, DecideStep, LoadedStep, ScreenStep, LookStep, RestartStep, DimStep
  DEF IdleNext

\* A task in time at every step is in time.
LEMMA IdleSafe ==
  ASSUME IdleInv
  PROVE  LocksInTime
<1> DEFINE last == last_activity_registered
           base == Base(last, Timeout, changed)
           s == SleepOf(task.last, task.timeout, task.check)
<1>1. IdleValues /\ TaskOK(now, last, changed, held, task)
  BY BeforeStep
<1>2. Deadline = base + 2 * Warning + held
  BY Zenon DEF Deadline, Base
<1> SUFFICES ASSUME keychain \/ ~usb_is_powered, Timeout # NEVER,
                    SameEpoch(last, base + 2 * Warning + held + Period)
             PROVE  now <= base + 2 * Warning + held
  BY <1>2, Zenon DEF LocksInTime
<1>3. Locking(last, Timeout, changed, held)
  BY Zenon DEF Locking
<1>4. InTime(now, last, Timeout, changed, held, task)
  BY DEF IdleInv, IdleLock
<1>5. /\ task.pc \in {"sleep"} \cup Reading => now <= base + held + Warning
      /\ task.pc = "dim" => now + s <= base + held
      /\ task.pc \in {"warn", "act"} => now <= base + held + 2 * Warning
  BY <1>3, <1>4, Zenon DEF InTime
<1>6. s \in Nat /\ task.pc \in {"sleep", "warn", "act", "dim"} \cup Reading
  BY <1>1, SleepFacts DEF TaskOK
<1>7. base \in Nat /\ Warning \in Nat /\ now \in Nat /\ held \in Nat
  BY <1>1, BaseFacts DEF IdleValues
<1> HIDE DEF base, s
<1> QED BY <1>5, <1>6, <1>7

(* A device that holds a wallet or runs on its battery restarts at the latest two warnings after
   the time-out, or after the period in which idletimer_task notices a change, and as much later
   as other tasks kept it from running since then, however long that is; for any time-outs,
   periods and width of the clock; unless the clock wraps about then. *)
THEOREM DeviceLocksInTime == IdleSpec => []LocksInTime
<1>1. IdleInit => IdleInv
  BY IdleInitial
<1>2. IdleInv /\ [IdleNext]_idle_vars => IdleInv'
  BY IdleStep
<1>3. IdleInv => LocksInTime
  BY IdleSafe
<1> QED BY <1>1, <1>2, <1>3, PTL DEF IdleSpec

(* idletimer_task restarts the device only when there was no activity for the time-out of its
   last check, nor from the check to the second look; the exceptions are an activity between
   its readings of the last activity and of the clock or in the tick of the latter, one after
   the second look, and a clock that wraps. *)
THEOREM DeviceRestartsOnlyWhenIdle == IdleSpec => RestartsOnlyWhenIdle
<1> DEFINE RestartsIdle ==
      Restart =>
        LET last == last_activity_registered IN
        \/ last + task.timeout <= task.check
        \/ task.unseen \/ last = task.check
        \/ ~SameEpoch(last, last + task.timeout) \/ ~SameEpoch(task.check, last)
<1>1. IdleInit => IdleInv
  BY IdleInitial
<1>2. IdleInv /\ [IdleNext]_idle_vars => IdleInv'
  BY IdleStep
<1>3. IdleInv => RestartsIdle
  <2> SUFFICES ASSUME IdleInv, Restart
               PROVE  LET last == last_activity_registered IN
                      \/ last + task.timeout <= task.check
                      \/ task.unseen \/ last = task.check
                      \/ ~SameEpoch(last, last + task.timeout) \/ ~SameEpoch(task.check, last)
    OBVIOUS
  <2>1. task.pc = "act"
    BY DEF Restart
  <2>2. IdleValues /\ TaskOK(now, last_activity_registered, changed, held, task)
    BY BeforeStep
  <2> QED BY <2>1, <2>2, IdleWhenActing DEF IdleValues
<1>4. IdleInv /\ [IdleNext]_idle_vars => [RestartsIdle]_idle_vars
  BY <1>3
<1> QED BY <1>1, <1>2, <1>4, PTL DEF IdleSpec, RestartsOnlyWhenIdle

=============================================================================
