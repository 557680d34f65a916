------------------------------ MODULE Keychain ------------------------------
(***************************************************************************)
(* The wallet held by a Jade unit: the encrypted copy in flash (storage.c),*)
(* the decrypted copy in RAM (keychain.c), and the operations of           *)
(* auth_user.c, mnemonic.c and dashboard.c that move it from one to the    *)
(* other.                                                                  *)
(*                                                                         *)
(* Every commit of the NVS flash is a step of its own, so that power can   *)
(* be lost (Reboot) between any two of them.  A commit is atomic (NVS      *)
(* promises that) but may fail, which the code reports by returning false. *)
(*                                                                         *)
(* Keys are abstract: a wallet is the pair (mnemonic, passphrase) it is    *)
(* derived from, and a blob opens only under the AES key that sealed it.   *)
(***************************************************************************)
EXTENDS Naturals

CONSTANTS
  Mnemonics,        \* recovery phrases the user may enter or create
  Passphrases,      \* BIP39 passphrases
  EmptyPassphrase,  \* the default one
  AesKeys,          \* keys a PIN and the pinserver may yield
  Sources,          \* message sources: SOURCE_SERIAL, SOURCE_BLE, ...
  SOURCE_INTERNAL,  \* the source of QR mode
  SOURCE_NONE,      \* no source
  None,             \* absent wallet, entropy, blob or call
  MaxFaults         \* bound on the number of flash commits that fail

ASSUME EmptyAssumption == EmptyPassphrase \in Passphrases
ASSUME SourceAssumption == SOURCE_INTERNAL \in Sources /\ SOURCE_NONE \notin Sources
ASSUME FaultAssumption == MaxFaults \in Nat

VARIABLES
  \* flash
  fCounter,   \* PIN_COUNTER_FIELD: attempts left; an absent counter reads 0
  fBlob,      \* BLOB_FIELD: the encrypted wallet, or None
  fNet,       \* NETWORK_TYPE_FIELD
  fFlags,     \* KEY_FLAGS_FIELD
  \* RAM (the static variables of keychain.c)
  keychain_data, network_type_restriction, has_encrypted_blob,
  keychain_userdata, keychain_temporary, mnemonic_entropy, key_flags,
  \* the call the main task is in: its next step, and its arguments and locals
  pc, call,
  \* environment and history
  faults,     \* flash commits that have failed
  begun,      \* unlock attempts begun since the counter was last restored
  strikes     \* wrong keys tried on fBlob since it was written or last opened

flashVars == <<fCounter, fBlob, fNet, fFlags>>
ramVars == <<keychain_data, network_type_restriction, has_encrypted_blob,
             keychain_userdata, keychain_temporary, mnemonic_entropy, key_flags>>
keyVars == <<keychain_data, keychain_userdata, keychain_temporary,
             mnemonic_entropy, key_flags>>
ctlVars == <<pc, call>>
histVars == <<begun, strikes>>
vars == <<flashVars, ramVars, ctlVars, faults, histVars>>

-----------------------------------------------------------------------------
(* Data *)

MaxAttempts == 3    \* storage_restore_counter
MaxStrikes == 4     \* where the history variable strikes saturates

NetworkTypes == {"MAIN", "TEST"}
Restrictions == NetworkTypes \cup {"NONE"}
Wallets == [mnemonic : Mnemonics, passphrase : Passphrases]

\* What keychain_store serialises: the mnemonic entropy, or the derived keys.
\* (An entropy payload carries no passphrase; the field is then the empty one.)
Payloads == [kind : {"entropy", "keys"}, mnemonic : Mnemonics, passphrase : Passphrases]
Blobs == [aes : AesKeys, payload : Payloads]

\* The bits of key_flags: auto-default-passphrase, user-to-enter-passphrase and
\* confirm-export-blinding-key.
KeyFlags == SUBSET {"auto", "user", "confirm"}

Frequencies == {"NEVER", "ONCE", "ALWAYS"}

Steps == {"idle", "decrement", "decrypt", "restore", "passphrase", "unlocked",
          "save_counter", "save_blob", "clear_net", "set_net",
          "erase_counter", "erase_blob", "erase_net", "erase_flags"}

\* fn: the keychain call, if any; aes, new: the current and the new key; src, net:
\* source and network type of the auth_user message; pin: whether the PIN entered
\* is the wallet-erase PIN; then: what follows the erasure; payload: 'serialized'.
Calls == [fn : {"none", "load", "reencrypt", "store", "menu"},
          aes : AesKeys \cup {None}, new : AesKeys \cup {None},
          src : Sources \cup {SOURCE_NONE}, net : Restrictions, pin : {"wallet", "erase"},
          then : {"return", "forget", "wipe", "pin"}, payload : Payloads \cup {None}]

NewCall(fn, aes, new, source, net, pin, payload) ==
  [fn |-> fn, aes |-> aes, new |-> new, src |-> source, net |-> net, pin |-> pin,
   then |-> "return", payload |-> payload]
NoCall == NewCall("none", None, None, SOURCE_NONE, "NONE", "wallet", None)

ASSUME NoneAssumption ==
  /\ None \notin Mnemonics /\ None \notin AesKeys /\ None \notin Wallets
  /\ None \notin Payloads /\ None \notin Blobs

TypeOK ==
  /\ fCounter \in 0..MaxAttempts
  /\ fBlob \in Blobs \cup {None}
  /\ fNet \in Restrictions
  /\ fFlags \in KeyFlags
  /\ keychain_data \in Wallets \cup {None}
  /\ network_type_restriction \in Restrictions
  /\ has_encrypted_blob \in BOOLEAN
  /\ keychain_userdata \in Sources \cup {SOURCE_NONE}
  /\ keychain_temporary \in BOOLEAN
  /\ mnemonic_entropy \in Mnemonics \cup {None}
  /\ key_flags \in KeyFlags
  /\ pc \in Steps
  /\ call \in Calls
  /\ faults \in 0..MaxFaults
  /\ begun \in 0..MaxAttempts
  /\ strikes \in 0..MaxStrikes

Init ==
  /\ fCounter = 0 /\ fBlob = None /\ fNet = "NONE" /\ fFlags = {}
  /\ keychain_data = None /\ network_type_restriction = "NONE"
  /\ has_encrypted_blob = FALSE /\ keychain_userdata = SOURCE_NONE
  /\ keychain_temporary = FALSE /\ mnemonic_entropy = None /\ key_flags = {}
  /\ pc = "idle" /\ call = NoCall
  /\ faults = 0 /\ begun = 0 /\ strikes = 0

-----------------------------------------------------------------------------
(* Building blocks: one flash commit, and the RAM-only functions of keychain.c *)

\* A commit takes effect (ok) or fails and leaves the flash as it was.
Commit(ok) ==
  /\ ok \/ faults < MaxFaults
  /\ faults' = IF ok THEN faults ELSE faults + 1

\* Mutant: the cached entropy is not wiped.
Mutant_keychain_set(keys, source, temporary) ==
  /\ keychain_data' = keys
  /\ key_flags' = fFlags
  /\ keychain_userdata' = source
  /\ keychain_temporary' = temporary
  /\ UNCHANGED mnemonic_entropy

keychain_set(keys, source, temporary) ==
  /\ keychain_data' = keys
  /\ mnemonic_entropy' = None
  /\ key_flags' = fFlags
  /\ keychain_userdata' = source
  /\ keychain_temporary' = temporary

keychain_clear == keychain_set(None, SOURCE_NONE, FALSE)

keychain_requires_passphrase == keychain_data = None /\ mnemonic_entropy # None

keychain_get_passphrase_freq ==
  IF "user" \notin key_flags THEN "NEVER"
  ELSE IF "auto" \in key_flags THEN "ONCE" ELSE "ALWAYS"

keychain_set_passphrase_frequency(flags, freq) ==
  (flags \ {"auto", "user"})
    \cup (IF freq = "ALWAYS" THEN {} ELSE {"auto"})
    \cup (IF freq = "NEVER" THEN {} ELSE {"user"})

\* 'Once' is kept in RAM only: flash gets 'never'.
keychain_persist_key_flags(flags) ==
  IF {"auto", "user"} \subseteq flags THEN flags \ {"user"} ELSE flags

keychain_is_network_type_consistent(net) ==
  network_type_restriction = "NONE" \/ net = network_type_restriction

\* The wallet that a payload yields, given the passphrase in use.
Derived(payload, passphrase) ==
  [mnemonic |-> payload.mnemonic,
   passphrase |-> IF payload.kind = "entropy" THEN passphrase ELSE payload.passphrase]

\* The passphrases get_passphrase may return: it asks the user only if set to.
PassphraseChoices ==
  IF keychain_get_passphrase_freq = "NEVER" THEN {EmptyPassphrase} ELSE Passphrases

\* 'temporary' is keychain_has_temporary() at the time of the call.
keychain_clear_network_type_restriction(ok, temporary) ==
  /\ Commit(ok) /\ (temporary => ok)
  /\ fNet' = IF ok /\ ~temporary THEN "NONE" ELSE fNet
  /\ network_type_restriction' = "NONE"

\* Mutant: the restriction is saved, and the copy in RAM is not set with it.
Mutant_set_network(ok, net) ==
  LET persist == network_type_restriction = "NONE" /\ has_encrypted_blob /\ ~keychain_temporary IN
  /\ Commit(ok) /\ (~persist => ok)
  /\ fNet' = IF ok /\ persist THEN net ELSE fNet
  /\ UNCHANGED network_type_restriction

\* Acts on the state before the step: the keys and the has-pin flag are settled.
keychain_set_network_type_restriction(ok, net) ==
  LET free == network_type_restriction = "NONE"
      persist == free /\ has_encrypted_blob /\ ~keychain_temporary
  IN
  /\ Commit(ok) /\ (~persist => ok)
  /\ fNet' = IF ok /\ persist THEN net ELSE fNet
  /\ network_type_restriction' =
       IF free /\ keychain_data # None THEN net ELSE network_type_restriction

Goto(step) == pc' = step /\ UNCHANGED call
Return == pc' = "idle" /\ call' = NoCall

\* The RAM of a unit that has just booted (keychain_init_cache): all other
\* static variables have their initial values.
keychain_init_cache(counter, net, flags) ==
  /\ keychain_data' = None /\ mnemonic_entropy' = None
  /\ keychain_userdata' = SOURCE_NONE /\ keychain_temporary' = FALSE
  /\ network_type_restriction' = net
  /\ has_encrypted_blob' = (counter > 0)
  /\ key_flags' = flags
  /\ Return

\* A keychain call returns false to its caller.  After a failed load the caller
\* compares the PIN with the wallet-erase PIN and erases the wallet on a match;
\* a failed change of PIN leaves the unlock it is part of successful.
Failed ==
  \/ call.fn = "load" /\ call.pin = "erase"
     /\ pc' = "erase_counter" /\ call' = [call EXCEPT !.then = "pin"]
  \/ call.fn = "load" /\ call.pin # "erase" /\ Return
  \/ call.fn = "store" /\ Return
  \/ call.fn = "reencrypt" /\ Goto("set_net")

Erase(then) == pc' = "erase_counter" /\ call' = [call EXCEPT !.then = then]

-----------------------------------------------------------------------------
(* keychain_load_and_decrypt_blob, for keychain_load and keychain_reencrypt *)

\* Mutant: the decremented counter is not committed.
Mutant_decrement ==
  /\ pc = "decrement"
  /\ begun' = begun + 1
  /\ Goto("decrypt")
  /\ UNCHANGED <<flashVars, ramVars, faults, strikes>>

storage_decrement_counter ==
  /\ pc = "decrement"
  /\ \/ fCounter = 0 /\ Erase("return") /\ UNCHANGED <<fCounter, begun, faults>>
     \/ \E ok \in BOOLEAN :
          /\ fCounter > 0
          /\ Commit(ok)
          /\ fCounter' = IF ok THEN fCounter - 1 ELSE fCounter
          /\ begun' = IF ok THEN begun + 1 ELSE begun
          /\ IF ok THEN Goto("decrypt") ELSE Erase("return")
  /\ UNCHANGED <<fBlob, fNet, fFlags, ramVars, strikes>>

\* Mutant: the counter is restored before the key is known to be right.
Mutant_restore_first ==
  /\ pc = "decrypt" /\ fBlob # None
  /\ fCounter' = MaxAttempts /\ begun' = 0
  /\ IF fBlob.aes = call.aes
       THEN pc' = "restore" /\ call' = [call EXCEPT !.payload = fBlob.payload] /\ UNCHANGED strikes
       ELSE strikes' = (IF strikes < MaxStrikes THEN strikes + 1 ELSE strikes) /\ Failed
  /\ UNCHANGED <<fBlob, fNet, fFlags, ramVars, faults>>

DecryptBlob ==
  /\ pc = "decrypt"
  /\ \/ fBlob = None /\ Erase("forget") /\ UNCHANGED strikes
     \/ /\ fBlob # None /\ fBlob.aes # call.aes
        /\ strikes' = IF strikes < MaxStrikes THEN strikes + 1 ELSE strikes
        /\ IF fCounter = 0 THEN Erase("wipe") ELSE Failed
     \/ /\ fBlob # None /\ fBlob.aes = call.aes
        /\ pc' = "restore" /\ call' = [call EXCEPT !.payload = fBlob.payload]
        /\ UNCHANGED strikes
  /\ UNCHANGED <<flashVars, ramVars, faults, begun>>

\* The key was right: restore the counter (a failure is ignored), and deliver
\* the payload to keychain_load or to keychain_reencrypt.  A keychain loaded
\* whole is then re-set with the source of the message (get_pin_load_keys).
RestoreCounter ==
  /\ pc = "restore"
  /\ \E ok \in BOOLEAN :
       /\ Commit(ok)
       /\ fCounter' = IF ok THEN MaxAttempts ELSE fCounter
       /\ begun' = IF ok THEN 0 ELSE begun
  /\ strikes' = 0
  /\ \/ call.fn = "load" /\ call.payload.kind = "entropy" /\ Goto("passphrase")
        /\ mnemonic_entropy' = call.payload.mnemonic
        /\ UNCHANGED <<keychain_data, keychain_userdata, keychain_temporary, key_flags>>
     \/ call.fn = "load" /\ call.payload.kind = "keys" /\ Goto("unlocked")
        /\ keychain_set(Derived(call.payload, EmptyPassphrase), call.src, FALSE)
     \/ call.fn = "reencrypt" /\ Goto("save_counter") /\ UNCHANGED keyVars
  /\ UNCHANGED <<fBlob, fNet, fFlags, network_type_restriction, has_encrypted_blob>>

-----------------------------------------------------------------------------
(* storage_erase_encrypted_blob and keychain_erase_encrypted *)

EraseCounter ==
  /\ pc = "erase_counter"
  /\ \E ok \in BOOLEAN : Commit(ok) /\ fCounter' = IF ok THEN 0 ELSE fCounter
  /\ Goto("erase_blob")
  /\ UNCHANGED <<fBlob, fNet, fFlags, ramVars, histVars>>

EraseBlob ==
  /\ pc = "erase_blob"
  /\ \E ok \in BOOLEAN :
       /\ Commit(ok)
       /\ fBlob' = IF ok THEN None ELSE fBlob
       /\ strikes' = IF ok THEN 0 ELSE strikes
  /\ \/ call.then = "return" /\ Failed /\ UNCHANGED has_encrypted_blob
     \/ call.then = "forget" /\ Failed /\ has_encrypted_blob' = FALSE
     \/ call.then \in {"wipe", "pin"} /\ Goto("erase_net") /\ UNCHANGED has_encrypted_blob
  /\ UNCHANGED <<fCounter, fNet, fFlags, keyVars, network_type_restriction, begun>>

\* Mutant: the cached has-pin flag outlives the wallet.
Mutant_EraseNetwork ==
  /\ pc = "erase_net"
  /\ \E ok \in BOOLEAN : keychain_clear_network_type_restriction(ok, keychain_temporary)
  /\ \/ call.then = "wipe" /\ Failed
     \/ call.then = "pin" /\ Goto("erase_flags")
  /\ UNCHANGED <<fCounter, fBlob, fFlags, keyVars, has_encrypted_blob, histVars>>

EraseNetwork ==
  /\ pc = "erase_net"
  /\ \E ok \in BOOLEAN : keychain_clear_network_type_restriction(ok, keychain_temporary)
  /\ has_encrypted_blob' = FALSE
  /\ \/ call.then = "wipe" /\ Failed
     \/ call.then = "pin" /\ Goto("erase_flags")
  /\ UNCHANGED <<fCounter, fBlob, fFlags, keyVars, histVars>>

\* check_wallet_erase_pin: reset the passphrase setting, then power_shutdown.
EraseFlagsAndShutdown ==
  /\ pc = "erase_flags"
  /\ \E ok \in BOOLEAN :
       /\ Commit(ok)
       /\ fFlags' = IF ok THEN keychain_persist_key_flags(
                               keychain_set_passphrase_frequency(key_flags, "NEVER"))
                    ELSE fFlags
       /\ keychain_init_cache(fCounter, fNet, fFlags')
  /\ UNCHANGED <<fCounter, fBlob, fNet, histVars>>

-----------------------------------------------------------------------------
(* keychain_encrypt_and_save_blob, for keychain_store and keychain_reencrypt *)

\* Mutant: the attempts are added to those left.
Mutant_SaveCounter ==
  /\ pc = "save_counter"
  /\ fCounter' = fCounter + MaxAttempts
  /\ begun' = 0
  /\ Goto("save_blob")
  /\ UNCHANGED <<fBlob, fNet, fFlags, ramVars, faults, strikes>>

SaveCounter ==
  /\ pc = "save_counter"
  /\ \E ok \in BOOLEAN :
       /\ Commit(ok)
       /\ fCounter' = IF ok THEN MaxAttempts ELSE fCounter
       /\ begun' = IF ok THEN 0 ELSE begun
       /\ IF ok THEN Goto("save_blob") ELSE Failed
  /\ UNCHANGED <<fBlob, fNet, fFlags, ramVars, strikes>>

\* Mutant: a change of PIN serialises the keys in use, instead of the payload read.
Mutant_SaveBlob ==
  /\ pc = "save_blob"
  /\ fBlob' = [aes |-> call.new, payload |->
                 IF call.fn = "store" THEN call.payload
                 ELSE [kind |-> "keys", mnemonic |-> keychain_data.mnemonic,
                       passphrase |-> keychain_data.passphrase]]
  /\ strikes' = 0
  /\ Goto(IF call.fn = "store" THEN "clear_net" ELSE "set_net")
  /\ UNCHANGED <<fCounter, fNet, fFlags, ramVars, faults, begun>>

SaveBlob ==
  /\ pc = "save_blob"
  /\ \E ok \in BOOLEAN :
       /\ Commit(ok)
       /\ fBlob' = IF ok THEN [aes |-> call.new, payload |-> call.payload] ELSE fBlob
       /\ strikes' = IF ok THEN 0 ELSE strikes
       /\ IF ~ok THEN Failed
          ELSE Goto(IF call.fn = "store" THEN "clear_net" ELSE "set_net")
  /\ UNCHANGED <<fCounter, fNet, fFlags, ramVars, begun>>

\* The end of keychain_store; set_pin_save_keys then re-sets the keychain with
\* the source of the message, which drops the cached entropy.
FinishStore ==
  /\ pc = "clear_net"
  /\ \E ok \in BOOLEAN : keychain_clear_network_type_restriction(ok, keychain_temporary)
  /\ has_encrypted_blob' = TRUE
  /\ keychain_set(keychain_data, call.src, FALSE)
  /\ Goto("set_net")
  /\ UNCHANGED <<fCounter, fBlob, fFlags, histVars>>

-----------------------------------------------------------------------------
(* auth_user_process: a message from 'source' for a network of type 'net'.  *)
(* A PIN entry that is abandoned, or a pinserver that does not answer, ends *)
(* the call before anything but keychain_clear has happened: see Logout.    *)

UnlockedBy(source) == keychain_data # None /\ keychain_userdata = source

\* Locked: the PIN and the pinserver yield the key 'aes'.  With no attempts
\* left the code asserts, which is a Reboot.
AuthLocked(source, net, aes, pin) ==
  /\ pc = "idle"
  /\ keychain_is_network_type_consistent(net)
  /\ ~keychain_temporary /\ has_encrypted_blob /\ ~UnlockedBy(source)
  /\ fCounter > 0
  /\ IF keychain_data # None THEN keychain_clear ELSE UNCHANGED keyVars
  /\ pc' = "decrement"
  /\ call' = NewCall("load", aes, None, source, net, pin, None)
  /\ UNCHANGED <<flashVars, network_type_restriction, has_encrypted_blob, faults, histVars>>

\* get_pin_load_keys: derive the wallet, then re-set it with the source.
CompleteDerivation(passphrase) ==
  /\ pc = "passphrase"
  /\ keychain_requires_passphrase
  /\ passphrase \in PassphraseChoices
  /\ keychain_set([mnemonic |-> mnemonic_entropy, passphrase |-> passphrase], call.src, FALSE)
  /\ Goto("unlocked")
  /\ UNCHANGED <<flashVars, network_type_restriction, has_encrypted_blob, faults, histVars>>

\* The user may change the PIN at this point; the pinserver yields the key 'new'.
KeepPin ==
  /\ pc = "unlocked"
  /\ Goto("set_net")
  /\ UNCHANGED <<flashVars, ramVars, faults, histVars>>

ChangePin(new) ==
  /\ pc = "unlocked"
  /\ has_encrypted_blob
  /\ pc' = "decrement"
  /\ call' = [call EXCEPT !.fn = "reencrypt", !.new = new]
  /\ UNCHANGED <<flashVars, ramVars, faults, histVars>>

\* Unsaved keys: persist them under the key 'aes' (set_pin_save_keys).
AuthUnsaved(source, net, aes) ==
  /\ pc = "idle"
  /\ keychain_is_network_type_consistent(net)
  /\ ~keychain_temporary /\ ~has_encrypted_blob /\ keychain_data # None
  /\ pc' = "save_counter"
  /\ call' = NewCall("store", None, aes, source, net, "wallet",
                IF mnemonic_entropy # None
                THEN [kind |-> "entropy", mnemonic |-> mnemonic_entropy,
                      passphrase |-> EmptyPassphrase]
                ELSE [kind |-> "keys", mnemonic |-> keychain_data.mnemonic,
                      passphrase |-> keychain_data.passphrase])
  /\ UNCHANGED <<flashVars, ramVars, faults, histVars>>

\* Ready, or temporary and not yet claimed by another source: nothing to unlock.
AuthReady(source, net) ==
  /\ pc = "idle"
  /\ keychain_is_network_type_consistent(net)
  /\ \/ keychain_temporary /\ keychain_userdata = SOURCE_NONE
        /\ keychain_set(keychain_data, source, TRUE)
     \/ (keychain_temporary \/ has_encrypted_blob) /\ UnlockedBy(source)
        /\ UNCHANGED keyVars
  /\ \E ok \in BOOLEAN : keychain_set_network_type_restriction(ok, net)
  /\ UNCHANGED <<fCounter, fBlob, fFlags, has_encrypted_blob, ctlVars, histVars>>

\* The end of a successful auth_user, and of the network menu.
SetNetwork ==
  /\ pc = "set_net"
  /\ \E ok \in BOOLEAN : keychain_set_network_type_restriction(ok, call.net)
  /\ Return
  /\ UNCHANGED <<fCounter, fBlob, fFlags, keyVars, has_encrypted_blob, histVars>>

-----------------------------------------------------------------------------
(* The other operations on the wallet *)

\* Mutant: a new wallet may be set up over a saved one.
Mutant_Initialise(mnemonic, passphrase, temporary, advanced) ==
  /\ pc = "idle"
  /\ keychain_data = None
  /\ passphrase \in PassphraseChoices
  /\ keychain_set([mnemonic |-> mnemonic, passphrase |-> passphrase], SOURCE_NONE, temporary)
  /\ \E ok \in BOOLEAN : keychain_clear_network_type_restriction(ok, temporary)
  /\ UNCHANGED <<fCounter, fBlob, fFlags, has_encrypted_blob, ctlVars, histVars>>

\* initialise_with_mnemonic and derive_keychain.  The choice of advanced mode is
\* put in the confirm-export flag in RAM, but keychain_set then reloads the flags
\* from flash: it has no effect here.
Initialise(mnemonic, passphrase, temporary, advanced) ==
  /\ pc = "idle"
  /\ keychain_data = None
  /\ temporary \/ ~has_encrypted_blob
  /\ temporary => advanced
  /\ passphrase \in PassphraseChoices
  /\ keychain_data' = [mnemonic |-> mnemonic, passphrase |-> passphrase]
  /\ mnemonic_entropy' = IF temporary THEN None ELSE mnemonic
  /\ key_flags' = fFlags
  /\ keychain_userdata' = SOURCE_NONE
  /\ keychain_temporary' = temporary
  /\ \E ok \in BOOLEAN : keychain_clear_network_type_restriction(ok, temporary)
  /\ UNCHANGED <<fCounter, fBlob, fFlags, has_encrypted_blob, ctlVars, histVars>>

\* The user makes a new wallet temporary after all (keychain_set_temporary,
\* with its assertions), or takes a temporary wallet into QR mode; both end in
\* auth_qr_mode_ex re-setting the keychain.
AuthQrTemporary ==
  /\ pc = "idle"
  /\ keychain_data # None
  /\ keychain_temporary \/ (mnemonic_entropy # None /\ ~has_encrypted_blob)
  /\ keychain_userdata = SOURCE_NONE
  /\ keychain_set(keychain_data, SOURCE_INTERNAL, TRUE)
  /\ UNCHANGED <<flashVars, network_type_restriction, has_encrypted_blob, ctlVars,
                 faults, histVars>>

\* After a change of PIN over QR codes the original source is reinstated.
Relogin(source) ==
  /\ pc = "idle"
  /\ UnlockedBy(SOURCE_INTERNAL)
  /\ ~keychain_temporary /\ has_encrypted_blob
  /\ keychain_set(keychain_data, source, FALSE)
  /\ UNCHANGED <<flashVars, network_type_restriction, has_encrypted_blob, ctlVars,
                 faults, histVars>>

\* The logout message or button, a lost connection, an unlock abandoned after
\* auth_user cleared the keys of another source.
Logout ==
  /\ pc = "idle"
  /\ keychain_clear
  /\ UNCHANGED <<flashVars, network_type_restriction, has_encrypted_blob, ctlVars,
                 faults, histVars>>

\* handle_network_type: clear, then set (SetNetwork).
NetworkMenu(net) ==
  /\ pc = "idle"
  /\ UnlockedBy(SOURCE_INTERNAL)
  /\ \E ok \in BOOLEAN : keychain_clear_network_type_restriction(ok, keychain_temporary)
  /\ pc' = "set_net"
  /\ call' = NewCall("menu", None, None, SOURCE_INTERNAL, net, "wallet", None)
  /\ UNCHANGED <<fCounter, fBlob, fFlags, keyVars, has_encrypted_blob, histVars>>

\* handle_passphrase_prefs, offered only while no wallet is in RAM.
PassphrasePrefs(freq) ==
  /\ pc = "idle"
  /\ keychain_data = None
  /\ freq # keychain_get_passphrase_freq
  /\ key_flags' = keychain_set_passphrase_frequency(key_flags, freq)
  /\ \E ok \in BOOLEAN :
       /\ Commit(ok)
       /\ fFlags' = IF ok THEN keychain_persist_key_flags(key_flags') ELSE fFlags
  /\ UNCHANGED <<fCounter, fBlob, fNet, keychain_data, keychain_userdata,
                 keychain_temporary, mnemonic_entropy, network_type_restriction,
                 has_encrypted_blob, ctlVars, histVars>>

\* offer_jade_reset: storage_erase, then restart.
FactoryReset ==
  /\ pc = "idle"
  /\ fCounter' = 0 /\ fBlob' = None /\ fNet' = "NONE" /\ fFlags' = {}
  /\ begun' = 0 /\ strikes' = 0
  /\ keychain_init_cache(0, "NONE", {})
  /\ UNCHANGED faults

\* An erasure that fails may have got anywhere; the user is told, and the unit goes on with
\* what it has in RAM.
FactoryResetFails ==
  /\ pc = "idle"
  /\ Commit(FALSE)
  /\ fCounter' \in {0, fCounter} /\ fBlob' \in {None, fBlob}
  /\ fNet' \in {"NONE", fNet} /\ fFlags' \in {{}, fFlags}
  /\ strikes' = IF fBlob' = None THEN 0 ELSE strikes
  /\ UNCHANGED <<ramVars, ctlVars, begun>>

\* Power loss, an assertion (jade_abort), the idle timer or a shutdown, in any
\* step: the RAM is lost and the flash stays as it is.
Reboot ==
  /\ keychain_init_cache(fCounter, fNet, fFlags)
  /\ UNCHANGED <<flashVars, faults, histVars>>

KeychainCall ==
  \/ storage_decrement_counter \/ DecryptBlob \/ RestoreCounter
  \/ EraseCounter \/ EraseBlob \/ EraseNetwork \/ EraseFlagsAndShutdown
  \/ SaveCounter \/ SaveBlob \/ FinishStore

AuthUser ==
  \/ \E source \in Sources, net \in NetworkTypes :
       \/ \E aes \in AesKeys, pin \in {"wallet", "erase"} : AuthLocked(source, net, aes, pin)
       \/ \E aes \in AesKeys : AuthUnsaved(source, net, aes)
       \/ AuthReady(source, net)
  \/ \E passphrase \in Passphrases : CompleteDerivation(passphrase)
  \/ KeepPin
  \/ \E new \in AesKeys : ChangePin(new)
  \/ SetNetwork

Dashboard ==
  \/ \E mnemonic \in Mnemonics, passphrase \in Passphrases, temporary, advanced \in BOOLEAN :
       Initialise(mnemonic, passphrase, temporary, advanced)
  \/ AuthQrTemporary
  \/ \E source \in Sources : Relogin(source)
  \/ Logout
  \/ \E net \in NetworkTypes : NetworkMenu(net)
  \/ \E freq \in Frequencies : PassphrasePrefs(freq)
  \/ FactoryReset \/ FactoryResetFails
  \/ Reboot

Next == KeychainCall \/ AuthUser \/ Dashboard

Spec == Init /\ [][Next]_vars

-----------------------------------------------------------------------------
(* Properties *)

\* At most three attempts to open the stored wallet are begun between two
\* restorations of the counter, whatever is interrupted or fails: the counter
\* is decremented, and committed, before the blob is read (keychain.c:502).
AttemptsBounded == begun + fCounter <= MaxAttempts

\* While a persisted (not temporary) wallet is unlocked, the blob in flash, if
\* there, is that wallet: saving, changing the PIN and power loss in between
\* never leave the unit working on one wallet and holding another.
UnlockedWalletIsStored ==
  keychain_data # None /\ ~keychain_temporary /\ has_encrypted_blob /\ fBlob # None
    => Derived(fBlob.payload, keychain_data.passphrase) = keychain_data

\* The plain recovery entropy is in RAM only while a passphrase is awaited
\* after a successful PIN, or while the wallet it belongs to is not yet saved.
EntropyIsTransient ==
  mnemonic_entropy # None =>
    \/ pc = "passphrase" /\ keychain_data = None
    \/ /\ keychain_data # None /\ mnemonic_entropy = keychain_data.mnemonic
       /\ ~has_encrypted_blob /\ keychain_userdata = SOURCE_NONE

\* The assertion of get_pin_get_aeskey (auth_user.c:67): a unit that believes it
\* holds a saved wallet has attempts left, however often power is lost.  If the counter
\* cannot be written the blob is erased and still believed to be there (keychain.c:502).
AttemptsRemainIfNoFault == faults = 0 /\ pc = "idle" /\ has_encrypted_blob => fCounter > 0

\* What a step may do to a saved wallet (SavedWalletIsKept).
KeepsSavedWallet ==
  fBlob # None =>
    /\ fBlob' = None /\ faults' = 0 => begun = MaxAttempts \/ FactoryReset \/ call.then = "pin"
    /\ fBlob' # None /\ has_encrypted_blob => fBlob'.payload = fBlob.payload
    /\ keychain_temporary \/ keychain_temporary' =>
         UNCHANGED <<fCounter, fBlob, fNet>> \/ FactoryReset \/ FactoryResetFails

\* What may happen to a saved wallet.  It disappears from flash only by three begun attempts,
\* by the wallet-erase PIN, by a factory reset, or because a commit has failed.  A write of
\* the blob changes the key it is sealed with and never the wallet (keychain_reencrypt).
\* A session on a temporary wallet leaves the blob, the attempts and the network
\* restriction as they were.
SavedWalletIsKept == [][KeepsSavedWallet]_vars

=============================================================================
