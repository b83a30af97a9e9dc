----------------------------- MODULE SystemState ----------------------------
(***************************************************************************)
(* Accounts and settings: their records in ExpFS and the older EXPOST03    *)
(* slots (kernel/src/state.rs), the account table and the login loop       *)
(* (kernel/src/session.rs), in the order a start runs them                 *)
(* (kernel/src/lib.rs).                                                    *)
(*                                                                         *)
(* An account table is a function from names to [password, authority]: the *)
(* slots matter only for their number.  A password stands for its salted   *)
(* hash.  Of the settings the model keeps the three two-bit fields packed  *)
(* in one byte, one field whose default is not zero, and the tag without   *)
(* which the extension is absent.  A commit that fails may or may not be   *)
(* found by the next start.                                                *)
(***************************************************************************)
EXTENDS Naturals, FiniteSets

CONSTANTS Names,          \* valid account names besides "operator"
          Passwords,      \* valid passwords
          MAX_ACCOUNTS,
          GENERATIONS,    \* 2^64: generations of the old slots wrap
          Settings        \* settings that are tried, out of range too

ASSUME StateAssumption ==
    /\ "operator" \notin Names
    /\ GENERATIONS \in Nat /\ GENERATIONS > 1

VARIABLES state,     \* RuntimeState.data
          records,   \* settings and accounts as ExpFS has them, for this boot
          onDisk,    \* as the next start will find them
          legacy,    \* the two EXPOST03 slots and the generation written last
          table,     \* ACCOUNTS
          session,   \* the signed-in session, or Nobody
          boot       \* [phase, single, synced]

stateVars == <<state, records, onDisk, legacy, table, session, boot>>

AccountAuthorities == {"Operator", "Power", "Guest"}
Nobody == [name |-> "nobody", authority |-> "none"]
NoRecord == [present |-> FALSE]
NoAccounts == [n \in {} |-> NoRecord]
Account(password, authority) == [password |-> password, authority |-> authority]

-----------------------------------------------------------------------------
(* Settings.                                                               *)

DefaultPreferences == [placement |-> 0, alignment |-> 0, focus |-> 0, weight |-> 1]
sanitize_choice_or(value, choices, fallback) == IF value < choices THEN value ELSE fallback
sanitize_preferences(p) ==
    [placement |-> sanitize_choice_or(p.placement, 4, 0),
     alignment |-> sanitize_choice_or(p.alignment, 3, 0),
     focus |-> sanitize_choice_or(p.focus, 3, 0),
     weight |-> sanitize_choice_or(p.weight, 3, 1)]

LayoutByte(p) == (p.placement % 4) + 4 * (p.alignment % 4) + 16 * (p.focus % 4)
encode_preferences(p) ==
    [present |-> TRUE, tagged |-> TRUE, layout |-> LayoutByte(p), weight |-> p.weight]
decode_preferences(r) ==
    LET layout == IF r.tagged THEN r.layout ELSE 0
    IN  sanitize_preferences(
          [placement |-> layout % 4,
           alignment |-> (layout \div 4) % 4,
           focus |-> (layout \div 16) % 4,
           weight |-> IF r.tagged THEN r.weight ELSE DefaultPreferences.weight])

-----------------------------------------------------------------------------
(* Persistent data and its records.                                        *)

NewData == [accounts_initialized |-> FALSE, preferences |-> DefaultPreferences,
            accounts |-> NoAccounts]

encode_expfs_records(data) ==
    [settings |-> encode_preferences(data.preferences),
     accounts |-> IF data.accounts_initialized
                  THEN [present |-> TRUE, table |-> data.accounts] ELSE NoRecord]
NoRecords == [settings |-> NoRecord, accounts |-> NoRecord]

decode_expfs_records(r) ==
    [accounts_initialized |-> r.accounts.present,
     preferences |-> IF r.settings.present THEN decode_preferences(r.settings)
                     ELSE DefaultPreferences,
     accounts |-> IF r.accounts.present THEN r.accounts.table ELSE NoAccounts]

\* The old slots: [valid, generation, data]; data has untagged settings.
generation_is_newer(candidate, current) ==
    /\ candidate # current
    /\ (candidate + GENERATIONS - current) % GENERATIONS < GENERATIONS \div 2
newest_slot(slots) ==
    IF slots[1].valid /\ (slots[0].valid =>
           generation_is_newer(slots[1].generation, slots[0].generation))
    THEN slots[1] ELSE slots[0]

\* commit_locked: the runtime data changes only when the commit is done.
Committed(data) ==
    /\ state' = data
    /\ records' = encode_expfs_records(data)
    /\ onDisk' = records'
CommitFailed(data) ==
    /\ onDisk' \in {onDisk, encode_expfs_records(data)}
    /\ UNCHANGED <<state, records>>

-----------------------------------------------------------------------------
(* Starting up.                                                            *)

Phase(p) == boot' = [boot EXCEPT !.phase = p]

\* state::initialize over the mounted ExpFS
InitializeState ==
    /\ boot.phase = "start"
    /\ records' = onDisk
    /\ state' = IF onDisk.settings.present \/ onDisk.accounts.present
                THEN decode_expfs_records(onDisk)
                ELSE IF legacy.slots[0].valid \/ legacy.slots[1].valid
                     THEN newest_slot(legacy.slots).data
                     ELSE NewData
    /\ boot' = [boot EXCEPT
         !.phase = IF onDisk = NoRecords /\ ~legacy.slots[0].valid /\ ~legacy.slots[1].valid
                   THEN "policy" ELSE "accounts"]
    /\ UNCHANGED <<onDisk, legacy, table, session>>

\* The display policy of Genesis, on a disk with no state yet.
InitialPreferences(p) ==
    /\ boot.phase = "policy"
    /\ Phase("accounts")
    /\ LET data == [state EXCEPT !.preferences = sanitize_preferences(p)] IN
       \/ Committed(data)
       \/ /\ state' = data
          /\ onDisk' \in {onDisk, encode_expfs_records(data)}
          /\ UNCHANGED records
    /\ UNCHANGED <<legacy, table, session>>

builtins ==
    [n \in {"operator"} \cup (Names \cap {"guest"}) |->
       IF n = "operator" THEN Account("expos", "Operator") ELSE Account("guest", "Guest")]

\* AccountStore::from_persistent: names are unique, the operator is there.
from_persistent(accounts) ==
    /\ "operator" \in DOMAIN accounts /\ accounts["operator"].authority = "Operator"
    /\ Cardinality(DOMAIN accounts) <= MAX_ACCOUNTS

\* initialize_with_seeds: the stored table, else Genesis's, else the built-in.
SeedData(seed) == [state EXCEPT !.accounts = seed, !.accounts_initialized = TRUE]
initialize_with_seeds(seed) ==
    /\ boot.phase = "accounts"
    /\ IF state.accounts_initialized /\ from_persistent(state.accounts)
       THEN /\ table' = state.accounts
            /\ boot' = [boot EXCEPT !.phase = "choose", !.synced = (onDisk.accounts.present)]
            /\ UNCHANGED <<state, records, onDisk>>
       ELSE /\ table' = seed
            /\ \/ /\ Committed(SeedData(seed))
                  /\ boot' = [boot EXCEPT !.phase = "choose", !.synced = TRUE]
               \/ /\ CommitFailed(SeedData(seed))
                  /\ boot' = [boot EXCEPT !.phase = "choose", !.synced = FALSE]
    /\ UNCHANGED <<legacy, session>>

\* choose_boot_mode and set_single_user, at the start only.
ChooseBootMode(single) ==
    /\ boot.phase = "choose"
    /\ boot' = [boot EXCEPT !.phase = "login", !.single = single]
    /\ UNCHANGED <<state, records, onDisk, legacy, table, session>>

-----------------------------------------------------------------------------
(* Logging in and out.                                                     *)

authenticate(name, password) ==
    /\ name \in DOMAIN table
    /\ boot.single => table[name].authority = "Operator"
    /\ table[name].password = password

\* login_once until an attempt is accepted; a refused one changes nothing kept.
LogIn(name, password) ==
    /\ boot.phase = "login"
    /\ authenticate(name, password)
    /\ session' = [name |-> name, authority |-> table[name].authority]
    /\ Phase("running")
    /\ UNCHANGED <<state, records, onDisk, legacy, table>>

\* The shell's login command; the session stays until another is accepted.
LogOut ==
    /\ boot.phase = "running"
    /\ Phase("login")
    /\ UNCHANGED <<state, records, onDisk, legacy, table, session>>

-----------------------------------------------------------------------------
(* Operator commands.                                                      *)

Operator == boot.phase = "running" /\ session.authority = "Operator"

\* save_accounts of a candidate table, then the table itself.
SaveAccounts(candidate) ==
    /\ LET data == [state EXCEPT !.accounts = candidate, !.accounts_initialized = TRUE] IN
       \/ /\ Committed(data)
          /\ table' = candidate
          /\ boot' = [boot EXCEPT !.synced = TRUE]
       \/ /\ CommitFailed(data)
          /\ UNCHANGED table
          /\ boot' = [boot EXCEPT !.synced = FALSE]
    /\ UNCHANGED <<legacy, session>>

add_account(name, password, authority) ==
    /\ Operator
    /\ name \notin DOMAIN table /\ Cardinality(DOMAIN table) < MAX_ACCOUNTS
    /\ SaveAccounts([n \in DOMAIN table \cup {name} |->
                       IF n = name THEN Account(password, authority) ELSE table[n]])

\* Mutant: only the signed-in name is protected.
MutantRemovable(name) == name # session.name /\ name \in DOMAIN table
Removable(name) == name # "operator" /\ name # session.name /\ name \in DOMAIN table
remove_account(name) ==
    /\ Operator
    /\ Removable(name)
    /\ SaveAccounts([n \in DOMAIN table \ {name} |-> table[n]])

change_password(name, password) ==
    /\ Operator
    /\ name \in DOMAIN table
    /\ SaveAccounts([table EXCEPT ![name].password = password])

\* save_preferences, with what the caller does when it fails: safevideo
\* keeps the choice for this boot.
save_preferences(p) ==
    /\ boot.phase = "running"
    /\ LET data == [state EXCEPT !.preferences = sanitize_preferences(p)] IN
       \/ Committed(data) /\ boot' = [boot EXCEPT !.synced =
                                        (data.accounts_initialized /\ table = data.accounts)]
       \/ CommitFailed(data) /\ boot' = [boot EXCEPT !.synced = FALSE]
       \/ /\ state' = data
          /\ onDisk' \in {onDisk, encode_expfs_records(data)}
          /\ boot' = [boot EXCEPT !.synced = FALSE]
          /\ UNCHANGED records
    /\ UNCHANGED <<legacy, table, session>>

Restart ==
    /\ boot' = [boot EXCEPT !.phase = "start", !.single = FALSE, !.synced = FALSE]
    /\ session' = Nobody
    /\ table' = NoAccounts
    /\ state' = NewData
    /\ records' = NoRecords
    /\ UNCHANGED <<onDisk, legacy>>

-----------------------------------------------------------------------------
LegacyTable(n) ==
    [m \in {"operator"} \cup (IF n = 0 THEN {} ELSE Names \ {"guest"}) |->
       Account(CHOOSE p \in Passwords : TRUE, IF m = "operator" THEN "Operator" ELSE "Power")]
LegacySlot(generation, n) ==
    [valid |-> TRUE, generation |-> generation % GENERATIONS,
     data |-> [accounts_initialized |-> TRUE, preferences |-> DefaultPreferences,
               accounts |-> LegacyTable(n)]]
NoSlotData == [valid |-> FALSE, generation |-> 0, data |-> NewData]

\* An unused disk, or one an older release wrote last at some generation.
StateInit ==
    /\ state = NewData /\ records = NoRecords /\ onDisk = NoRecords
    /\ \/ legacy = [slots |-> [i \in {0, 1} |-> NoSlotData], last |-> NoSlotData]
       \/ \E g \in 0..GENERATIONS - 1, i \in {0, 1} :
            legacy = [slots |-> [j \in {0, 1} |-> IF j = i THEN LegacySlot(g + 1, 1)
                                                  ELSE LegacySlot(g, 0)],
                      last |-> LegacySlot(g + 1, 1)]
    /\ table = NoAccounts /\ session = Nobody
    /\ boot = [phase |-> "start", single |-> FALSE, synced |-> FALSE]

StateNext ==
    \/ InitializeState \/ Restart \/ LogOut
    \/ \E p \in Settings : InitialPreferences(p) \/ save_preferences(p)
    \/ \E seed \in {builtins, LegacyTable(1)} : initialize_with_seeds(seed)
    \/ \E single \in BOOLEAN : ChooseBootMode(single)
    \/ \E name \in DOMAIN table : LogIn(name, table[name].password)
    \/ \E name \in Names, password \in Passwords :
         \/ \E authority \in AccountAuthorities : add_account(name, password, authority)
         \/ change_password(name, password)
    \/ \E name \in DOMAIN table : remove_account(name)

StateSpec == StateInit /\ [][StateNext]_stateVars

-----------------------------------------------------------------------------
(* Properties.                                                             *)

\* What was reported saved is what the next start loads: unless the last
\* commit failed, decoding the records on the disk gives the account table
\* and the settings in use (state.rs commit_locked, decode_expfs_records).
SavedIsLoaded ==
    boot.synced => /\ decode_expfs_records(onDisk).accounts = table
                   /\ decode_expfs_records(onDisk).preferences = state.preferences

\* The protected operator account is in the table from the moment login is
\* possible (from_persistent, remove_account).
OperatorStays ==
    boot.phase \in {"choose", "login", "running"} =>
        "operator" \in DOMAIN table /\ table["operator"].authority = "Operator"

\* A signed-in session keeps its account: remove_account refuses the active
\* name, and single-user starts admit Operators only (authenticate).
SessionHasAccount ==
    session # Nobody =>
        /\ session.name \in DOMAIN table
        /\ table[session.name].authority = session.authority
        /\ boot.single /\ boot.phase = "running" => session.authority = "Operator"

\* The older slot format is read once, newest slot first, wrapped generation
\* or not (newest_slot, generation_is_newer).
NewestLegacyLoaded ==
    boot.phase = "accounts" /\ onDisk = NoRecords /\ legacy.last.valid
      => state.accounts = legacy.last.data.accounts

-----------------------------------------------------------------------------
(* The boot chooser and the login screen (kernel/src/session.rs,           *)
(* choose_boot_mode, login and login_once): the environment, the two       *)
(* fields, the password buffer and its wiping, graphics that cannot be     *)
(* entered or presented.                                                   *)
(*                                                                         *)
(* Of the password buffer the model keeps which bytes are not zero; which  *)
(* credentials are right is decided by authenticate.  A pointer event      *)
(* is a click on one of the regions of the screen, or none.                *)

CONSTANTS FIELD_CAPACITY,
          MaxFailures     \* bound on failed_attempts

VARIABLES screen,  \* where control is: chooser, login or session
          mode,    \* BootMode
          form,    \* the locals of login_once
          buffer   \* positions of the password buffer that are not zero

loginVars == <<screen, mode, form, buffer>>

Modes == {"Graphical", "Console", "SingleUser"}
Regions == {"user", "password", "sign_in", "switch", "elsewhere"}
EmptyForm == [graphical |-> FALSE, user |-> 0, pass |-> 0, password_field |-> FALSE,
              denied |-> FALSE, failed |-> 0]
Wiped == {}

alternate(m) == IF m = "Graphical" THEN "Console"
                ELSE IF m = "Console" THEN "Graphical" ELSE "SingleUser"

-----------------------------------------------------------------------------
(* choose_boot_mode: firmware's choice, or the screen, or the console when *)
(* graphics cannot be shown.                                               *)

ChooseMode(selected) ==
    /\ screen = "chooser"
    /\ mode' = selected
    /\ screen' = "enter"
    /\ UNCHANGED <<form, buffer>>
ChooserFails == ChooseMode("Console")

\* login_once enters graphics; the loop of login tries the other environment.
EnterLogin(entered) ==
    /\ screen = "enter"
    /\ IF mode = "Graphical" /\ ~entered
       THEN mode' = alternate(mode) /\ UNCHANGED <<screen, form>>
       ELSE /\ form' = [EmptyForm EXCEPT !.graphical = (mode = "Graphical")]
            /\ screen' = "login"
            /\ UNCHANGED mode
    /\ buffer' = Wiped

SwitchEnvironment ==
    /\ screen' = "enter"
    /\ mode' = alternate(mode)
    /\ buffer' = Wiped
    /\ UNCHANGED form

-----------------------------------------------------------------------------
(* Events of login_once.  Every one redraws a graphical screen, and a      *)
(* frame that cannot be shown leaves graphics.                             *)

Redrawn(newForm, newBuffer) ==
    \/ form' = newForm /\ buffer' = newBuffer /\ UNCHANGED <<screen, mode>>
    \/ form.graphical /\ SwitchEnvironment

\* authenticate with the two fields: a session, or back to empty fields.
\* A refusal waits login_backoff before the screen goes on.
Attempt(accepted) ==
    IF accepted
    THEN screen' = "session" /\ buffer' = Wiped /\ UNCHANGED <<mode, form>>
    ELSE Redrawn([form EXCEPT !.denied = TRUE, !.user = 0, !.pass = 0,
                              !.password_field = FALSE, !.failed = @ + 1], Wiped)

TypeCharacter ==
    /\ screen = "login"
    /\ IF form.password_field
       THEN IF form.pass < FIELD_CAPACITY
            THEN Redrawn([form EXCEPT !.denied = FALSE, !.pass = @ + 1],
                         buffer \cup {form.pass + 1})
            ELSE Redrawn([form EXCEPT !.denied = FALSE], buffer)
       ELSE Redrawn([form EXCEPT !.denied = FALSE,
                       !.user = IF @ < FIELD_CAPACITY THEN @ + 1 ELSE @], buffer)

Erased == buffer \ {form.pass}
Backspace ==
    /\ screen = "login"
    /\ IF form.password_field
       THEN IF form.pass # 0
            THEN Redrawn([form EXCEPT !.pass = @ - 1], Erased)
            ELSE Redrawn(form, buffer)
       ELSE Redrawn([form EXCEPT !.user = IF @ = 0 THEN 0 ELSE @ - 1], buffer)

Tab ==
    /\ screen = "login"
    /\ Redrawn([form EXCEPT !.password_field = ~@], buffer)

Enter(accepted) ==
    /\ screen = "login"
    /\ IF form.password_field
       THEN form.failed < MaxFailures /\ Attempt(accepted)
       ELSE Redrawn([form EXCEPT !.password_field = TRUE], buffer)

Escape == screen = "login" /\ SwitchEnvironment

LoginClick(region, accepted) ==
    /\ screen = "login" /\ form.graphical
    /\ \/ region = "sign_in" /\ form.failed < MaxFailures /\ Attempt(accepted)
       \/ region = "switch" /\ SwitchEnvironment
       \/ region = "user" /\ Redrawn([form EXCEPT !.password_field = FALSE], buffer)
       \/ region = "password" /\ Redrawn([form EXCEPT !.password_field = TRUE], buffer)
       \/ region = "elsewhere" /\ Redrawn(form, buffer)

\* The shell's login command, at the end of a session.
LogOutScreen ==
    /\ screen = "session"
    /\ screen' = "chooser"
    /\ UNCHANGED <<mode, form, buffer>>

-----------------------------------------------------------------------------
LoginInit ==
    /\ screen = "chooser" /\ mode = "Graphical"
    /\ form = EmptyForm /\ buffer = Wiped

LoginNext ==
    \/ \E selected \in Modes : ChooseMode(selected)
    \/ ChooserFails \/ LogOutScreen
    \/ \E entered \in BOOLEAN : EnterLogin(entered)
    \/ TypeCharacter \/ Backspace \/ Tab \/ Escape
    \/ \E accepted \in BOOLEAN :
         Enter(accepted) \/ \E region \in Regions : LoginClick(region, accepted)

LoginSpec == LoginInit /\ [][LoginNext]_loginVars

-----------------------------------------------------------------------------
\* The password buffer holds the bytes typed and nothing else: erased bytes,
\* refused attempts and every way out of the screen leave zeroes
\* (crypto::wipe on each path of login_once).
PasswordBufferExact ==
    buffer = IF screen = "login" THEN 1..form.pass ELSE Wiped

\* Accounts and settings return as they were saved, an operator always remains,
\* a session is that of an account, and no typed password stays in memory.
AccountsSound ==
    /\ SavedIsLoaded /\ OperatorStays /\ SessionHasAccount /\ NewestLegacyLoaded
    /\ PasswordBufferExact
=============================================================================
