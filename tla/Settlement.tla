------------------------------ MODULE Settlement ------------------------------
(***************************************************************************)
(* Where a group's money goes.  The settlement account of a group is in    *)
(* custodian mode (the platform holds what members pay, and pays it out) or*)
(* in direct mode (the provider splits every payment to a sub-account of   *)
(* the group).  Four handlers write it or decide by it:                    *)
(*                                                                         *)
(*   update   a platform admin edits the platform settings                 *)
(*   save     a group admin registers a bank account (save_direct)         *)
(*   switch   a group admin changes the mode        (switch_mode)          *)
(*   invoice  a member asks for an invoice: the part of generate_invoice   *)
(*            that picks the provider and the route of the money           *)
(*                                                                         *)
(* A session decides on the rows it loaded, waits for HTTP answers, and    *)
(* commits the columns it changed.  A contribution is one unit of money;   *)
(* Payouts has the steps of a payout, which is one step here.              *)
(***************************************************************************)
EXTENDS Integers, FiniteSets

CONSTANTS
    Sessions,   \* database sessions that can be open at the same time
    Invoices,   \* contributions that can be invoiced (bound)
    Handlers    \* the entry points that are exercised

AllHandlers == {"update", "save", "switch", "invoice"}

ASSUME HandlersAssumption == Handlers \subseteq AllHandlers

ASSUME InvoicesAssumption == IsFiniteSet(Invoices)

VARIABLES
    settings,   \* platform_settings: the row
    account,    \* settlement_accounts: the group's row
    bill,       \* (provider) the invoices, by the route of their money
    withdrawn,  \* payouts: what outstanding and completed ones amount to
    sess,       \* the open database sessions
    late,       \* history: held money that reached a group already direct
    unsettled   \* history: the sub-account's last writer was switch_mode with
                \*   Monnify for another provider, or wrote over a newer row

moneyVars   == <<bill, withdrawn>>
historyVars == <<late, unsettled>>
vars == <<settings, account, moneyVars, sess, historyVars>>

-----------------------------------------------------------------------------
(* Types                                                                   *)

Providers == {"monnify", "paystack"}

Setting == [custodian_mode_enabled: BOOLEAN, enabled: SUBSET Providers, active: Providers]

\* code: the provider at which the current sub-account was created.
Account == [mode: {"none", "custodian", "direct"}, code: Providers \cup {"none"},
            provider: Providers]

NoAccount == [mode |-> "none", code |-> "none", provider |-> "paystack"]

\* A direct account from before there was a choice of providers: the migration
\* that added the column made every row Monnify's.
EarlierAccount == [mode |-> "direct", code |-> "monnify", provider |-> "monnify"]

PC == {"idle", "update", "verify", "save", "allowed", "custodian", "balance", "direct",
       "account", "migrate", "issue"}

\* seen, wish: the settings row as it was loaded, and as it was then edited.
Session == [pc: PC, seen: Setting, wish: Setting, loaded: Account, provider: Providers]

Defaults == [custodian_mode_enabled |-> FALSE, enabled |-> Providers, active |-> "paystack"]

Closed == [pc |-> "idle", seen |-> Defaults, wish |-> Defaults, loaded |-> NoAccount,
           provider |-> "paystack"]

TypeOK ==
    /\ settings \in Setting
    /\ account \in Account
    /\ bill \in [Invoices -> {"none", "platform", "sub", "platform_paid", "sub_paid"}]
    /\ withdrawn \in Nat
    /\ sess \in [Sessions -> Session]
    /\ late \in Nat
    /\ unsettled \in BOOLEAN

Init ==
    /\ settings = Defaults
    /\ account \in {NoAccount, EarlierAccount}
    /\ bill = [i \in Invoices |-> "none"]
    /\ withdrawn = 0
    /\ sess = [s \in Sessions |-> Closed]
    /\ late = 0
    /\ unsettled = FALSE

-----------------------------------------------------------------------------
(* Sessions                                                                *)

At(s, pc) == sess[s].pc = pc
Become(s, next) == sess' = [sess EXCEPT ![s] = next]
Goto(s, pc) == Become(s, [sess[s] EXCEPT !.pc = pc])
Close(s) == Become(s, Closed)

Open(s, handler, opened) ==
    /\ handler \in Handlers
    /\ At(s, "idle")
    /\ Become(s, opened)

\* An UPDATE names the attributes whose value is not the loaded one.
Written(loaded, wanted, committed) == IF wanted = loaded THEN committed ELSE wanted

\* What a refusal, an HTTP error or a rollback leaves behind: nothing.
Leave(s) ==
    /\ Close(s)
    /\ UNCHANGED <<settings, account, moneyVars, historyVars>>

-----------------------------------------------------------------------------
(* Money                                                                   *)

Paid(route) == Cardinality({i \in Invoices : bill[i] = route})

\* What members paid to the platform itself, less what was paid out.
Held == Paid("platform_paid") - withdrawn

\* available_balance_for_group: every PAID contribution counts, by either route.
Balance == Held + Paid("sub_paid")

Surplus(held) == IF held > late THEN held ELSE late

\* A session passed the balance check and will make the account direct.
Switching == \E s \in Sessions : At(s, "direct")

\* Held money grows while the account is direct, or about to be.
Record(held) ==
    late' = IF account.mode = "direct" \/ Switching THEN Surplus(held) ELSE late

\* A confirmed payment makes the contribution PAID.
Pay(i) ==
    /\ bill[i] \in {"platform", "sub"}
    /\ IF bill[i] = "platform"
         THEN bill' = [bill EXCEPT ![i] = "platform_paid"] /\ Record(Held + 1)
         ELSE bill' = [bill EXCEPT ![i] = "sub_paid"] /\ UNCHANGED late
    /\ UNCHANGED <<settings, account, withdrawn, sess, unsettled>>

\* PayoutService.create.
Withdraw ==
    /\ settings.custodian_mode_enabled
    /\ account.mode # "direct"
    /\ Balance >= 1
    /\ withdrawn' = withdrawn + 1
    /\ UNCHANGED <<settings, account, bill, sess, historyVars>>

\* mutant: a payout that is over is rejected again
PayoutReturnsAgain ==
    /\ withdrawn' = withdrawn - 1
    /\ Record(Held + 1)
    /\ UNCHANGED <<settings, account, bill, sess, unsettled>>

\* A payout is rejected, or its transfer fails.
PayoutReturns ==
    /\ withdrawn > 0
    /\ withdrawn' = withdrawn - 1
    /\ Record(Held + 1)
    /\ UNCHANGED <<settings, account, bill, sess, unsettled>>

-----------------------------------------------------------------------------
(* PlatformSettingsService.update.  A PATCH assigns any of the columns; here*)
(* it edits the kill switch or the providers, not both (bound).             *)

\* get_or_create: the row every caller reads.  The first call ever inserted it.
GetOrCreate == settings

\* At least one payment provider must remain enabled; else the edit is refused.
Guardrail(wish) == wish.enabled # {}

\* A disabled active provider gives way to the other one.
EnabledActive(wish) ==
    IF wish.active \in wish.enabled THEN wish.active
    ELSE CHOOSE p \in Providers : p # wish.active

OnePart(wish) ==
    \/ wish.custodian_mode_enabled = settings.custodian_mode_enabled
    \/ wish = [settings EXCEPT !.custodian_mode_enabled = ~@]

UpdateLoad(s) ==
    /\ \E wish \in {w \in Setting : OnePart(w)} :
          /\ Guardrail(wish)
          /\ Open(s, "update", [Closed EXCEPT !.pc = "update", !.seen = GetOrCreate,
                                  !.wish = [wish EXCEPT !.active = EnabledActive(wish)]])
    /\ UNCHANGED <<settings, account, moneyVars, historyVars>>

UpdateCommit(s) ==
    LET seen == sess[s].seen  wish == sess[s].wish IN
    /\ At(s, "update")
    /\ settings' =
         [custodian_mode_enabled |-> Written(seen.custodian_mode_enabled,
                                             wish.custodian_mode_enabled,
                                             settings.custodian_mode_enabled),
          enabled |-> {p \in Providers : Written(p \in seen.enabled, p \in wish.enabled,
                                                 p \in settings.enabled)},
          active |-> Written(seen.active, wish.active, settings.active)]
    /\ Close(s)
    /\ UNCHANGED <<account, moneyVars, historyVars>>

-----------------------------------------------------------------------------
(* save_direct, which save is another name for                             *)

\* The admin names an enabled provider, or leaves the choice to the platform.
Choosable == GetOrCreate.enabled \cup {GetOrCreate.active}

SaveLoad(s) ==
    /\ \E p \in Choosable :
          Open(s, "save", [Closed EXCEPT !.pc = "verify", !.provider = p])
    /\ UNCHANGED <<settings, account, moneyVars, historyVars>>

\* _verify_and_confirm: the confirmed name is the one the bank has; a mismatch
\* is audited and refused.
VerifyAndConfirm(s) == At(s, "verify")

\* create_sub_account is called with a business_name.  The Monnify client has no
\* such parameter: with Monnify the call raises, and the save ends in Refused.
TakesBusinessName == {"paystack"}

\* The provider has created the sub-account by the time the row is looked at.
ReadExisting(s) ==
    /\ VerifyAndConfirm(s)
    /\ sess[s].provider \in TakesBusinessName
    /\ Become(s, [sess[s] EXCEPT !.pc = "save", !.loaded = account])
    /\ UNCHANGED <<settings, account, moneyVars, historyVars>>

\* Direct with the new sub-account, whatever the account was and held.
SaveExisting(s) ==
    LET old == sess[s].loaded IN
    /\ At(s, "save")
    /\ old.mode # "none"
    /\ account' = [mode     |-> Written(old.mode, "direct", account.mode),
                   code     |-> sess[s].provider,
                   provider |-> Written(old.provider, sess[s].provider, account.provider)]
    /\ late' = IF account.mode = "custodian" THEN Surplus(Held) ELSE late
    /\ unsettled' = (account # old)
    /\ Close(s)
    /\ UNCHANGED <<settings, moneyVars>>

SaveNew(s) ==
    /\ At(s, "save")
    /\ sess[s].loaded.mode = "none"
    /\ account.mode = "none"
    /\ account' = [mode |-> "direct", code |-> sess[s].provider, provider |-> sess[s].provider]
    /\ unsettled' = FALSE
    /\ Close(s)
    /\ UNCHANGED <<settings, moneyVars, late>>

\* group_id is unique: of two first registrations the second fails.
SaveDuplicate(s) ==
    /\ At(s, "save")
    /\ sess[s].loaded.mode = "none"
    /\ account.mode # "none"
    /\ Leave(s)

-----------------------------------------------------------------------------
(* switch_mode                                                             *)

SwitchLoad(s) ==
    /\ \/ /\ account.mode = "direct"
          /\ Open(s, "switch", [Closed EXCEPT !.pc = "allowed", !.loaded = account])
       \/ /\ account.mode = "custodian"
          /\ Open(s, "switch", [Closed EXCEPT !.pc = "balance", !.loaded = account])
    /\ UNCHANGED <<settings, account, moneyVars, historyVars>>

\* _assert_custodian_mode_enabled: the kill switch.
AssertCustodianEnabled(s) ==
    /\ At(s, "allowed")
    /\ IF GetOrCreate.custodian_mode_enabled THEN Goto(s, "custodian") ELSE Close(s)
    /\ UNCHANGED <<settings, account, moneyVars, historyVars>>

SwitchToCustodian(s) ==
    /\ At(s, "custodian")
    /\ account' = [account EXCEPT !.mode = "custodian",
                                  !.code = Written(sess[s].loaded.code, "none", @)]
    /\ unsettled' = FALSE
    /\ Close(s)
    /\ UNCHANGED <<settings, moneyVars, late>>

SmallRest == Balance <= 1 \* mutant: a small rest does not count

NothingOutstanding == Balance <= 0

CheckBalance(s) ==
    /\ At(s, "balance")
    /\ IF NothingOutstanding THEN Goto(s, "direct") ELSE Close(s)
    /\ UNCHANGED <<settings, account, moneyVars, historyVars>>

\* The router passes the Monnify client, whatever provider the account names.
SwitchClient == "monnify"

SwitchToDirect(s) ==
    /\ At(s, "direct")
    /\ account' = [account EXCEPT !.mode = "direct", !.code = SwitchClient]
    /\ unsettled' = (account # sess[s].loaded \/ account.provider # SwitchClient)
    /\ Close(s)
    /\ UNCHANGED <<settings, moneyVars, late>>

-----------------------------------------------------------------------------
(* generate_invoice                                                        *)

\* A purse, and so an invoice, needs a settlement account.  Of the settings the
\* handler goes on to use which providers are enabled.
InvoiceLoad(s) ==
    /\ account.mode # "none"
    /\ Open(s, "invoice", [Closed EXCEPT !.pc = "account", !.seen.enabled = GetOrCreate.enabled,
                                         !.provider = GetOrCreate.active])
    /\ UNCHANGED <<settings, account, moneyVars, historyVars>>

IsDirect(a) == a.mode = "direct" /\ a.code # "none"

\* Monnify was turned off, and Paystack was not.
MustMigrate(s, a) ==
    /\ a.provider = "monnify"
    /\ "monnify" \notin sess[s].seen.enabled
    /\ "paystack" \in sess[s].seen.enabled

InvoiceAccount(s) ==
    /\ At(s, "account")
    /\ \/ /\ ~IsDirect(account)
          /\ Become(s, [sess[s] EXCEPT !.pc = "issue", !.loaded = account, !.seen = Defaults])
       \/ /\ IsDirect(account)
          /\ Become(s, [sess[s] EXCEPT
                          !.pc = IF MustMigrate(s, account) THEN "migrate" ELSE "issue",
                          !.loaded = account, !.provider = account.provider, !.seen = Defaults])
    /\ UNCHANGED <<settings, account, moneyVars, historyVars>>

\* mutant: the code is replaced, the provider is not
MigrateCode(s) ==
    LET new == [account EXCEPT !.code = "paystack"] IN
    /\ At(s, "migrate")
    /\ account' = new
    /\ unsettled' = (account # sess[s].loaded)
    /\ Become(s, [sess[s] EXCEPT !.pc = "issue", !.loaded = new, !.provider = "paystack"])
    /\ UNCHANGED <<settings, moneyVars, late>>

\* A sub-account is created at Paystack, committed, and read back.
Migrate(s) ==
    LET old == sess[s].loaded
        new == [account EXCEPT !.code = "paystack", !.provider = "paystack"]
    IN
    /\ At(s, "migrate")
    /\ account' = new
    /\ unsettled' = (account # old)
    /\ Become(s, [sess[s] EXCEPT !.pc = "issue", !.loaded = new, !.provider = "paystack"])
    /\ UNCHANGED <<settings, moneyVars, late>>

\* The migration failed: the invoice is asked from Monnify after all.
MigrateFails(s) ==
    /\ At(s, "migrate")
    /\ Goto(s, "issue")
    /\ UNCHANGED <<settings, account, moneyVars, historyVars>>

\* The code that goes with the invoice: the split for Monnify was drawn up for
\* a direct account; Paystack is given whatever code the row holds.
SplitCode(s) ==
    IF sess[s].provider = "paystack" \/ IsDirect(sess[s].loaded) THEN sess[s].loaded.code ELSE "none"

\* With a code the provider sends the group's share to the sub-account.
Route(code) == IF code = "none" THEN "platform" ELSE "sub"

\* A provider knows the sub-accounts that were created with it, and no others.
CreateInvoice(s, i) ==
    /\ At(s, "issue")
    /\ bill[i] = "none"
    /\ SplitCode(s) \in {"none", sess[s].provider}
    /\ bill' = [bill EXCEPT ![i] = Route(SplitCode(s))]
    /\ Close(s)
    /\ UNCHANGED <<settings, account, withdrawn, historyVars>>

-----------------------------------------------------------------------------
\* An HTTP call fails, the name does not match, or the client refuses the call.
Refused(s) ==
    /\ sess[s].pc \in {"verify", "direct", "issue"}
    /\ Leave(s)

\* A restart ends the open sessions; nothing of theirs was committed.
Crash ==
    /\ \E s \in Sessions : ~At(s, "idle")
    /\ sess' = [s \in Sessions |-> Closed]
    /\ UNCHANGED <<settings, account, moneyVars, historyVars>>

Save(s) ==
    \/ SaveLoad(s) \/ ReadExisting(s) \/ SaveExisting(s) \/ SaveNew(s) \/ SaveDuplicate(s)

Switch(s) ==
    \/ SwitchLoad(s) \/ AssertCustodianEnabled(s) \/ SwitchToCustodian(s)
    \/ CheckBalance(s) \/ SwitchToDirect(s)

Invoice(s) ==
    \/ InvoiceLoad(s) \/ InvoiceAccount(s) \/ Migrate(s) \/ MigrateFails(s)
    \/ \E i \in Invoices : CreateInvoice(s, i)

Next ==
    \/ \E s \in Sessions :
          \/ UpdateLoad(s) \/ UpdateCommit(s)
          \/ Save(s) \/ Switch(s) \/ Invoice(s)
          \/ Refused(s)
    \/ \E i \in Invoices : Pay(i)
    \/ Withdraw \/ PayoutReturns
    \/ Crash

Spec == Init /\ [][Next]_vars

-----------------------------------------------------------------------------
(* Properties                                                              *)

\* A direct account always has a sub-account, however its writers overlap:
\* each of them writes only the columns it changed (save_direct, switch_mode).
DirectHasSubAccount == account.mode = "direct" => account.code # "none"

\* ... and the sub-account is one of the provider that is asked to split by it,
\* unless switch_mode made it at another one or two writers overlapped
\* (SettlementAccount.payment_provider).
DirectIsPayable ==
    /\ DirectHasSubAccount
    /\ account.mode = "direct" /\ ~unsettled => account.code = account.provider

\* A switch to direct strands nothing: the platform then holds no money of the
\* group but what arrived or came back after the check, or was there when
\* save_direct made the account direct without one (switch_mode).
NothingStranded == account.mode = "direct" => Held <= late

\* "Real, Monnify-held money only": payouts never exceed what the platform
\* received.  Refuted: what a direct group was paid counts as held once its
\* account is switched to custodian (_available_balance_for_group).
PayableIsHeld == withdrawn <= Paid("platform_paid")
=============================================================================
