--------------------------- MODULE SettlementProofs ---------------------------
(***************************************************************************)
(* Proofs about Settlement, for any number of overlapping sessions and of  *)
(* invoices: types, DirectIsPayable, and NothingStranded.                  *)
(***************************************************************************)
EXTENDS Settlement, FiniteSetTheorems, TLAPS

-----------------------------------------------------------------------------
(* Sessions keep their type                                                *)

LEMMA BecomeTyped ==
    ASSUME NEW s \in Sessions, sess \in [Sessions -> Session], NEW next \in Session, Become(s, next)
    PROVE  sess' \in [Sessions -> Session]
BY DEF Become

LEMMA ClosedTyped == Closed \in Session
BY DEF Closed, Session, PC, Setting, Defaults, Account, NoAccount, Providers

LEMMA CloseTyped ==
    ASSUME NEW s \in Sessions, sess \in [Sessions -> Session], Close(s)
    PROVE  sess' \in [Sessions -> Session]
BY BecomeTyped, ClosedTyped DEF Close

LEMMA GotoTyped ==
    ASSUME NEW s \in Sessions, sess \in [Sessions -> Session], NEW pc \in PC, Goto(s, pc)
    PROVE  sess' \in [Sessions -> Session]
<1>1. sess[s] \in Session
  OBVIOUS
<1>2. [sess[s] EXCEPT !.pc = pc] \in Session
  BY <1>1 DEF Session
<1>3. QED
  BY <1>2, BecomeTyped DEF Goto

-----------------------------------------------------------------------------
(* Each handler keeps the types                                            *)

LEMMA EnabledActiveTyped ==
    ASSUME NEW wish \in Setting
    PROVE  EnabledActive(wish) \in Providers
<1>1. wish.active \in Providers
  BY DEF Setting
<1>2. \E p \in Providers : p # wish.active
  BY DEF Providers
<1>3. QED
  BY <1>1, <1>2 DEF EnabledActive

LEMMA UpdateTyped ==
    ASSUME TypeOK, NEW s \in Sessions, UpdateLoad(s) \/ UpdateCommit(s)
    PROVE  TypeOK'
<1>1. CASE UpdateLoad(s)
  <2>1. PICK wish \in Setting :
           Become(s, [Closed EXCEPT !.pc = "update", !.seen = GetOrCreate,
                                    !.wish = [wish EXCEPT !.active = EnabledActive(wish)]])
    BY <1>1 DEF UpdateLoad, Open
  <2>2. [wish EXCEPT !.active = EnabledActive(wish)] \in Setting
    BY EnabledActiveTyped DEF Setting
  <2>3. settings \in Setting
    BY DEF TypeOK
  <2>4. [Closed EXCEPT !.pc = "update", !.seen = GetOrCreate,
                       !.wish = [wish EXCEPT !.active = EnabledActive(wish)]] \in Session
    BY <2>2, <2>3, ClosedTyped DEF Session, GetOrCreate, PC
  <2>5. sess' \in [Sessions -> Session]
    BY <2>1, <2>4, BecomeTyped DEF TypeOK
  <2>6. QED
    BY <1>1, <2>5 DEF TypeOK, UpdateLoad, moneyVars, historyVars
<1>2. CASE UpdateCommit(s)
  <2>1. /\ sess[s] \in Session
        /\ settings \in Setting
    BY DEF TypeOK
  <2>2. /\ sess[s].seen \in Setting
        /\ sess[s].wish \in Setting
    BY <2>1 DEF Session
  <2>3. settings' \in Setting
    BY <1>2, <2>1, <2>2 DEF UpdateCommit, Setting, Written
  <2>4. sess' \in [Sessions -> Session]
    BY <1>2, CloseTyped DEF UpdateCommit, TypeOK
  <2>5. QED
    BY <1>2, <2>3, <2>4 DEF UpdateCommit, TypeOK, moneyVars, historyVars
<1>3. QED
  BY <1>1, <1>2

LEMMA LeaveTyped ==
    ASSUME TypeOK, NEW s \in Sessions, Leave(s)
    PROVE  TypeOK'
BY CloseTyped DEF Leave, TypeOK, moneyVars, historyVars

LEMMA PaidCounts == ASSUME NEW route PROVE Paid(route) \in Nat
<1>1. IsFiniteSet({i \in Invoices : bill[i] = route})
  BY InvoicesAssumption, FS_Subset
<1>2. QED
  BY <1>1, FS_CardinalityType DEF Paid

LEMMA SurplusBounds ==
    ASSUME NEW held \in Int, late \in Nat
    PROVE  /\ Surplus(held) \in Nat
           /\ Surplus(held) >= held
           /\ Surplus(held) >= late
BY DEF Surplus

LEMMA SaveTyped ==
    ASSUME TypeOK, NEW s \in Sessions, Save(s)
    PROVE  TypeOK'
<1>. USE DEF moneyVars, historyVars
<1>0. /\ sess \in [Sessions -> Session]
      /\ sess[s] \in Session
      /\ settings \in Setting
      /\ account \in Account
  BY DEF TypeOK
<1>1. CASE SaveLoad(s)
  <2>1. PICK p \in Choosable : Become(s, [Closed EXCEPT !.pc = "verify", !.provider = p])
    BY <1>1 DEF SaveLoad, Open
  <2>2. p \in Providers
    BY <1>0 DEF Choosable, GetOrCreate, Setting
  <2>3. [Closed EXCEPT !.pc = "verify", !.provider = p] \in Session
    BY <2>2, ClosedTyped DEF Session, PC
  <2>4. sess' \in [Sessions -> Session]
    BY <1>0, <2>1, <2>3, BecomeTyped
  <2>5. QED
    BY <1>1, <2>4 DEF SaveLoad, TypeOK
<1>2. CASE ReadExisting(s)
  <2>1. [sess[s] EXCEPT !.pc = "save", !.loaded = account] \in Session
    BY <1>0 DEF Session, PC
  <2>2. sess' \in [Sessions -> Session]
    BY <1>0, <1>2, <2>1, BecomeTyped DEF ReadExisting
  <2>3. QED
    BY <1>2, <2>2 DEF ReadExisting, TypeOK
<1>3. CASE SaveExisting(s)
  <2>1. sess[s].provider \in Providers
    BY <1>0 DEF Session
  <2>2. account' \in Account
    BY <1>0, <1>3, <2>1 DEF SaveExisting, Account, Written
  <2>3. Held \in Int
    BY PaidCounts DEF Held, TypeOK
  <2>4. late' \in Nat
    BY <1>3, <2>3, SurplusBounds DEF SaveExisting, TypeOK
  <2>5. unsettled' \in BOOLEAN
    BY <1>3 DEF SaveExisting
  <2>6. sess' \in [Sessions -> Session]
    BY <1>0, <1>3, CloseTyped DEF SaveExisting
  <2>7. QED
    BY <1>3, <2>2, <2>4, <2>5, <2>6 DEF SaveExisting, TypeOK
<1>4. CASE SaveNew(s)
  <2>1. sess[s].provider \in Providers
    BY <1>0 DEF Session
  <2>2. account' \in Account
    BY <1>4, <2>1 DEF SaveNew, Account
  <2>3. sess' \in [Sessions -> Session]
    BY <1>0, <1>4, CloseTyped DEF SaveNew
  <2>4. QED
    BY <1>4, <2>2, <2>3 DEF SaveNew, TypeOK
<1>5. CASE SaveDuplicate(s)
  BY <1>5, LeaveTyped DEF SaveDuplicate
<1>6. QED
  BY <1>1, <1>2, <1>3, <1>4, <1>5 DEF Save

LEMMA SwitchTyped ==
    ASSUME TypeOK, NEW s \in Sessions, Switch(s)
    PROVE  TypeOK'
<1>. USE DEF moneyVars, historyVars
<1>0. /\ sess \in [Sessions -> Session]
      /\ account \in Account
  BY DEF TypeOK
<1>1. CASE SwitchLoad(s)
  <2>1. PICK pc \in {"allowed", "balance"} : Become(s, [Closed EXCEPT !.pc = pc, !.loaded = account])
    BY <1>1 DEF SwitchLoad, Open
  <2>2. [Closed EXCEPT !.pc = pc, !.loaded = account] \in Session
    BY <1>0, ClosedTyped DEF Session, PC
  <2>3. sess' \in [Sessions -> Session]
    BY <1>0, <2>1, <2>2, BecomeTyped
  <2>4. QED
    BY <1>1, <2>3 DEF SwitchLoad, TypeOK
<1>2. CASE AssertCustodianEnabled(s)
  <2>1. "custodian" \in PC
    BY DEF PC
  <2>2. sess' \in [Sessions -> Session]
    BY <1>0, <1>2, <2>1, GotoTyped, CloseTyped DEF AssertCustodianEnabled
  <2>3. QED
    BY <1>2, <2>2 DEF AssertCustodianEnabled, TypeOK
<1>3. CASE SwitchToCustodian(s)
  <2>1. account' \in Account
    BY <1>0, <1>3 DEF SwitchToCustodian, Account, Written
  <2>2. sess' \in [Sessions -> Session]
    BY <1>0, <1>3, CloseTyped DEF SwitchToCustodian
  <2>3. QED
    BY <1>3, <2>1, <2>2 DEF SwitchToCustodian, TypeOK
<1>4. CASE CheckBalance(s)
  <2>1. "direct" \in PC
    BY DEF PC
  <2>2. sess' \in [Sessions -> Session]
    BY <1>0, <1>4, <2>1, GotoTyped, CloseTyped DEF CheckBalance
  <2>3. QED
    BY <1>4, <2>2 DEF CheckBalance, TypeOK
<1>5. CASE SwitchToDirect(s)
  <2>1. account' \in Account
    BY <1>0, <1>5 DEF SwitchToDirect, SwitchClient, Account, Providers
  <2>2. unsettled' \in BOOLEAN
    BY <1>5 DEF SwitchToDirect
  <2>3. sess' \in [Sessions -> Session]
    BY <1>0, <1>5, CloseTyped DEF SwitchToDirect
  <2>4. QED
    BY <1>5, <2>1, <2>2, <2>3 DEF SwitchToDirect, TypeOK
<1>6. QED
  BY <1>1, <1>2, <1>3, <1>4, <1>5 DEF Switch

LEMMA InvoiceTyped ==
    ASSUME TypeOK, NEW s \in Sessions, Invoice(s)
    PROVE  TypeOK'
<1>. USE DEF moneyVars, historyVars
<1>0. /\ sess \in [Sessions -> Session]
      /\ sess[s] \in Session
      /\ settings \in Setting
      /\ account \in Account
  BY DEF TypeOK
<1>1. CASE InvoiceLoad(s)
  <2>1. Become(s, [Closed EXCEPT !.pc = "account", !.seen.enabled = GetOrCreate.enabled,
                                 !.provider = GetOrCreate.active])
    BY <1>1 DEF InvoiceLoad, Open
  <2>2. [Closed.seen EXCEPT !.enabled = GetOrCreate.enabled] \in Setting
    BY <1>0, ClosedTyped DEF Session, Setting, GetOrCreate
  <2>3. GetOrCreate.active \in Providers
    BY <1>0 DEF GetOrCreate, Setting
  <2>4. [Closed EXCEPT !.pc = "account", !.seen.enabled = GetOrCreate.enabled,
                       !.provider = GetOrCreate.active] \in Session
    BY <2>2, <2>3, ClosedTyped DEF Session, PC
  <2>5. sess' \in [Sessions -> Session]
    BY <1>0, <2>1, <2>4, BecomeTyped
  <2>6. QED
    BY <1>1, <2>5 DEF InvoiceLoad, TypeOK
<1>2. CASE InvoiceAccount(s)
  <2>1. Defaults \in Setting
    BY ClosedTyped DEF Session, Closed
  <2>2. account.provider \in Providers
    BY <1>0 DEF Account
  <2>3. [sess[s] EXCEPT !.pc = "issue", !.loaded = account, !.seen = Defaults] \in Session
    BY <1>0, <2>1 DEF Session, PC
  <2>4. ASSUME NEW pc \in {"migrate", "issue"}
        PROVE  [sess[s] EXCEPT !.pc = pc, !.loaded = account, !.provider = account.provider,
                               !.seen = Defaults] \in Session
    BY <1>0, <2>1, <2>2 DEF Session, PC
  <2>5. (IF MustMigrate(s, account) THEN "migrate" ELSE "issue") \in {"migrate", "issue"}
    OBVIOUS
  <2>6. sess' \in [Sessions -> Session]
    BY <1>0, <1>2, <2>3, <2>4, <2>5, BecomeTyped DEF InvoiceAccount
  <2>7. QED
    BY <1>2, <2>6 DEF InvoiceAccount, TypeOK
<1>3. CASE Migrate(s)
  <2>1. [account EXCEPT !.code = "paystack", !.provider = "paystack"] \in Account
    BY <1>0 DEF Account, Providers
  <2>2. [sess[s] EXCEPT !.pc = "issue",
                        !.loaded = [account EXCEPT !.code = "paystack", !.provider = "paystack"],
                        !.provider = "paystack"] \in Session
    BY <1>0, <2>1 DEF Session, PC, Providers
  <2>3. sess' \in [Sessions -> Session]
    BY <1>0, <1>3, <2>2, BecomeTyped DEF Migrate
  <2>4. unsettled' \in BOOLEAN
    BY <1>3 DEF Migrate
  <2>5. account' \in Account
    BY <1>3, <2>1 DEF Migrate
  <2>6. QED
    BY <1>3, <2>3, <2>4, <2>5 DEF Migrate, TypeOK
<1>4. CASE MigrateFails(s)
  <2>1. "issue" \in PC
    BY DEF PC
  <2>2. sess' \in [Sessions -> Session]
    BY <1>0, <1>4, <2>1, GotoTyped DEF MigrateFails
  <2>3. QED
    BY <1>4, <2>2 DEF MigrateFails, TypeOK
<1>5. CASE \E i \in Invoices : CreateInvoice(s, i)
  <2>1. PICK i \in Invoices : CreateInvoice(s, i)
    BY <1>5
  <2>2. sess' \in [Sessions -> Session]
    BY <1>0, <2>1, CloseTyped DEF CreateInvoice
  <2>3. Route(SplitCode(s)) \in {"platform", "sub"}
    BY DEF Route
  <2>4. QED
    BY <2>1, <2>2, <2>3 DEF CreateInvoice, TypeOK
<1>6. QED
  BY <1>1, <1>2, <1>3, <1>4, <1>5 DEF Invoice

LEMMA MoneyTyped ==
    ASSUME TypeOK, (\E i \in Invoices : Pay(i)) \/ Withdraw \/ PayoutReturns
    PROVE  TypeOK'
<1>. USE DEF moneyVars, historyVars
<1>1. Held + 1 \in Int
  BY PaidCounts DEF Held, TypeOK
<1>2. ASSUME Record(Held + 1) PROVE late' \in Nat
  BY <1>1, <1>2, SurplusBounds DEF Record, TypeOK
<1>3. CASE \E i \in Invoices : Pay(i)
  <2>1. PICK i \in Invoices : Pay(i)
    BY <1>3
  <2>2. CASE bill[i] = "platform"
    BY <1>2, <2>1, <2>2 DEF Pay, TypeOK
  <2>3. CASE bill[i] # "platform"
    BY <2>1, <2>3 DEF Pay, TypeOK
  <2>4. QED
    BY <2>2, <2>3
<1>4. CASE Withdraw
  BY <1>4 DEF Withdraw, TypeOK
<1>5. CASE PayoutReturns
  BY <1>2, <1>5 DEF PayoutReturns, TypeOK
<1>6. QED
  BY <1>3, <1>4, <1>5

LEMMA TypeInitial == Init => TypeOK
<1>. SUFFICES ASSUME Init PROVE TypeOK
  OBVIOUS
<1>1. Defaults \in Setting /\ NoAccount \in Account /\ EarlierAccount \in Account
  BY DEF Defaults, Setting, NoAccount, EarlierAccount, Account, Providers
<1>2. sess \in [Sessions -> Session]
  BY ClosedTyped DEF Init
<1>3. bill \in [Invoices -> {"none", "platform", "sub", "platform_paid", "sub_paid"}]
  BY DEF Init
<1>4. QED
  BY <1>1, <1>2, <1>3 DEF Init, TypeOK

LEMMA TypeInductive == TypeOK /\ [Next]_vars => TypeOK'
<1>. SUFFICES ASSUME TypeOK, [Next]_vars PROVE TypeOK'
  OBVIOUS
<1>1. ASSUME NEW s \in Sessions, UpdateLoad(s) \/ UpdateCommit(s) PROVE TypeOK'
  BY <1>1, UpdateTyped
<1>2. ASSUME NEW s \in Sessions, Save(s) \/ Switch(s) \/ Invoice(s) PROVE TypeOK'
  BY <1>2, SaveTyped, SwitchTyped, InvoiceTyped
<1>3. ASSUME NEW s \in Sessions, Refused(s) PROVE TypeOK'
  BY <1>3, LeaveTyped DEF Refused
<1>4. CASE (\E i \in Invoices : Pay(i)) \/ Withdraw \/ PayoutReturns
  BY <1>4, MoneyTyped
<1>5. CASE Crash
  BY <1>5, ClosedTyped DEF Crash, TypeOK, moneyVars, historyVars
<1>6. CASE UNCHANGED vars
  BY <1>6 DEF vars, moneyVars, historyVars, TypeOK
<1>7. QED
  BY <1>1, <1>2, <1>3, <1>4, <1>5, <1>6 DEF Next

\* The settings, the account, the invoices and the sessions keep their types,
\* however many handlers overlap.
THEOREM TypeCorrect == Spec => []TypeOK
BY TypeInitial, TypeInductive, PTL DEF Spec

-----------------------------------------------------------------------------
(* A direct account is payable: each writer commits a code together with   *)
(* the mode or the provider it changes                                     *)

LEMMA PayableStep ==
    ASSUME TypeOK, DirectIsPayable, [Next]_vars
    PROVE  DirectIsPayable'
<1>. USE DEF DirectIsPayable, DirectHasSubAccount, moneyVars, historyVars
<1>0. account \in Account /\ sess \in [Sessions -> Session]
  BY DEF TypeOK
<1>1. CASE UNCHANGED <<account, unsettled>>
  BY <1>1
<1>2. ASSUME NEW s \in Sessions, SaveExisting(s) PROVE DirectIsPayable'
  <2>1. sess[s].provider \in Providers /\ sess[s].loaded \in Account
    BY <1>0 DEF Session
  <2>2. account'.code = sess[s].provider /\ account'.code # "none"
    BY <1>2, <2>1 DEF SaveExisting, Providers
  <2>3. account = sess[s].loaded => account'.provider = sess[s].provider
    BY <1>2, <2>1 DEF SaveExisting, Written
  <2>4. unsettled' = (account # sess[s].loaded)
    BY <1>2 DEF SaveExisting
  <2>5. QED
    BY <2>2, <2>3, <2>4
<1>3. ASSUME NEW s \in Sessions, SaveNew(s) PROVE DirectIsPayable'
  <2>1. sess[s].provider \in Providers
    BY <1>0 DEF Session
  <2>2. QED
    BY <1>3, <2>1 DEF SaveNew, Providers
<1>4. ASSUME NEW s \in Sessions, SwitchToCustodian(s) PROVE DirectIsPayable'
  BY <1>0, <1>4 DEF SwitchToCustodian, Account
<1>5. ASSUME NEW s \in Sessions, SwitchToDirect(s) PROVE DirectIsPayable'
  <2>1. account'.code = "monnify" /\ account'.provider = account.provider
    BY <1>0, <1>5 DEF SwitchToDirect, SwitchClient, Account
  <2>2. ~unsettled' => account.provider = "monnify"
    BY <1>5 DEF SwitchToDirect, SwitchClient
  <2>3. QED
    BY <2>1, <2>2
<1>6. ASSUME NEW s \in Sessions, Migrate(s) PROVE DirectIsPayable'
  BY <1>0, <1>6 DEF Migrate, Account
<1>7. ASSUME NEW s \in Sessions,
             UpdateLoad(s) \/ UpdateCommit(s) \/ SaveLoad(s) \/ ReadExisting(s)
               \/ SaveDuplicate(s) \/ Refused(s)
      PROVE  UNCHANGED <<account, unsettled>>
  BY <1>7 DEF UpdateLoad, UpdateCommit, SaveLoad, ReadExisting, SaveDuplicate, Refused, Leave
<1>8. ASSUME NEW s \in Sessions,
             SwitchLoad(s) \/ AssertCustodianEnabled(s) \/ CheckBalance(s)
               \/ InvoiceLoad(s) \/ InvoiceAccount(s) \/ MigrateFails(s)
               \/ (\E i \in Invoices : CreateInvoice(s, i))
      PROVE  UNCHANGED <<account, unsettled>>
  BY <1>8 DEF SwitchLoad, AssertCustodianEnabled, CheckBalance, InvoiceLoad, InvoiceAccount,
              MigrateFails, CreateInvoice
<1>9. ASSUME (\E i \in Invoices : Pay(i)) \/ Withdraw \/ PayoutReturns \/ Crash \/ UNCHANGED vars
      PROVE  UNCHANGED <<account, unsettled>>
  BY <1>9 DEF Pay, Withdraw, PayoutReturns, Crash, vars
<1>10. QED
  BY <1>1, <1>2, <1>3, <1>4, <1>5, <1>6, <1>7, <1>8, <1>9 DEF Next, Save, Switch, Invoice

\* However registrations, switches and migrations overlap, a direct account has
\* a sub-account, and one at its provider except in the two cases named with
\* DirectIsPayable.
THEOREM DirectAlwaysPayable == Spec => []DirectIsPayable
<1>1. Init => DirectIsPayable
  BY DEF Init, NoAccount, EarlierAccount, DirectIsPayable, DirectHasSubAccount
<1>2. QED
  BY <1>1, TypeInitial, TypeInductive, PayableStep, PTL DEF Spec

-----------------------------------------------------------------------------
(* Nothing is stranded.  The property is not inductive: a switch commits   *)
(* what it decided two steps before, and a first registration relies on    *)
(* the platform having held nothing yet.                                   *)

\* Before the first registration there is no invoice, none under way, and a
\* session that looked found no account.
NoAccountYet ==
    account.mode = "none" =>
        /\ \A i \in Invoices : bill[i] = "none"
        /\ \A s \in Sessions : sess[s].pc \notin {"account", "migrate", "issue"}
        /\ \A s \in Sessions : At(s, "save") => sess[s].loaded.mode = "none"

\* The promise holds from the balance check on, not just from the commit.
SwitchIsCovered == account.mode = "direct" \/ Switching => Held <= late

IInv == TypeOK /\ NoAccountYet /\ SwitchIsCovered

LEMMA HeldCounts ==
    ASSUME TypeOK
    PROVE  Held \in Int /\ Paid("sub_paid") \in Nat /\ Balance \in Int
BY PaidCounts DEF Held, Balance, TypeOK

LEMMA NothingHeldYet ==
    ASSUME TypeOK, \A i \in Invoices : bill[i] = "none"
    PROVE  Held <= 0
<1>1. {i \in Invoices : bill[i] = "platform_paid"} = {}
  OBVIOUS
<1>2. Paid("platform_paid") = 0
  BY <1>1, FS_EmptySet DEF Paid
<1>3. QED
  BY <1>2 DEF Held, TypeOK

\* A payment on the platform's route adds one to what is held, another one nothing.
LEMMA PayCounts ==
    ASSUME TypeOK, NEW i \in Invoices, Pay(i)
    PROVE  /\ bill[i] = "platform" => Held' = Held + 1
           /\ bill[i] # "platform" => Held' = Held
<1>. DEFINE paid == {j \in Invoices : bill[j] = "platform_paid"}
<1>1. bill \in [Invoices -> {"none", "platform", "sub", "platform_paid", "sub_paid"}]
  BY DEF TypeOK
<1>2. IsFiniteSet(paid) /\ i \notin paid
  BY InvoicesAssumption, FS_Subset DEF Pay
<1>3. withdrawn' = withdrawn
  BY DEF Pay
<1>4. CASE bill[i] = "platform"
  <2>1. {j \in Invoices : bill'[j] = "platform_paid"} = paid \cup {i}
    BY <1>1, <1>4 DEF Pay
  <2>2. Cardinality(paid \cup {i}) = Cardinality(paid) + 1
    BY <1>2, FS_AddElement
  <2>3. Paid("platform_paid")' = Paid("platform_paid") + 1
    BY <2>1, <2>2 DEF Paid
  <2>4. Paid("platform_paid") \in Nat /\ withdrawn \in Nat
    BY PaidCounts DEF TypeOK
  <2>5. QED
    BY <1>3, <1>4, <2>3, <2>4 DEF Held
<1>5. CASE bill[i] # "platform"
  <2>1. {j \in Invoices : bill'[j] = "platform_paid"} = paid
    BY <1>1, <1>5 DEF Pay
  <2>2. QED
    BY <1>3, <1>5, <2>1 DEF Held, Paid
<1>6. QED
  BY <1>4, <1>5

LEMMA IssueKeepsHeld ==
    ASSUME TypeOK, NEW s \in Sessions, NEW i \in Invoices, CreateInvoice(s, i)
    PROVE  Held' = Held
<1>1. Route(SplitCode(s)) # "platform_paid"
  BY DEF Route
<1>2. {j \in Invoices : bill'[j] = "platform_paid"} = {j \in Invoices : bill[j] = "platform_paid"}
  BY <1>1 DEF CreateInvoice, TypeOK
<1>3. QED
  BY <1>2 DEF CreateInvoice, Held, Paid

\* A step that leaves the money alone and lets no session start to switch
\* keeps SwitchIsCovered, unless it makes the account direct.
LEMMA QuietStep ==
    ASSUME IInv, UNCHANGED <<moneyVars, late>>,
           account'.mode = "direct" => account.mode = "direct" \/ Switching,
           \A r \in Sessions : sess'[r].pc = "direct" => sess[r].pc = "direct"
    PROVE  SwitchIsCovered'
<1>1. Held' = Held
  BY DEF Held, Paid, moneyVars
<1>2. Switching' => Switching
  BY DEF Switching, At
<1>3. QED
  BY <1>1, <1>2 DEF IInv, SwitchIsCovered

\* Where the sessions are after one of them moved.
LEMMA Moves ==
    ASSUME NEW s \in Sessions, sess \in [Sessions -> Session], NEW next, Become(s, next)
    PROVE  \A r \in Sessions : sess'[r] = IF r = s THEN next ELSE sess[r]
BY DEF Become

LEMMA UpdateCovered ==
    ASSUME IInv, NEW s \in Sessions, UpdateLoad(s) \/ UpdateCommit(s) \/ Refused(s)
    PROVE  NoAccountYet' /\ SwitchIsCovered'
<1>0. sess \in [Sessions -> Session]
  BY DEF IInv, TypeOK
<1>1. UNCHANGED <<account, moneyVars, late>>
  BY DEF UpdateLoad, UpdateCommit, Refused, Leave, historyVars
<1>2. \A r \in Sessions : sess'[r] = sess[r] \/ sess'[r].pc \in {"idle", "update"}
  <2>1. CASE UpdateLoad(s)
    <3>1. PICK wish : Become(s, [Closed EXCEPT !.pc = "update", !.seen = GetOrCreate, !.wish = wish])
      BY <2>1 DEF UpdateLoad, Open
    <3>2. [Closed EXCEPT !.pc = "update", !.seen = GetOrCreate, !.wish = wish].pc = "update"
      BY DEF Closed
    <3>3. QED
      BY <1>0, <3>1, <3>2, Moves
  <2>2. CASE Close(s)
    BY <1>0, <2>2, Moves DEF Close, Closed
  <2>3. QED
    BY <2>1, <2>2 DEF UpdateCommit, Refused, Leave
<1>3. SwitchIsCovered'
  BY <1>1, <1>2, QuietStep
<1>4. NoAccountYet'
  BY <1>1, <1>2 DEF IInv, NoAccountYet, At, moneyVars
<1>5. QED
  BY <1>3, <1>4

LEMMA SaveCovered ==
    ASSUME IInv, NEW s \in Sessions, Save(s)
    PROVE  NoAccountYet' /\ SwitchIsCovered'
<1>0. /\ TypeOK
      /\ sess \in [Sessions -> Session]
      /\ account \in Account
  BY DEF IInv, TypeOK
<1>1. CASE SaveLoad(s)
  <2>1. PICK p : Become(s, [Closed EXCEPT !.pc = "verify", !.provider = p])
    BY <1>1 DEF SaveLoad, Open
  <2>2. [Closed EXCEPT !.pc = "verify", !.provider = p].pc = "verify"
    BY DEF Closed
  <2>3. \A r \in Sessions : sess'[r] = sess[r] \/ sess'[r].pc = "verify"
    BY <1>0, <2>1, <2>2, Moves
  <2>4. UNCHANGED <<account, moneyVars, late>>
    BY <1>1 DEF SaveLoad, historyVars
  <2>5. QED
    BY <2>3, <2>4, QuietStep DEF IInv, NoAccountYet, At, moneyVars
<1>2. CASE ReadExisting(s)
  <2>1. /\ sess'[s].pc = "save" /\ sess'[s].loaded = account
        /\ \A r \in Sessions \ {s} : sess'[r] = sess[r]
    BY <1>0, <1>2 DEF ReadExisting, Become, Session
  <2>2. UNCHANGED <<account, moneyVars, late>>
    BY <1>2 DEF ReadExisting, historyVars
  <2>3. SwitchIsCovered'
    BY <2>1, <2>2, QuietStep
  <2>4. NoAccountYet'
    BY <2>1, <2>2 DEF IInv, NoAccountYet, At, moneyVars
  <2>5. QED
    BY <2>3, <2>4
<1>3. CASE SaveExisting(s)
  <2>1. account.mode # "none"
    BY <1>3 DEF IInv, NoAccountYet, SaveExisting
  <2>2. account'.mode # "none"
    BY <1>3, <2>1 DEF SaveExisting, Written
  <2>3. Held' = Held
    BY <1>3 DEF SaveExisting, Held, Paid, moneyVars
  <2>4. Switching' => Switching
    BY <1>0, <1>3, Moves DEF SaveExisting, Close, Closed, Switching, At
  <2>5. Held \in Int /\ late \in Nat
    BY <1>0, HeldCounts DEF TypeOK
  <2>6. CASE account.mode = "custodian"
    <3>1. late' = Surplus(Held)
      BY <1>3, <2>6 DEF SaveExisting
    <3>2. QED
      BY <2>2, <2>3, <2>5, <3>1, SurplusBounds DEF SwitchIsCovered, NoAccountYet
  <2>7. CASE account.mode = "direct"
    <3>1. late' = late
      BY <1>3, <2>7 DEF SaveExisting
    <3>2. QED
      BY <2>2, <2>3, <2>7, <3>1 DEF IInv, SwitchIsCovered, NoAccountYet
  <2>8. QED
    BY <1>0, <2>1, <2>6, <2>7 DEF Account
<1>4. CASE SaveNew(s)
  <2>1. Held <= 0
    BY <1>0, <1>4, NothingHeldYet DEF IInv, NoAccountYet, SaveNew
  <2>2. Held' = Held /\ late' = late /\ late \in Nat /\ Held \in Int
    BY <1>0, <1>4, HeldCounts DEF SaveNew, Held, Paid, moneyVars, TypeOK
  <2>3. account'.mode = "direct"
    BY <1>4 DEF SaveNew
  <2>4. QED
    BY <2>1, <2>2, <2>3 DEF SwitchIsCovered, NoAccountYet
<1>5. CASE SaveDuplicate(s)
  <2>1. UNCHANGED <<account, moneyVars, late>>
    BY <1>5 DEF SaveDuplicate, Leave, historyVars
  <2>2. \A r \in Sessions : sess'[r] = sess[r] \/ sess'[r].pc = "idle"
    BY <1>0, <1>5, Moves DEF SaveDuplicate, Leave, Close, Closed
  <2>3. QED
    BY <2>1, <2>2, QuietStep DEF IInv, NoAccountYet, At, moneyVars
<1>6. QED
  BY <1>1, <1>2, <1>3, <1>4, <1>5 DEF Save

LEMMA SwitchCovered ==
    ASSUME IInv, NEW s \in Sessions, Switch(s)
    PROVE  NoAccountYet' /\ SwitchIsCovered'
<1>0. /\ TypeOK
      /\ sess \in [Sessions -> Session]
      /\ account \in Account
  BY DEF IInv, TypeOK
<1>1. CASE SwitchLoad(s)
  <2>1. PICK pc \in {"allowed", "balance"} : Become(s, [Closed EXCEPT !.pc = pc, !.loaded = account])
    BY <1>1 DEF SwitchLoad, Open
  <2>2. [Closed EXCEPT !.pc = pc, !.loaded = account].pc = pc
    BY DEF Closed
  <2>3. \A r \in Sessions : sess'[r] = sess[r] \/ sess'[r].pc \in {"allowed", "balance"}
    BY <1>0, <2>1, <2>2, Moves
  <2>4. UNCHANGED <<account, moneyVars, late>>
    BY <1>1 DEF SwitchLoad, historyVars
  <2>5. QED
    BY <2>3, <2>4, QuietStep DEF IInv, NoAccountYet, At, moneyVars
<1>2. CASE AssertCustodianEnabled(s)
  <2>1. \A r \in Sessions : sess'[r] = sess[r] \/ sess'[r].pc \in {"idle", "custodian"}
    BY <1>0, <1>2, Moves DEF AssertCustodianEnabled, Goto, Become, Close, Closed, Session
  <2>2. UNCHANGED <<account, moneyVars, late>>
    BY <1>2 DEF AssertCustodianEnabled, historyVars
  <2>3. QED
    BY <2>1, <2>2, QuietStep DEF IInv, NoAccountYet, At, moneyVars
<1>3. CASE SwitchToCustodian(s)
  <2>1. account'.mode = "custodian"
    BY <1>0, <1>3 DEF SwitchToCustodian, Account
  <2>2. \A r \in Sessions : sess'[r] = sess[r] \/ sess'[r].pc = "idle"
    BY <1>0, <1>3, Moves DEF SwitchToCustodian, Close, Closed
  <2>3. UNCHANGED <<moneyVars, late>>
    BY <1>3 DEF SwitchToCustodian
  <2>4. QED
    BY <2>1, <2>2, <2>3, QuietStep DEF NoAccountYet
<1>4. CASE CheckBalance(s)
  <2>1. UNCHANGED <<account, moneyVars, late>>
    BY <1>4 DEF CheckBalance, historyVars
  <2>2. Held' = Held
    BY <2>1 DEF Held, Paid, moneyVars
  <2>3. NoAccountYet'
    <3>1. \A r \in Sessions : sess'[r] = sess[r] \/ sess'[r].pc \in {"idle", "direct"}
      BY <1>0, <1>4, Moves DEF CheckBalance, Goto, Become, Close, Closed, Session
    <3>2. QED
      BY <2>1, <3>1 DEF IInv, NoAccountYet, At, moneyVars
  <2>4. CASE NothingOutstanding
    <3>1. Held <= 0
      BY <1>0, <2>4, HeldCounts DEF NothingOutstanding, Balance
    <3>2. Held <= late
      BY <1>0, <3>1, HeldCounts DEF TypeOK
    <3>3. QED
      BY <2>1, <2>2, <2>3, <3>2 DEF SwitchIsCovered
  <2>5. CASE ~NothingOutstanding
    <3>1. \A r \in Sessions : sess'[r] = sess[r] \/ sess'[r].pc = "idle"
      BY <1>0, <1>4, <2>5, Moves DEF CheckBalance, Close, Closed
    <3>2. QED
      BY <2>1, <2>3, <3>1, QuietStep
  <2>6. QED
    BY <2>4, <2>5
<1>5. CASE SwitchToDirect(s)
  <2>1. account'.mode = "direct"
    BY <1>0, <1>5 DEF SwitchToDirect, Account
  <2>2. Switching
    BY <1>5 DEF SwitchToDirect, Switching
  <2>3. \A r \in Sessions : sess'[r] = sess[r] \/ sess'[r].pc = "idle"
    BY <1>0, <1>5, Moves DEF SwitchToDirect, Close, Closed
  <2>4. UNCHANGED <<moneyVars, late>>
    BY <1>5 DEF SwitchToDirect
  <2>5. QED
    BY <2>1, <2>2, <2>3, <2>4, QuietStep DEF NoAccountYet
<1>6. QED
  BY <1>1, <1>2, <1>3, <1>4, <1>5 DEF Switch

LEMMA InvoiceCovered ==
    ASSUME IInv, NEW s \in Sessions, Invoice(s)
    PROVE  NoAccountYet' /\ SwitchIsCovered'
<1>0. /\ TypeOK
      /\ sess \in [Sessions -> Session]
      /\ account \in Account
  BY DEF IInv, TypeOK
<1>1. account.mode # "none"
  BY DEF Invoice, InvoiceLoad, InvoiceAccount, Migrate, MigrateFails, CreateInvoice,
         IInv, NoAccountYet, At
<1>2. account'.mode = account.mode
  BY <1>0 DEF Invoice, InvoiceLoad, InvoiceAccount, Migrate, MigrateFails, CreateInvoice, Account
<1>3. NoAccountYet'
  BY <1>1, <1>2 DEF NoAccountYet
<1>4. \A r \in Sessions : sess'[r].pc = "direct" => sess[r].pc = "direct"
  <2>1. CASE InvoiceLoad(s)
    <3>. DEFINE next == [Closed EXCEPT !.pc = "account", !.seen.enabled = GetOrCreate.enabled,
                                       !.provider = GetOrCreate.active]
    <3>1. Become(s, next)
      BY <2>1 DEF InvoiceLoad, Open
    <3>2. next.pc = "account"
      BY DEF Closed
    <3>. HIDE DEF next
    <3>3. QED
      BY <1>0, <3>1, <3>2, Moves
  <2>2. CASE InvoiceAccount(s) \/ Migrate(s) \/ MigrateFails(s)
    <3>1. sess'[s].pc \in {"issue", "migrate"} /\ \A r \in Sessions \ {s} : sess'[r] = sess[r]
      <4>0. sess[s] \in Session
        BY <1>0
      <4>1. CASE InvoiceAccount(s)
        BY <1>0, <4>0, <4>1 DEF InvoiceAccount, Become, Session
      <4>2. CASE Migrate(s)
        BY <1>0, <4>0, <4>2 DEF Migrate, Become, Session
      <4>3. CASE MigrateFails(s)
        BY <1>0, <4>0, <4>3 DEF MigrateFails, Goto, Become, Session
      <4>4. QED
        BY <2>2, <4>1, <4>2, <4>3
    <3>2. QED
      BY <3>1
  <2>3. CASE \E i \in Invoices : CreateInvoice(s, i)
    BY <1>0, <2>3, Moves DEF CreateInvoice, Close, Closed
  <2>4. QED
    BY <2>1, <2>2, <2>3 DEF Invoice
<1>5. CASE \E i \in Invoices : CreateInvoice(s, i)
  <2>1. PICK i \in Invoices : CreateInvoice(s, i)
    BY <1>5
  <2>2. Held' = Held /\ late' = late
    BY <1>0, <2>1, IssueKeepsHeld DEF CreateInvoice, historyVars
  <2>3. Switching' => Switching
    BY <1>4 DEF Switching, At
  <2>4. QED
    BY <1>2, <1>3, <2>2, <2>3 DEF IInv, SwitchIsCovered
<1>6. CASE InvoiceLoad(s) \/ InvoiceAccount(s) \/ Migrate(s) \/ MigrateFails(s)
  <2>1. UNCHANGED <<moneyVars, late>>
    BY <1>6 DEF InvoiceLoad, InvoiceAccount, Migrate, MigrateFails, historyVars
  <2>2. QED
    BY <1>2, <1>3, <1>4, <2>1, QuietStep
<1>7. QED
  BY <1>5, <1>6 DEF Invoice

\* Money that is added while the account is direct, or about to be, is recorded.
LEMMA RecordCovers ==
    ASSUME TypeOK, Record(Held + 1), Held' = Held + 1, UNCHANGED <<account, sess>>
    PROVE  SwitchIsCovered'
<1>1. Held \in Int /\ late \in Nat
  BY HeldCounts DEF TypeOK
<1>2. CASE account.mode = "direct" \/ Switching
  BY <1>1, <1>2, SurplusBounds DEF Record, SwitchIsCovered
<1>3. CASE ~(account.mode = "direct" \/ Switching)
  BY <1>3 DEF SwitchIsCovered, Switching, At
<1>4. QED
  BY <1>2, <1>3

LEMMA MoneyCovered ==
    ASSUME IInv, (\E i \in Invoices : Pay(i)) \/ Withdraw \/ PayoutReturns
    PROVE  NoAccountYet' /\ SwitchIsCovered'
<1>0. TypeOK /\ Held \in Int
  BY HeldCounts DEF IInv
<1>1. UNCHANGED <<account, sess>>
  BY DEF Pay, Withdraw, PayoutReturns
<1>2. Switching' = Switching
  BY <1>1 DEF Switching, At
<1>3. CASE \E i \in Invoices : Pay(i)
  <2>1. PICK i \in Invoices : Pay(i)
    BY <1>3
  <2>2. account.mode # "none"
    BY <2>1 DEF Pay, IInv, NoAccountYet
  <2>3. CASE bill[i] = "platform"
    BY <1>0, <1>1, <2>1, <2>2, <2>3, PayCounts, RecordCovers DEF Pay, NoAccountYet
  <2>4. CASE bill[i] # "platform"
    BY <1>0, <1>1, <1>2, <2>1, <2>2, <2>4, PayCounts DEF Pay, IInv, NoAccountYet, SwitchIsCovered
  <2>5. QED
    BY <2>3, <2>4
<1>4. CASE Withdraw
  <2>1. bill' = bill /\ late' = late
    BY <1>4 DEF Withdraw, historyVars
  <2>2. Held' = Held - 1
    <3>1. Paid("platform_paid")' = Paid("platform_paid")
      BY <2>1 DEF Paid
    <3>2. Paid("platform_paid") \in Nat /\ withdrawn \in Nat
      BY <1>0, PaidCounts DEF TypeOK
    <3>3. QED
      BY <1>4, <3>1, <3>2 DEF Withdraw, Held
  <2>3. late \in Nat
    BY <1>0 DEF TypeOK
  <2>4. SwitchIsCovered'
    BY <1>0, <1>1, <1>2, <2>1, <2>2, <2>3 DEF IInv, SwitchIsCovered
  <2>5. QED
    BY <1>1, <2>1, <2>4 DEF IInv, NoAccountYet, At
<1>5. CASE PayoutReturns
  <2>1. bill' = bill
    BY <1>5 DEF PayoutReturns
  <2>2. Held' = Held + 1
    <3>1. Paid("platform_paid")' = Paid("platform_paid")
      BY <2>1 DEF Paid
    <3>2. Paid("platform_paid") \in Nat /\ withdrawn \in Nat
      BY <1>0, PaidCounts DEF TypeOK
    <3>3. QED
      BY <1>5, <3>1, <3>2 DEF PayoutReturns, Held
  <2>3. SwitchIsCovered'
    BY <1>0, <1>1, <1>5, <2>2, RecordCovers DEF PayoutReturns
  <2>4. QED
    BY <1>1, <2>1, <2>3 DEF IInv, NoAccountYet, At
<1>6. QED
  BY <1>3, <1>4, <1>5

LEMMA CrashCovered ==
    ASSUME IInv, Crash
    PROVE  NoAccountYet' /\ SwitchIsCovered'
<1>1. \A r \in Sessions : sess'[r].pc = "idle"
  BY DEF Crash, Closed
<1>2. UNCHANGED <<account, moneyVars, late>>
  BY DEF Crash, historyVars
<1>3. QED
  BY <1>1, <1>2, QuietStep DEF IInv, NoAccountYet, At, moneyVars

LEMMA StutterCovered ==
    ASSUME IInv, UNCHANGED vars
    PROVE  NoAccountYet' /\ SwitchIsCovered'
BY DEF vars, moneyVars, historyVars, IInv, NoAccountYet, SwitchIsCovered, Switching, At, Held, Paid

LEMMA IInvInitial == Init => IInv
<1>. SUFFICES ASSUME Init PROVE IInv
  OBVIOUS
<1>1. TypeOK
  BY TypeInitial
<1>2. NoAccountYet
  BY DEF Init, NoAccountYet, Closed, At
<1>3. SwitchIsCovered
  BY <1>1, NothingHeldYet, HeldCounts DEF Init, SwitchIsCovered
<1>4. QED
  BY <1>1, <1>2, <1>3 DEF IInv

LEMMA IInvInductive == IInv /\ [Next]_vars => IInv'
<1>. SUFFICES ASSUME IInv, [Next]_vars PROVE IInv'
  OBVIOUS
<1>1. TypeOK'
  BY TypeInductive DEF IInv
<1>2. NoAccountYet' /\ SwitchIsCovered'
  BY UpdateCovered, SaveCovered, SwitchCovered, InvoiceCovered, MoneyCovered, CrashCovered,
     StutterCovered DEF Next
<1>3. QED
  BY <1>1, <1>2 DEF IInv

\* However switches, registrations, payments and payouts overlap, a direct
\* account leaves the platform with no money of the group but what came after
\* the check or was overlooked by save_direct.
THEOREM SwitchStrandsNothing == Spec => []NothingStranded
<1>1. IInv => NothingStranded
  BY DEF IInv, SwitchIsCovered, NothingStranded
<1>2. QED
  BY <1>1, IInvInitial, IInvInductive, PTL DEF Spec
=============================================================================
