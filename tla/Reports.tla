------------------------------- MODULE Reports -------------------------------
(***************************************************************************)
(* What the screens, the export, the reminders and the analytics read from *)
(* the contribution rows of one purse.  Every one of them is a query of    *)
(* its own over the same table, written with its own list of statuses, and *)
(* several say in a comment that they mirror another: this module defines  *)
(* each query over the state of Contributions and states how they agree.   *)
(***************************************************************************)
EXTENDS Contributions

IsOpen == purse # "closed"

Having(statuses) == {c \in Contribs : row[c].status \in statuses}

Received(S) == MapThenSumSet(LAMBDA c : row[c].amount_received, S)

-----------------------------------------------------------------------------
(* The purse's own screens                                                 *)

\* compute_display_status: the badge of a row.
DisplayStatus(c) ==
    CASE ~IsOpen /\ row[c].status = "PENDING" -> "closed"
      [] IsOpen /\ row[c].status = "EXPIRED"  -> "PENDING"
      [] OTHER -> row[c].status

Displayed(status) == {c \in Contribs : DisplayStatus(c) = status}

\* list_for_purse: the table behind a status filter.
ExactFilter(status) == Having({status}) \* mutant: lapsed rows vanish from the "pending" tab

ListForPurse(status) ==
    IF status = "PENDING" /\ IsOpen THEN Having(Unpaid) ELSE Having({status})

\* list_all_for_purse and _report_rows: the export has every row, as displayed.
ReportRows ==
    {[member |-> c, status |-> DisplayStatus(c), received |-> row[c].amount_received] : c \in Contribs}

\* summary_for_purse: the purse's progress card.
Summary ==
    LET online == Received(Having({"PAID"}))
        cash   == Received(Having({"PAID_MANUAL"}))
    IN
    [paid_count    |-> Cardinality(Having(Resolved)),
     pending_count |-> Cardinality(Having(IF IsOpen THEN Unpaid ELSE {"PENDING"})),
     expired_count |-> IF IsOpen THEN 0 ELSE Cardinality(Having({"EXPIRED"})),
     flagged_count |-> Cardinality(Having({"FLAGGED_FOR_REVIEW"})),
     collected_via_kontributa |-> online,
     collected_manually       |-> cash,
     total_collected |-> online + cash]

-----------------------------------------------------------------------------
(* The lists of purses, the dashboard, the balance                         *)

\* counts_for_purses
CountsForPurses == [paid |-> Cardinality(Having(Resolved)), total |-> Cardinality(Contribs)]

\* collected_totals_for_purses
CollectedTotals == Received(Having(Resolved))

\* get_me: collected across the open purses of the group.
DashboardCollected == IF IsOpen THEN Received(Having(Resolved)) ELSE 0

CashIsPayable == Received(Having(Resolved)) \* mutant: cash inflates the balance

\* _collected_total, what a payout may be drawn from: no cash.
PayableCollected == Received(Having({"PAID"}))

-----------------------------------------------------------------------------
(* Reminders and the platform's backlog                                    *)

\* send_purse_reminders: who gets an email.
Reminded == Having({"PENDING"})

\* list_flagged_contributions and get_needs_attention's backlog count.
FlaggedBacklog == Having({"FLAGGED_FOR_REVIEW"})

TransitionsTo(c, status) == Cardinality({k \in 1 .. Len(events[c]) : events[c][k][2] = status})

\* flagged_backlog_trend compares two counts of the transitions to flagged.
NewFlags(c) == TransitionsTo(c, "FLAGGED_FOR_REVIEW")

\* webhook_rescue_rate counts transitions to PAID of rows that are PAID.
TransitionsToPaid(c) == TransitionsTo(c, "PAID")

\* "Contributions whose invoice was ever generated": those that carry one now.
Invoiced == {c \in Contribs : row[c].invoice_id # NoInvoice}

\* get_overview's conversion_rate is the ratio of these two counts.
Conversion ==
    [paid |-> Cardinality(Having({"PAID"}) \cap Invoiced), invoiced |-> Cardinality(Invoiced)]

\* get_provider_split: the rows of a group go to the provider that the group's
\* account names today, whichever issued their invoices.
ProviderSplit(current) ==
    [provider \in {"monnify", "paystack"} |->
        LET rows == IF provider = current THEN Contribs ELSE {} IN
        [volume   |-> Received(rows \cap Having(Resolved)),
         paid     |-> Cardinality(rows \cap Invoiced \cap Having({"PAID"})),
         invoiced |-> Cardinality(rows \cap Invoiced)]]

-----------------------------------------------------------------------------
(* The trends: a window of days ending now, cut into buckets.  Time counts  *)
(* half days from the start of the window; the last bucket is stretched by  *)
(* one tick (a second, in the code) so that it holds a row dated now.       *)

Day == 2
Periods == {7, 30, 90}
Now(days) == days * Day
BucketDays(days) == IF days <= 7 THEN 1 ELSE 7

Buckets(days) ==
    LET width  == BucketDays(days) * Day
        starts == {t \in 0 .. Now(days) - 1 : t % width = 0}
    IN  {[from |-> t,
          to   |-> IF t + width >= Now(days) THEN Now(days) + 1 ELSE t + width] : t \in starts}

\* The rows the trend's query returns, and their sum: the overview's figure.
InWindow(days, dated) == {d \in dated : d.at >= 0 /\ d.at <= Now(days)}
WindowTotal(days, dated) == MapThenSumSet(LAMBDA d : d.amount, InWindow(days, dated))

\* get_revenue_trend and get_growth_trend.
Trend(days, dated) ==
    [b \in Buckets(days) |->
        MapThenSumSet(LAMBDA d : d.amount,
                      {d \in InWindow(days, dated) : b.from <= d.at /\ d.at < b.to})]

-----------------------------------------------------------------------------
(* How the views agree                                                     *)

\* The bars of a trend add up to the window's total: no row falls between two
\* buckets, in two of them, or off the end.
TrendAddsUp ==
    \A days \in Periods : \A t \in 0 - Day .. Now(days) :
        LET dated == {[at |-> t, amount |-> 2], [at |-> Now(days), amount |-> 3]}
            trend == Trend(days, dated)
        IN  MapThenSumSet(LAMBDA b : trend[b], Buckets(days)) = WindowTotal(days, dated)

\* The summary puts every row in exactly one bucket, and each bucket counts the
\* rows that carry that badge (on a closed purse an unpaid row's badge is "closed").
SummaryMatchesBadges ==
    LET summary == Summary
        pending == IF IsOpen THEN "PENDING" ELSE "closed"
    IN  /\ summary.paid_count + summary.pending_count + summary.expired_count
             + summary.flagged_count = Cardinality(Contribs)
        /\ summary.paid_count = Cardinality(Displayed("PAID") \cup Displayed("PAID_MANUAL"))
        /\ summary.pending_count = Cardinality(Displayed(pending))
        /\ summary.expired_count = Cardinality(Displayed("EXPIRED"))
        /\ summary.flagged_count = Cardinality(FlaggedBacklog)

\* On an open purse no row is missing from the tab its badge names, the "pending"
\* tab has nothing else, and whoever is reminded finds a row there to pay.  (A
\* lapsed row is also listed when EXPIRED is asked for.)
TabsMatchBadges ==
    IsOpen => /\ \A status \in Status : Displayed(status) \subseteq ListForPurse(status)
              /\ ListForPurse("PENDING") = Displayed("PENDING")
              /\ Reminded \subseteq ListForPurse("PENDING")

\* The figures for collected money are the same number on every screen, and the
\* report's rows add up to the total in its heading.
TotalsMatch ==
    LET summary == Summary
        total == CollectedTotals
        paidRows == {r \in ReportRows : r.status \in Resolved}
    IN  /\ summary.total_collected = total
        /\ IsOpen => DashboardCollected = total
        /\ MapThenSumSet(LAMBDA r : r.received, paidRows) = total
        /\ PayableCollected = summary.collected_via_kontributa
        /\ CountsForPurses.paid = summary.paid_count

\* No online payment is missing from a rate: each paid row still counts as
\* invoiced, entered PAID once, so that no rate is above 100%, and each flagged
\* row shows in the trend; the providers' shares add up to the whole.
RatesAreWhole ==
    /\ Conversion.paid = Cardinality(Having({"PAID"}))
    /\ \A c \in Having({"PAID"}) : TransitionsToPaid(c) = 1
    /\ \A c \in FlaggedBacklog : NewFlags(c) >= 1
    /\ \A current \in {"monnify", "paystack"} :
          LET split == ProviderSplit(current)
              monnify == split["monnify"]
              paystack == split["paystack"]
          IN  /\ monnify.volume + paystack.volume = CollectedTotals
              /\ [paid     |-> monnify.paid + paystack.paid,
                  invoiced |-> monnify.invoiced + paystack.invoiced] = Conversion

\* Whatever path a row took, all views of the purse tell the same story: badges,
\* tabs, summary, totals, report, backlog, rates and trends.
ViewsAgree ==
    /\ SummaryMatchesBadges
    /\ TabsMatchBadges
    /\ TotalsMatch
    /\ RatesAreWhole
    /\ TrendAddsUp

\* What counts as collected through the platform, and may be paid out, is money
\* a provider confirmed: cash recorded by an admin never enters it, whatever the
\* row went through before (summary_for_purse, _collected_total).
CollectedIsReal ==
    /\ Summary.collected_via_kontributa = MapThenSumSet(Credits, Having({"PAID"}))
    /\ PayableCollected <= MapThenSumSet(LAMBDA i : bill[i].paid, Invoices)
=============================================================================
