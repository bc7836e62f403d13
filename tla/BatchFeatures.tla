--------------------------- MODULE BatchFeatures ---------------------------
(***************************************************************************)
(* The feature computations of spark/feature_pipeline.py and the queries   *)
(* of analytics/feature_query.py, as operators on sets of rows.            *)
(*                                                                         *)
(* Every transaction has an id.  Dates are day numbers.  An average is the *)
(* pair of its sum and its count, and a z-score is multiplied by the       *)
(* positive number count * std.                                            *)
(***************************************************************************)
EXTENDS Integers, FiniteSets, FiniteSetsExt

CONSTANT Today      \* the reference date of compute_rfm

ASSUME TodayAssumption == Today \in Nat

Of(u, rows)  == {r \in rows : r.user = u}
Users(rows)  == {r.user : r \in rows}
Amount(txns) == SumFunction([t \in txns |-> t.amount])
Average(txns) == <<Amount(txns), Cardinality(txns)>>

(* What generate_transactions returns: the id of a transaction is its      *)
(* number in a range, its date some days before today, and its amount is   *)
(* rounded to the cent.                                                    *)
IsSample(txns) ==
    /\ IsFiniteSet(txns)
    /\ \A t, x \in txns : t.id = x.id => t = x
    /\ \A t \in txns : t.day \in Int /\ t.amount \in Int

-----------------------------------------------------------------------------
(* A faulty variant of the join below. *)

UserAndDate(r) == <<r.user, r.day>>              \* the join drops txn_id

-----------------------------------------------------------------------------
(* compute_rolling_7d_spend: a range window that includes both its ends,   *)
(* the transaction's date and the one seven days before it.                *)
RollingTable(txns) ==
    {[user |-> t.user, txn |-> t.id, day |-> t.day,
      rolling |-> Average({x \in Of(t.user, txns) : t.day - 7 <= x.day /\ x.day <= t.day})]
        : t \in txns}

(* compute_anomaly_scores: zero where a user's amounts are all the same.   *)
AnomalyTable(txns) ==
    {[user |-> t.user, txn |-> t.id, day |-> t.day,
      anomaly |-> Cardinality(Of(t.user, txns)) * t.amount - Amount(Of(t.user, txns))]
        : t \in txns}

(* compute_merchant_category_features: the most frequent category of each  *)
(* user; row_number breaks a tie as it likes, hence a set of tables.       *)
CategoryCount(u, c, txns) == Cardinality({t \in Of(u, txns) : t.category = c})
CategoryTables(txns) ==
    LET Candidates == {[user |-> t.user, category |-> t.category,
                        count |-> CategoryCount(t.user, t.category, txns)] : t \in txns}
        Best == {r \in Candidates : \A s \in Of(r.user, Candidates) : s.count <= r.count}
    IN {table \in SUBSET Best : \A u \in Users(Best) : Cardinality(Of(u, table)) = 1}

(* compute_rfm                                                             *)
RfmTable(txns) ==
    {[user |-> u, recency |-> Today - Max({t.day : t \in Of(u, txns)}),
      frequency |-> Cardinality(Of(u, txns)), monetary |-> Amount(Of(u, txns))]
        : u \in Users(txns)}

(* The wide table of run_pipeline.                                         *)
JoinKey(r) == <<r.user, r.txn, r.day>>
WideTable(txns, categories) ==
    UNION {{[user |-> r.user, txn |-> r.txn, day |-> r.day, rolling |-> r.rolling,
             anomaly |-> a.anomaly, category |-> c.category, count |-> c.count,
             recency |-> m.recency, frequency |-> m.frequency, monetary |-> m.monetary]
               : a \in {x \in AnomalyTable(txns) : JoinKey(x) = JoinKey(r)},
                 c \in Of(r.user, categories), m \in Of(r.user, RfmTable(txns))}
           : r \in RollingTable(txns)}

-----------------------------------------------------------------------------
(* get_user_features: {} for an unknown user, and one vector otherwise.    *)
UserFeatures(u, table) ==
    LET rows == Of(u, table) IN
    IF rows = {} THEN {}
    ELSE {[rolling |-> {<<r.txn, r.rolling>> : r \in rows},   \* what AVG averages
           anomaly |-> SumFunction([r \in rows |-> r.anomaly]),
           recency |-> Max({r.recency : r \in rows}),
           frequency |-> Max({r.frequency : r \in rows}),
           monetary |-> Max({r.monetary : r \in rows}),
           count |-> Max({r.count : r \in rows})]}

(* get_top_k_users by monetary, largest first: the sets of users it may    *)
(* answer with.                                                            *)
Monetary(u, table) == Max({r.monetary : r \in Of(u, table)})
TopUsers(k, table) ==
    {us \in SUBSET Users(table) :
        /\ Cardinality(us) = (IF k < Cardinality(Users(table)) THEN k
                              ELSE Cardinality(Users(table)))
        /\ \A u \in us, v \in Users(table) \ us : Monetary(u, table) >= Monetary(v, table)}

(* feature_drift_summary of a column, and the statistics of a snapshot:    *)
(* over rows, so that a user counts once for each transaction.             *)
Summary(table) ==
    IF table = {} THEN {}
    ELSE {[mean |-> <<SumFunction([r \in table |-> r.monetary]), Cardinality(table)>>,
           min |-> Min({r.monetary : r \in table}),
           max |-> Max({r.monetary : r \in table})]}
=============================================================================
