---------------------------- MODULE RevisionsProofs ----------------------------
(***************************************************************************)
(* Proofs about Revisions for every history of upstream, any number of     *)
(* versions and syncers: types, and that verdicts are given on the newest  *)
(* row, against the newest approved one, with a review that justifies them *)
(* and never without an earlier human approval, and are never changed.     *)
(***************************************************************************)
EXTENDS Revisions, SequenceTheorems, WellFoundedInduction, TLAPS

Kinds == {"reuse", "lows", "high", "human"}
Row == [v : Versions, st : Open \cup Final, baseline : Nat, favour : SUBSET Kinds]

-----------------------------------------------------------------------------
(* Rows and their indices. *)

\* A set of numbers that is not empty has a least one.
LEMMA Minimum ==
  ASSUME NEW S \in SUBSET Nat, S # {}
  PROVE  \E i \in S : \A j \in S : i <= j
<1>1. PICK t \in S : \A y \in S : ~ (<<y, t>> \in OpToRel(<, Nat))
  BY NatLessThanWellFounded, WFMin
<1>2. \A y \in S : ~ (y < t)
  BY <1>1 DEF OpToRel
<1>3. QED
  BY <1>2

\* A set of indices that is not empty has a greatest element.
LEMMA Maximum ==
  ASSUME NEW n \in Nat, NEW S \in SUBSET (1 .. n), S # {}
  PROVE  \E i \in S : \A j \in S : j <= i
<1> DEFINE T == {n - i : i \in S}
<1>1. \A i \in S : i \in Nat /\ n - i \in Nat
  OBVIOUS
<1>2. T \subseteq Nat /\ T # {}
  BY <1>1
<1>3. PICK t \in T : \A y \in T : t <= y
  BY <1>2, Minimum
<1>4. PICK i \in S : t = n - i
  OBVIOUS
<1>5. \A j \in S : n - i <= n - j
  BY <1>3, <1>4
<1>6. \A j \in S : j <= i
  BY <1>1, <1>5
<1>7. QED
  BY <1>6

\* Newest picks a member of a set of rows, or says that there is none.
LEMMA NewestIn ==
  ASSUME Len(rows) \in Nat, NEW S \in SUBSET Indices
  PROVE  /\ Newest(S) \in Nat
         /\ Newest(S) # 0 => Newest(S) \in S
         /\ S # {} => Newest(S) \in S
<1>1. CASE S = {}
  BY <1>1 DEF Newest
<1>2. CASE S # {}
  <2>1. \E i \in S : \A j \in S : j <= i
    BY <1>2, Maximum DEF Indices
  <2>2. Newest(S) = CHOOSE i \in S : \A j \in S : j <= i
    BY <1>2 DEF Newest
  <2>3. Newest(S) \in S
    BY <2>1, <2>2
  <2>4. S \subseteq Nat
    BY DEF Indices
  <2>5. QED
    BY <1>2, <2>3, <2>4
<1>3. QED
  BY <1>1, <1>2

\* What it means for rows to have its type.
LEMMA RowsType ==
  ASSUME rows \in Seq(Row)
  PROVE  Len(rows) \in Nat /\ \A i \in Indices : rows[i] \in Row
  BY LenProperties, ElementOfSeq DEF Indices

\* A step that writes one row.
LEMMA Written ==
  ASSUME rows \in Seq(Row), NEW i \in Indices, NEW r \in Row,
         rows' = [rows EXCEPT ![i] = r]
  PROVE  /\ rows' \in Seq(Row) /\ Len(rows') = Len(rows) /\ Indices' = Indices
         /\ rows'[i] = r
         /\ \A j \in Indices : j # i => rows'[j] = rows[j]
  BY ExceptSeq DEF Indices

\* The transaction of insert_revision: what was open is superseded and one row
\* is added.
LEMMA Inserted ==
  ASSUME rows \in Seq(Row), NEW r \in Row, rows' = Append(Superseded, r)
  PROVE  /\ rows' \in Seq(Row) /\ Len(rows') = Len(rows) + 1
         /\ Indices' = Indices \cup {Len(rows) + 1} /\ Len(rows) + 1 \notin Indices
         /\ rows'[Len(rows) + 1] = r
         /\ \A j \in Indices :
              rows'[j] = IF rows[j].st \in Open THEN [rows[j] EXCEPT !.st = "superseded"]
                                                ELSE rows[j]
<1>1. Len(rows) \in Nat /\ \A i \in Indices : rows[i] \in Row
  BY RowsType
<1>2. \A i \in 1 .. Len(rows) : Superseded[i] \in Row
  BY <1>1 DEF Superseded, Indices, Row, Final
<1>3. Superseded \in [1 .. Len(rows) -> Row]
  BY <1>2 DEF Superseded, Indices
<1>4. Superseded \in Seq(Row) /\ Len(Superseded) = Len(rows)
  BY <1>1, <1>3
<1>5. /\ rows' \in Seq(Row) /\ Len(rows') = Len(rows) + 1
      /\ \A i \in 1 .. Len(rows) : rows'[i] = Superseded[i]
      /\ rows'[Len(rows) + 1] = r
  BY <1>4, AppendProperties
<1>6. Indices' = Indices \cup {Len(rows) + 1} /\ Len(rows) + 1 \notin Indices
  BY <1>1, <1>5 DEF Indices
<1>7. QED
  BY <1>5, <1>6 DEF Superseded, Indices

-----------------------------------------------------------------------------
(* The inductive invariant. *)

\* Where a syncer may be.
Steps == {"idle", "subscribe", "subscribed", "lookup", "cache", "select", "vcs",
          "fetch", "insert"}

\* Where it has an answer of AUR, or a snapshot, that it will still use.
Holds(l) == l \in {"subscribe", "cache", "select", "insert"}

\* A syncer that goes on with what it fetched has a version in hand.  The review
\* loop works on a row of the table; once it is about to conclude in favour, an agent's approval is
\* among the reviews of that row.
InHand ==
  /\ \A s \in Syncers : Holds(spc[s]) => got[s] \in Versions
  /\ rpc # "idle" => row \in Indices
  /\ rpc = "outcome" /\ opinion => rows[row].favour \cap {"lows", "high"} # {}

Table == OnlyNewestOpen /\ BaselineIsNewest /\ HumanFirst /\ ApprovalJustified

\* Writing one row keeps the table in order: what is final stays, nothing is
\* opened again, no human approval is deleted, and an approval has its reason.
LEMMA WriteKeepsTable ==
  ASSUME rows \in Seq(Row), Table, NEW i \in Indices, NEW r \in Row,
         rows' = [rows EXCEPT ![i] = r],
         r.baseline = rows[i].baseline,
         rows[i].st \in Final => r.st = rows[i].st,
         "human" \in rows[i].favour => "human" \in r.favour,
         r.st = "approved" =>
           \/ "human" \in r.favour
           \/ "reuse" \in r.favour /\ rows[i].st = "approved"
           \/ r.baseline # 0 /\ r.favour \cap {"lows", "high"} # {}
  PROVE  Table'
<1>1. /\ Len(rows') = Len(rows) /\ Indices' = Indices
      /\ rows'[i] = r
      /\ \A j \in Indices : j # i => rows'[j] = rows[j]
  BY Written
<1>2. Len(rows) \in Nat /\ \A j \in Indices : rows[j] \in Row
  BY RowsType
<1>3. Open \cap Final = {} /\ "approved" \in Final
  BY DEF Open, Final
<1>4. \A j \in Indices : rows'[j].st \in Open => rows[j].st \in Open
  BY <1>1, <1>2, <1>3 DEF Row
<1>5. OnlyNewestOpen'
  BY <1>1, <1>4 DEF Table, OnlyNewestOpen, In
<1>6. BaselineIsNewest'
  <2>1. SUFFICES ASSUME NEW k \in Indices, rows'[k].st \in Open
                 PROVE  rows'[k].baseline = Newest(In({"approved"})')
    BY <1>1 DEF BaselineIsNewest, In, Newest
  <2>2. rows[k].st \in Open /\ k = Len(rows)
    BY <2>1, <1>4 DEF Table, OnlyNewestOpen, In
  <2>3. rows[k].baseline = Newest(In({"approved"}))
    BY <2>2 DEF Table, BaselineIsNewest, In
  <2>4. \A j \in Indices : rows'[j].st = "approved" <=> rows[j].st = "approved"
    <3>1. ASSUME NEW j \in Indices, j # i
          PROVE  rows'[j].st = "approved" <=> rows[j].st = "approved"
      BY <3>1, <1>1
    <3>2. CASE i = k
      BY <3>1, <3>2, <2>1, <2>2, <1>1, <1>3
    <3>3. CASE i # k
      <4>1. rows[i].st \notin Open
        BY <3>3, <2>2 DEF Table, OnlyNewestOpen, In
      <4>2. rows[i].st \in Final
        BY <4>1, <1>2 DEF Row
      <4>3. QED
        BY <3>1, <4>2, <1>1
    <3>4. QED
      BY <3>2, <3>3
  <2>5. In({"approved"})' = In({"approved"})
    BY <2>4, <1>1 DEF In
  <2>6. QED
    BY <2>3, <2>5, <1>1
<1>7. HumanFirst'
  <2>1. SUFFICES ASSUME NEW k \in Indices, rows'[k].st = "approved"
                 PROVE  \E j \in Indices : /\ rows'[j].st = "approved" /\ j <= k
                                          /\ "human" \in rows'[j].favour
    BY <1>1 DEF HumanFirst, In
  <2>2. ASSUME NEW l \in Indices, rows[l].st = "approved", l <= k
        PROVE  \E j \in Indices : /\ rows'[j].st = "approved" /\ j <= k
                                 /\ "human" \in rows'[j].favour
    <3>1. PICK j \in Indices : /\ rows[j].st = "approved" /\ j <= l
                              /\ "human" \in rows[j].favour
      BY <2>2 DEF Table, HumanFirst, In
    <3>2. rows'[j].st = "approved" /\ "human" \in rows'[j].favour
      BY <3>1, <1>1, <1>3
    <3>3. j <= k
      BY <3>1, <2>2, <1>2 DEF Indices
    <3>4. QED
      BY <3>2, <3>3
  <2>3. CASE rows[k].st = "approved"
    BY <2>2, <2>3, <1>2 DEF Indices
  <2>4. CASE rows[k].st # "approved"
    <3>1. k = i /\ rows[i].st \in Open
      BY <2>1, <2>4, <1>1, <1>2 DEF Row
    <3>2. CASE "human" \in r.favour
      BY <3>1, <3>2, <2>1, <1>1, <1>2 DEF Indices
    <3>3. CASE "human" \notin r.favour
      <4>1. rows[i].baseline # 0
        BY <3>1, <3>3, <2>1, <2>4, <1>1
      <4>2. rows[i].baseline = Newest(In({"approved"}))
        BY <3>1 DEF Table, BaselineIsNewest, In
      <4>3. Newest(In({"approved"})) \in In({"approved"})
        BY <4>1, <4>2, <1>2, NewestIn DEF In
      <4>4. PICK l \in Indices : rows[l].st = "approved"
        BY <4>3 DEF In
      <4>5. k = Len(rows)
        BY <3>1 DEF Table, OnlyNewestOpen, In
      <4>6. QED
        BY <4>4, <4>5, <2>2, <1>2 DEF Indices
    <3>4. QED
      BY <3>2, <3>3
  <2>5. QED
    BY <2>3, <2>4
<1>8. ApprovalJustified'
  <2>1. SUFFICES ASSUME NEW k \in Indices, rows'[k].st = "approved"
                 PROVE  \/ "human" \in rows'[k].favour
                        \/ "reuse" \in rows'[k].favour
                        \/ /\ rows'[k].baseline # 0
                           /\ rows'[k].favour \cap {"lows", "high"} # {}
    BY <1>1 DEF ApprovalJustified, In
  <2>2. CASE k = i
    BY <2>1, <2>2, <1>1
  <2>3. CASE k # i
    BY <2>1, <2>3, <1>1 DEF Table, ApprovalJustified, In
  <2>4. QED
    BY <2>2, <2>3
<1>9. QED
  BY <1>5, <1>6, <1>7, <1>8 DEF Table

\* Inserting a row keeps the table in order.
LEMMA InsertKeepsTable ==
  ASSUME rows \in Seq(Row), Table, NEW v \in Versions, NEW blocked \in BOOLEAN,
         rows' = Append(Superseded, NewRow(v, blocked))
  PROVE  /\ rows' \in Seq(Row) /\ Indices \subseteq Indices'
         /\ \A j \in Indices : rows'[j].favour = rows[j].favour
         /\ \A j \in In(Final) : rows'[j].st = rows[j].st
         /\ Table'
<1> DEFINE new == NewRow(v, blocked)
           n == Len(rows) + 1
<1>1. Len(rows) \in Nat /\ \A j \in Indices : rows[j] \in Row
  BY RowsType
<1>2. Newest(In({"approved"})) \in Nat
  BY <1>1, NewestIn DEF In
<1>3. new \in Row
  BY <1>2 DEF NewRow, Row, Kinds, Open, Final
<1>4. /\ rows' \in Seq(Row) /\ Len(rows') = n
      /\ Indices' = Indices \cup {n} /\ n \notin Indices
      /\ rows'[n] = new
      /\ \A j \in Indices :
           rows'[j] = IF rows[j].st \in Open THEN [rows[j] EXCEPT !.st = "superseded"]
                                             ELSE rows[j]
  BY <1>3, Inserted
<1>5. \A j \in Indices : /\ rows'[j].favour = rows[j].favour
                         /\ rows'[j].baseline = rows[j].baseline
                         /\ rows'[j].st \notin Open
                         /\ rows'[j].st = "approved" <=> rows[j].st = "approved"
  BY <1>1, <1>4 DEF Row, Open
<1>6. OnlyNewestOpen'
  BY <1>4, <1>5 DEF OnlyNewestOpen, In
<1>7. BaselineIsNewest'
  <2>1. SUFFICES ASSUME new.st \in Open
                 PROVE  new.baseline = Newest(In({"approved"})')
    <3>1. \A k \in Indices' : rows'[k].st \in Open => k = n /\ rows'[k] = new
      BY <1>4, <1>5
    <3>2. Newest(In({"approved"}))' = Newest(In({"approved"})')
      BY DEF Newest
    <3>3. QED
      BY <2>1, <3>1, <3>2 DEF BaselineIsNewest, In
  <2>2. new.st # "approved"
    BY <2>1 DEF Open
  <2>3. In({"approved"})' = In({"approved"})
    BY <2>2, <1>4, <1>5 DEF In
  <2>4. QED
    BY <2>3 DEF NewRow
<1>8. HumanFirst'
  <2>1. SUFFICES ASSUME NEW k \in Indices', rows'[k].st = "approved"
                 PROVE  \E j \in Indices' : /\ rows'[j].st = "approved" /\ j <= k
                                           /\ "human" \in rows'[j].favour
    BY DEF HumanFirst, In
  <2>2. ASSUME NEW l \in Indices, rows[l].st = "approved", l <= k
        PROVE  \E j \in Indices' : /\ rows'[j].st = "approved" /\ j <= k
                                  /\ "human" \in rows'[j].favour
    <3>1. PICK j \in Indices : /\ rows[j].st = "approved" /\ j <= l
                              /\ "human" \in rows[j].favour
      BY <2>2 DEF Table, HumanFirst, In
    <3>2. j \in Indices' /\ rows'[j].st = "approved" /\ "human" \in rows'[j].favour
      BY <3>1, <1>4, <1>5
    <3>3. j <= k
      BY <3>1, <2>2, <1>1, <1>4 DEF Indices
    <3>4. QED
      BY <3>2, <3>3
  <2>3. CASE k \in Indices
    BY <2>1, <2>2, <2>3, <1>1, <1>5 DEF Indices
  <2>4. CASE k = n
    <3>1. new.st = "approved"
      BY <2>1, <2>4, <1>4
    <3>2. Reusable(v) # {}
      BY <3>1 DEF NewRow
    <3>3. PICK l \in Indices : rows[l].st = "approved"
      BY <3>2 DEF Reusable, In
    <3>4. QED
      BY <3>3, <2>2, <2>4, <1>1, SMTT(30) DEF Indices
  <2>5. QED
    BY <2>3, <2>4, <1>4
<1>9. ApprovalJustified'
  <2>1. new.st = "approved" => "reuse" \in new.favour
    BY DEF NewRow
  <2>2. QED
    BY <2>1, <1>4, <1>5 DEF Table, ApprovalJustified, In
<1>10. \A j \in In(Final) : rows'[j].st = rows[j].st
  BY <1>4 DEF In, Open, Final
<1>11. QED
  BY <1>4, <1>5, <1>6, <1>7, <1>8, <1>9, <1>10 DEF Table

-----------------------------------------------------------------------------
(* What each action does to the table. *)

Inv == TypeOK /\ Table /\ InHand

\* A step keeps the table in order, and what is final as it is.
Kept ==
  /\ rows' \in Seq(Row) /\ Indices \subseteq Indices' /\ Table'
  /\ \A i \in In(Final) : rows'[i].st = rows[i].st

\* It deletes no review.
Grown == \A i \in Indices : rows[i].favour \subseteq rows'[i].favour

\* The rows have their type, and so has a row with another state or favour.
LEMMA Rows ==
  ASSUME Inv
  PROVE  /\ rows \in Seq(Row) /\ Len(rows) \in Nat
         /\ \A i \in Indices : rows[i] \in Row
         /\ \A i \in Indices, st \in Open \cup Final : [rows[i] EXCEPT !.st = st] \in Row
         /\ \A i \in Indices, f \in SUBSET Kinds : [rows[i] EXCEPT !.favour = f] \in Row
<1>1. rows \in Seq(Row)
  BY DEF Inv, TypeOK, Row, Kinds
<1>2. Len(rows) \in Nat /\ \A i \in Indices : rows[i] \in Row
  BY <1>1, RowsType
<1>3. QED
  BY <1>1, <1>2 DEF Row

\* A step that leaves the rows alone.
LEMMA Idle ==
  ASSUME Inv, rows' = rows
  PROVE  Kept /\ Grown /\ Indices' = Indices
<1>1. Indices' = Indices /\ Table'
  BY DEF Inv, Indices, Table, OnlyNewestOpen, BaselineIsNewest, HumanFirst,
         ApprovalJustified, In, Newest
<1>2. QED
  BY <1>1, Rows DEF Kept, Grown

\* A step that gives an open row another state, and approves it only if it is
\* justified.
LEMMA SetStateKeeps ==
  ASSUME Inv, NEW i \in Indices, NEW st \in Open \cup Final, SetState(i, st),
         rows[i].st \in Open,
         st = "approved" => rows[i].baseline # 0 /\ rows[i].favour \cap {"lows", "high"} # {}
  PROVE  Kept /\ Grown /\ Indices' = Indices
<1> DEFINE r == [rows[i] EXCEPT !.st = st]
<1>1. /\ rows \in Seq(Row) /\ r \in Row /\ rows[i] \in Row
      /\ rows' = [rows EXCEPT ![i] = r]
  BY Rows DEF SetState
<1>2. r.baseline = rows[i].baseline /\ r.favour = rows[i].favour /\ r.st = st
  BY <1>1 DEF Row
<1>3. rows[i].st \notin Final
  BY DEF Open, Final
<1>4. Table
  BY DEF Inv
<1>5. Table'
  BY <1>1, <1>2, <1>3, <1>4, WriteKeepsTable
<1>6. /\ rows' \in Seq(Row) /\ Indices' = Indices /\ rows'[i] = r
      /\ \A j \in Indices : j # i => rows'[j] = rows[j]
  BY <1>1, Written
<1>7. QED
  BY <1>2, <1>3, <1>5, <1>6 DEF Kept, Grown, In

\* A step that records a review in favour of a row.
LEMMA FavourKeeps ==
  ASSUME Inv, NEW i \in Indices, NEW kind \in Kinds, Favour(i, kind)
  PROVE  Kept /\ Grown /\ Indices' = Indices /\ kind \in rows'[i].favour
<1> DEFINE r == [rows[i] EXCEPT !.favour = @ \cup {kind}]
<1>1. rows \in Seq(Row) /\ rows[i] \in Row /\ rows' = [rows EXCEPT ![i] = r]
  BY Rows DEF Favour
<1>2. rows[i].favour \cup {kind} \in SUBSET Kinds
  BY <1>1 DEF Row
<1>3. r \in Row
  BY <1>2, Rows
<1>4. /\ r.baseline = rows[i].baseline /\ r.st = rows[i].st
      /\ r.favour = rows[i].favour \cup {kind}
  BY <1>1 DEF Row
<1>5. r.st = "approved" => \/ "human" \in rows[i].favour
                           \/ "reuse" \in rows[i].favour
                           \/ /\ rows[i].baseline # 0
                              /\ rows[i].favour \cap {"lows", "high"} # {}
  BY <1>4 DEF Inv, Table, ApprovalJustified, In
<1>6. r.st = "approved" => \/ "human" \in r.favour
                           \/ "reuse" \in r.favour /\ rows[i].st = "approved"
                           \/ r.baseline # 0 /\ r.favour \cap {"lows", "high"} # {}
  BY <1>4, <1>5
<1>7. Table
  BY DEF Inv
<1>8. Table'
  BY <1>1, <1>3, <1>4, <1>6, <1>7, WriteKeepsTable
<1>9. /\ rows' \in Seq(Row) /\ Indices' = Indices /\ rows'[i] = r
      /\ \A j \in Indices : j # i => rows'[j] = rows[j]
  BY <1>1, <1>3, Written
<1>10. QED
  BY <1>4, <1>8, <1>9 DEF Kept, Grown, In

\* TakeRow deletes the agents' reviews of a row that is still open.
LEMMA TakeKeeps ==
  ASSUME Inv, NEW i \in In({"pending_review"}),
         rows' = [rows EXCEPT ![i].favour = @ \ {"lows", "high"}]
  PROVE  Kept /\ Indices' = Indices
<1> DEFINE r == [rows[i] EXCEPT !.favour = @ \ {"lows", "high"}]
<1>1. /\ i \in Indices /\ rows[i].st = "pending_review"
      /\ rows \in Seq(Row) /\ rows[i] \in Row /\ rows' = [rows EXCEPT ![i] = r]
  BY Rows DEF In
<1>2. rows[i].favour \ {"lows", "high"} \in SUBSET Kinds
  BY <1>1 DEF Row
<1>3. r \in Row
  BY <1>1, <1>2, Rows
<1>4. /\ r.baseline = rows[i].baseline /\ r.st = rows[i].st
      /\ r.favour = rows[i].favour \ {"lows", "high"}
  BY <1>1 DEF Row
<1>5. Table
  BY DEF Inv
<1>6. Table'
  BY <1>1, <1>3, <1>4, <1>5, WriteKeepsTable
<1>7. /\ rows' \in Seq(Row) /\ Indices' = Indices /\ rows'[i] = r
      /\ \A j \in Indices : j # i => rows'[j] = rows[j]
  BY <1>1, <1>3, Written
<1>8. QED
  BY <1>4, <1>6, <1>7 DEF Kept, In

\* The administrator's verdict on a row that waits for one.
LEMMA DecideManuallyKeeps ==
  ASSUME Inv, NEW i \in Indices, NEW approve \in BOOLEAN, DecideManually(i, approve)
  PROVE  Kept /\ Grown /\ Indices' = Indices
<1> DEFINE f == IF approve THEN rows[i].favour \cup {"human"} ELSE rows[i].favour
           st == IF approve THEN "approved" ELSE "rejected"
           r == [[rows[i] EXCEPT !.st = st] EXCEPT !.favour = f]
<1>1. rows \in Seq(Row) /\ rows[i] \in Row /\ rows[i].st = "manual_review"
  BY Rows DEF DecideManually
<1>2. f \in SUBSET Kinds /\ st \in Open \cup Final
  BY <1>1 DEF Row, Kinds, Final
<1>3. /\ r \in Row /\ r.st = st /\ r.favour = f
      /\ r.baseline = rows[i].baseline
  BY <1>1, <1>2 DEF Row
<1>4. rows' = [rows EXCEPT ![i] = r]
  BY <1>1 DEF DecideManually
<1>5. Table /\ rows[i].st \notin Final
  BY <1>1 DEF Inv, Final
<1>6. /\ r.st = "approved" => "human" \in r.favour
      /\ "human" \in rows[i].favour => "human" \in r.favour
  BY <1>3
<1>7. r \in Row /\ r.baseline = rows[i].baseline
  BY <1>3
<1> HIDE DEF r, f, st
<1>8. rows[i].st \in Final => r.st = rows[i].st
  BY <1>5
<1>9. r.st = "approved" => \/ "human" \in r.favour
                           \/ "reuse" \in r.favour /\ rows[i].st = "approved"
                           \/ r.baseline # 0 /\ r.favour \cap {"lows", "high"} # {}
  BY <1>6
<1>10. Table'
  BY <1>1, <1>4, <1>5, <1>6, <1>7, <1>8, <1>9, WriteKeepsTable
<1>11. /\ rows' \in Seq(Row) /\ Indices' = Indices /\ rows'[i] = r
      /\ \A j \in Indices : j # i => rows'[j] = rows[j]
  BY <1>1, <1>4, <1>7, Written
<1> USE DEF f
<1>12. QED
  BY <1>3, <1>5, <1>10, <1>11 DEF Kept, Grown, In

-----------------------------------------------------------------------------
(* Every step keeps the invariant. *)

\* A step of a syncer writes only to its own row of spc, was and got.
LEMMA SyncTypes ==
  ASSUME Inv, NEW s \in Syncers,
         NEW l \in Steps,
         NEW w \in Nat, NEW g \in Versions \cup {0},
         spc' = [spc EXCEPT ![s] = l],
         was' = was \/ was' = [was EXCEPT ![s] = w],
         \/ got' = got /\ (Holds(l) => got[s] \in Versions)
         \/ got' = [got EXCEPT ![s] = g] /\ (Holds(l) => g \in Versions)
  PROVE  /\ spc' \in [Syncers -> Steps]
         /\ was' \in [Syncers -> Nat] /\ got' \in [Syncers -> Versions \cup {0}]
         /\ \A t \in Syncers : Holds(spc'[t]) => got'[t] \in Versions
<1>1. /\ spc \in [Syncers -> Steps]
      /\ was \in [Syncers -> Nat] /\ got \in [Syncers -> Versions \cup {0}]
      /\ \A t \in Syncers : Holds(spc[t]) => got[t] \in Versions
  BY DEF Inv, TypeOK, InHand, Steps
<1>2. \A t \in Syncers : t # s => spc'[t] = spc[t] /\ (got' = got \/ got'[t] = got[t])
  BY <1>1
<1>3. spc'[s] = l
  BY <1>1
<1>4. QED
  BY <1>1, <1>2, <1>3

\* What the rest of the type invariant says, without rows.
Others ==
  /\ upstream \in Versions /\ modified \in Nat
  /\ spc \in [Syncers -> Steps]
  /\ was \in [Syncers -> Nat] /\ got \in [Syncers -> Versions \cup {0}]
  /\ rpc \in {"idle", "lows", "high", "outcome"}
  /\ row \in 0 .. Len(rows) /\ opinion \in BOOLEAN
  /\ configured \in BOOLEAN /\ skipped \in BOOLEAN
  /\ events \in 0 .. MaxEvents

\* Types, table and hand together are the invariant.
LEMMA Together ==
  ASSUME Inv, Kept, InHand', Others'
  PROVE  Inv' /\ \A i \in In(Final) : rows'[i].st = rows[i].st
  BY DEF Kept, Inv, TypeOK, Others, Row, Kinds, Steps

\* A step of a syncer, or of upstream, that leaves rows and reviews alone.
LEMMA QuietStep ==
  ASSUME Inv, rows' = rows, UNCHANGED reviewVars,
         \A s \in Syncers : Holds(spc'[s]) => got'[s] \in Versions
  PROVE  Kept /\ InHand' /\ rpc' \in {"idle", "lows", "high", "outcome"}
         /\ row' \in 0 .. Len(rows') /\ opinion' \in BOOLEAN
  BY Idle DEF Inv, InHand, TypeOK, reviewVars

\* An event is counted below its bound.
LEMMA Counted ==
  ASSUME Inv, Event
  PROVE  events' \in 0 .. MaxEvents
  BY RevisionsAssumption DEF Inv, TypeOK, Event

\* Synchronisation keeps the invariant.
LEMMA SyncKeeps ==
  ASSUME Inv, NEW s \in Syncers, SyncStep(s) \/ Refresh(s) \/ Subscribe(s) \/ SyncFails(s)
  PROVE  Inv' /\ \A i \in In(Final) : rows'[i].st = rows[i].st
<1>1. /\ upstream \in Versions /\ modified \in Nat
      /\ spc \in [Syncers -> Steps]
      /\ was \in [Syncers -> Nat] /\ got \in [Syncers -> Versions \cup {0}]
      /\ rpc \in {"idle", "lows", "high", "outcome"}
      /\ row \in 0 .. Len(rows) /\ opinion \in BOOLEAN
      /\ configured \in BOOLEAN /\ skipped \in BOOLEAN
      /\ events \in 0 .. MaxEvents
  BY DEF Inv, TypeOK, Steps
<1>2. Aur[upstream] \in Nat /\ upstream # 0
  BY <1>1, RevisionsAssumption DEF Versions
<1>3. ASSUME Begin(s), UNCHANGED events \/ Event
      PROVE  Inv' /\ \A i \in In(Final) : rows'[i].st = rows[i].st
  <2>1. /\ spc' \in [Syncers -> Steps]
        /\ was' \in [Syncers -> Nat] /\ got' \in [Syncers -> Versions \cup {0}]
        /\ \A t \in Syncers : Holds(spc'[t]) => got'[t] \in Versions
    BY <1>1, <1>3, SyncTypes DEF Begin, Sync, Steps, Holds
  <2>2. events' \in 0 .. MaxEvents
    BY <1>1, <1>3, Counted
  <2>3. Others' /\ Kept /\ InHand'
    BY <1>1, <1>3, <2>1, <2>2, QuietStep DEF Begin, Others
  <2>4. QED
    BY <2>3, Together
<1>3a. CASE ReadCache(s) \/ Refresh(s)
  BY <1>3, <1>3a DEF ReadCache, Refresh
<1>4. CASE LookUp(s)
  <2>1. /\ spc' \in [Syncers -> Steps]
        /\ was' \in [Syncers -> Nat] /\ got' \in [Syncers -> Versions \cup {0}]
        /\ \A t \in Syncers : Holds(spc'[t]) => got'[t] \in Versions
    BY <1>1, <1>2, <1>4, SyncTypes DEF LookUp, Sync, Steps
  <2>2. Others' /\ Kept /\ InHand'
    BY <1>1, <1>4, <2>1, QuietStep DEF LookUp, Others
  <2>3. QED
    BY <2>2, Together
<1>4a. CASE UpdateCache(s)
  <2>1. Holds(spc[s]) /\ got[s] \in Versions
    BY <1>4a DEF UpdateCache, Holds, Inv, InHand
  <2>2. modified' \in Nat /\ skipped' \in BOOLEAN
    BY <1>1, <1>4a, <2>1, RevisionsAssumption DEF UpdateCache
  <2>3. /\ spc' \in [Syncers -> Steps]
        /\ was' \in [Syncers -> Nat] /\ got' \in [Syncers -> Versions \cup {0}]
        /\ \A t \in Syncers : Holds(spc'[t]) => got'[t] \in Versions
    <3>1. CASE spc[s] = "cache"
      BY <1>1, <1>4a, <2>1, <3>1, SyncTypes DEF UpdateCache, Sync, Steps
    <3>2. CASE spc[s] # "cache"
      BY <1>1, <1>4a, <3>2, SyncTypes DEF UpdateCache, Sync, Steps, Holds
    <3>3. QED
      BY <3>1, <3>2
  <2>4. Others' /\ Kept /\ InHand'
    BY <1>1, <1>4a, <2>2, <2>3, QuietStep DEF UpdateCache, Others
  <2>5. QED
    BY <2>4, Together
<1>4b. CASE SelectLatest(s)
  <2>1. /\ spc' \in [Syncers -> Steps]
        /\ was' \in [Syncers -> Nat] /\ got' \in [Syncers -> Versions \cup {0}]
        /\ \A t \in Syncers : Holds(spc'[t]) => got'[t] \in Versions
    <3>1. CASE Changed(s)
      BY <1>1, <1>4b, <3>1, SyncTypes DEF SelectLatest, Sync, Steps, Holds
    <3>2. CASE ~Changed(s)
      <4>1. rows[Len(rows)].v \in Versions
        <5>1. rows # <<>> /\ rows \in Seq(Row)
          BY <3>2, Rows DEF Changed
        <5>2. Len(rows) \in 1 .. Len(rows)
          BY <5>1, EmptySeq, LenProperties
        <5>3. QED
          BY <5>2, Rows DEF Indices, Row
      <4>2. QED
        BY <1>1, <1>4b, <3>2, <4>1, SyncTypes DEF SelectLatest, Sync, Steps, Holds
    <3>3. QED
      BY <3>1, <3>2
  <2>2. Others' /\ Kept /\ InHand'
    BY <1>1, <1>4b, <2>1, QuietStep DEF SelectLatest, Others
  <2>3. QED
    BY <2>2, Together
<1>4c. CASE CompareVcs(s)
  <2>1. /\ spc' \in [Syncers -> Steps]
        /\ was' \in [Syncers -> Nat] /\ got' \in [Syncers -> Versions \cup {0}]
        /\ \A t \in Syncers : Holds(spc'[t]) => got'[t] \in Versions
    <3> DEFINE next == IF Advanced(s) THEN "fetch" ELSE "idle"
    <3>1. next \in Steps /\ ~Holds(next)
      BY DEF Steps, Holds
    <3> HIDE DEF next
    <3>2. /\ spc' = [spc EXCEPT ![s] = next] /\ was' = was
          /\ got' = [got EXCEPT ![s] = 0]
      BY <1>4c DEF CompareVcs, Sync, next
    <3>3. QED
      BY <1>1, <3>1, <3>2, SyncTypes
  <2>2. Others' /\ Kept /\ InHand'
    BY <1>1, <1>4c, <2>1, QuietStep DEF CompareVcs, Others
  <2>3. QED
    BY <2>2, Together
<1>5. CASE Subscribe(s)
  <2>1. /\ spc' \in [Syncers -> Steps]
        /\ was' \in [Syncers -> Nat] /\ got' \in [Syncers -> Versions \cup {0}]
        /\ \A t \in Syncers : Holds(spc'[t]) => got'[t] \in Versions
    BY <1>1, <1>2, <1>5, SyncTypes DEF Subscribe, Sync, Steps
  <2>2. Others' /\ Kept /\ InHand'
    BY <1>1, <1>5, <2>1, QuietStep, Counted DEF Subscribe, Others
  <2>3. QED
    BY <2>2, Together
<1>6. CASE Fetch(s)
  <2>1. /\ spc' \in [Syncers -> Steps]
        /\ was' \in [Syncers -> Nat] /\ got' \in [Syncers -> Versions \cup {0}]
        /\ \A t \in Syncers : Holds(spc'[t]) => got'[t] \in Versions
    BY <1>1, <1>2, <1>6, SyncTypes DEF Fetch, Sync, Steps
  <2>2. Others' /\ Kept /\ InHand'
    BY <1>1, <1>6, <2>1, QuietStep DEF Fetch, Others
  <2>3. QED
    BY <2>2, Together
<1>7. CASE SyncFails(s)
  <2>1. /\ spc' \in [Syncers -> Steps]
        /\ was' \in [Syncers -> Nat] /\ got' \in [Syncers -> Versions \cup {0}]
        /\ \A t \in Syncers : Holds(spc'[t]) => got'[t] \in Versions
    BY <1>1, <1>7, SyncTypes DEF SyncFails, Sync, Steps, Holds
  <2>2. skipped' \in BOOLEAN
    BY <1>1, <1>7 DEF SyncFails
  <2>3. Others' /\ Kept /\ InHand'
    BY <1>1, <1>7, <2>1, <2>2, QuietStep, Counted DEF SyncFails, Others
  <2>4. QED
    BY <2>3, Together
<1>8. ASSUME NEW blocked \in BOOLEAN, Insert(s, blocked)
      PROVE  Inv' /\ \A i \in In(Final) : rows'[i].st = rows[i].st
  <2>1. /\ spc' \in [Syncers -> Steps]
        /\ was' \in [Syncers -> Nat] /\ got' \in [Syncers -> Versions \cup {0}]
        /\ \A t \in Syncers : Holds(spc'[t]) => got'[t] \in Versions
    BY <1>1, <1>8, SyncTypes DEF Insert, Sync, Steps, Holds
  <2>2. events' \in 0 .. MaxEvents
    BY <1>1, <1>8, Counted DEF Insert
  <2>3. CASE Known(got[s])
    <3>1. rows' = rows /\ UNCHANGED reviewVars
      BY <1>8, <2>3 DEF Insert
    <3>2. Others' /\ Kept /\ InHand'
      BY <1>1, <1>8, <2>1, <2>2, <3>1, QuietStep DEF Insert, Others
    <3>3. QED
      BY <3>2, Together
  <2>4. CASE ~Known(got[s])
    <3>1. got[s] \in Versions
      BY <1>8 DEF Insert, Inv, InHand, Holds
    <3>2. rows \in Seq(Row) /\ Table
      BY Rows DEF Inv
    <3>3. rows' = Append(Superseded, NewRow(got[s], blocked))
      BY <1>8, <2>4 DEF Insert
    <3>4. /\ rows' \in Seq(Row) /\ Indices \subseteq Indices'
          /\ \A j \in Indices : rows'[j].favour = rows[j].favour
          /\ \A j \in In(Final) : rows'[j].st = rows[j].st
          /\ Table'
      BY <3>1, <3>2, <3>3, InsertKeepsTable
    <3>5. Kept
      BY <3>4 DEF Kept
    <3>6. rpc' = rpc /\ row' = row /\ opinion' = opinion
      BY <1>8 DEF Insert, reviewVars
    <3>7. InHand'
      BY <2>1, <3>4, <3>6 DEF Inv, InHand
    <3>8. Len(rows') \in Nat /\ Len(rows) \in Nat /\ row' \in 0 .. Len(rows')
      <4>1. Len(rows') \in Nat /\ Len(rows) \in Nat
        BY <3>2, <3>4, LenProperties
      <4>2. row = 0 \/ row \in Indices
        BY <1>1, <4>1 DEF Indices
      <4>3. QED
        BY <4>1, <4>2, <3>4, <3>6 DEF Indices
    <3>9. Others'
      BY <1>1, <1>8, <2>1, <2>2, <3>6, <3>8 DEF Insert, Others
    <3>10. QED
      BY <3>5, <3>7, <3>9, Together
  <2>5. QED
    BY <2>3, <2>4
<1>9. QED
  BY <1>3a, <1>4, <1>4a, <1>4b, <1>4c, <1>5, <1>6, <1>7, <1>8 DEF SyncStep

\* The review loop has moved on, and what it has in hand is there.
LEMMA ReviewStepKeeps ==
  ASSUME Inv, Kept, Indices' = Indices,
         UNCHANGED <<upstream, syncVars, configured, events, skipped>>,
         rpc' \in {"idle", "lows", "high", "outcome"}, opinion' \in BOOLEAN,
         (row' = 0 /\ rpc' = "idle") \/ row' \in Indices,
         rpc' = "outcome" /\ opinion' => rows'[row'].favour \cap {"lows", "high"} # {}
  PROVE  Inv' /\ \A i \in In(Final) : rows'[i].st = rows[i].st
<1>1. Len(rows') \in Nat
  BY LenProperties DEF Kept
<1>2. row' \in 0 .. Len(rows')
  BY <1>1 DEF Indices
<1>3. InHand'
  BY DEF Inv, InHand, syncVars
<1>4. Others'
  BY <1>2 DEF Inv, TypeOK, Others, syncVars, Steps
<1>5. QED
  BY <1>3, <1>4, Together

\* What set_outcome does to a row it finds pending, or not.
LEMMA SetOutcomeKeeps ==
  ASSUME Inv, NEW i \in Indices, NEW st \in Open \cup Final, SetOutcome(i, st),
         st = "approved" => rows[i].baseline # 0 /\ rows[i].favour \cap {"lows", "high"} # {}
  PROVE  Kept /\ Grown /\ Indices' = Indices
<1>1. CASE rows[i].st = "pending_review"
  <2>1. SetState(i, st) /\ rows[i].st \in Open
    BY <1>1 DEF SetOutcome, Open
  <2>2. QED
    BY <2>1, SetStateKeeps
<1>2. CASE rows[i].st # "pending_review"
  BY <1>2, Idle DEF SetOutcome
<1>3. QED
  BY <1>1, <1>2

\* The oldest pending row is one.
LEMMA Oldest ==
  ASSUME Inv, In({"pending_review"}) # {}
  PROVE  (CHOOSE i \in In({"pending_review"}) : \A j \in In({"pending_review"}) : i <= j)
           \in In({"pending_review"})
<1>1. In({"pending_review"}) \in SUBSET Nat
  BY Rows DEF In, Indices
<1>2. QED
  BY <1>1, Minimum

\* The review loop keeps the invariant.
LEMMA ReviewKeeps ==
  ASSUME Inv, ReviewStep
  PROVE  Inv' /\ \A i \in In(Final) : rows'[i].st = rows[i].st
<1> DEFINE oldest == CHOOSE i \in In({"pending_review"}) :
                       \A j \in In({"pending_review"}) : i <= j
<1>1. /\ rpc \in {"idle", "lows", "high", "outcome"} /\ opinion \in BOOLEAN
      /\ rpc # "idle" => row \in Indices
      /\ row \in 0 .. Len(rows)
      /\ rpc = "outcome" /\ opinion => rows[row].favour \cap {"lows", "high"} # {}
  BY DEF Inv, TypeOK, InHand
<1>2. "lows" \in Kinds /\ "high" \in Kinds
  BY DEF Kinds
<1>3. CASE PassToHuman
  <2>1. oldest \in Indices /\ SetOutcome(oldest, "manual_review")
    BY <1>3, Oldest DEF PassToHuman, In
  <2>2. "manual_review" \in Open \cup Final
    BY DEF Open
  <2> HIDE DEF oldest
  <2>3. Kept /\ Grown /\ Indices' = Indices
    BY <2>1, <2>2, SetOutcomeKeeps
  <2>4. row' = row /\ rpc' = rpc /\ opinion' = opinion /\ rpc = "idle"
    BY <1>3 DEF PassToHuman, reviewVars
  <2>5. row = 0 \/ row \in Indices
    BY <1>1, Rows DEF Indices
  <2>6. UNCHANGED <<upstream, syncVars, configured, events, skipped>>
    BY <1>3 DEF PassToHuman
  <2>7. QED
    BY <1>1, <2>3, <2>4, <2>5, <2>6, ReviewStepKeeps
<1>4. CASE TakeRow
  <2>1. /\ oldest \in In({"pending_review"}) /\ oldest \in Indices
        /\ Review("lows", oldest, FALSE)
        /\ rows' = [rows EXCEPT ![oldest].favour = @ \ {"lows", "high"}]
    BY <1>4, Oldest DEF TakeRow, In
  <2> HIDE DEF oldest
  <2>2. Kept /\ Indices' = Indices
    BY <2>1, TakeKeeps
  <2>3. UNCHANGED <<upstream, syncVars, configured, events, skipped>>
    BY <1>4 DEF TakeRow
  <2>4. QED
    BY <2>1, <2>2, <2>3, ReviewStepKeeps DEF Review
<1>5. ASSUME NEW v \in Verdicts, NEW w \in Verdicts, RunLows(v, w)
      PROVE  Inv' /\ \A i \in In(Final) : rows'[i].st = rows[i].st
  <2>1. UNCHANGED <<upstream, syncVars, configured, events, skipped>> /\ row \in Indices
    BY <1>1, <1>5 DEF RunLows
  <2>2. CASE v = "approve" /\ w = "approve"
    <3>1. Favour(row, "lows") /\ Review("outcome", row, TRUE)
      BY <1>5, <2>2 DEF RunLows, Agree
    <3>2. Kept /\ Indices' = Indices /\ "lows" \in rows'[row].favour
      BY <1>2, <2>1, <3>1, FavourKeeps
    <3>3. QED
      BY <2>1, <3>1, <3>2, ReviewStepKeeps DEF Review
  <2>3. CASE ~(v = "approve" /\ w = "approve")
    <3>1. rows' = rows /\ Review("high", row, FALSE)
      BY <1>5, <2>3 DEF RunLows, Agree
    <3>2. QED
      BY <2>1, <3>1, Idle, ReviewStepKeeps DEF Review
  <2>4. QED
    BY <2>2, <2>3
<1>6. ASSUME NEW v \in Verdicts, RunHigh(v)
      PROVE  Inv' /\ \A i \in In(Final) : rows'[i].st = rows[i].st
  <2>1. UNCHANGED <<upstream, syncVars, configured, events, skipped>> /\ row \in Indices
    BY <1>1, <1>6 DEF RunHigh
  <2>2. CASE v = "approve"
    <3>1. Favour(row, "high") /\ Review("outcome", row, TRUE)
      BY <1>6, <2>2 DEF RunHigh
    <3>2. Kept /\ Indices' = Indices /\ "high" \in rows'[row].favour
      BY <1>2, <2>1, <3>1, FavourKeeps
    <3>3. QED
      BY <2>1, <3>1, <3>2, ReviewStepKeeps DEF Review
  <2>3. CASE v # "approve"
    <3>1. rows' = rows /\ Review("outcome", row, FALSE)
      BY <1>6, <2>3 DEF RunHigh
    <3>2. QED
      BY <2>1, <3>1, Idle, ReviewStepKeeps DEF Review
  <2>4. QED
    BY <2>2, <2>3
<1>7. CASE Conclude
  <2>1. /\ UNCHANGED <<upstream, syncVars, configured, events, skipped>>
        /\ row \in Indices /\ rpc = "outcome"
        /\ SetOutcome(row, Decide(row, opinion)) /\ Review("idle", 0, FALSE)
    BY <1>1, <1>7 DEF Conclude
  <2>2. Decide(row, opinion) \in Open \cup Final
    BY DEF Decide, Open, Final
  <2>3. Decide(row, opinion) = "approved" => opinion /\ rows[row].baseline # 0
    BY DEF Decide
  <2>4. Kept /\ Indices' = Indices
    BY <1>1, <2>1, <2>2, <2>3, SetOutcomeKeeps
  <2>5. QED
    BY <2>1, <2>4, ReviewStepKeeps DEF Review
<1>8. QED
  BY <1>3, <1>4, <1>5, <1>6, <1>7 DEF ReviewStep

\* A step that leaves syncers and the review loop alone keeps what they hold.
LEMMA OutsideKeeps ==
  ASSUME Inv, Kept, Grown, Indices' = Indices, UNCHANGED <<syncVars, reviewVars>>,
         upstream' \in Versions, configured' \in BOOLEAN, skipped' \in BOOLEAN,
         events' \in 0 .. MaxEvents
  PROVE  Inv' /\ \A i \in In(Final) : rows'[i].st = rows[i].st
<1>1. Len(rows') = Len(rows)
  <2>1. Len(rows') \in Nat /\ Len(rows) \in Nat
    BY Rows, LenProperties DEF Kept
  <2>2. QED
    BY <2>1 DEF Indices
<1>2. /\ modified' = modified /\ spc' = spc /\ was' = was /\ got' = got
      /\ rpc' = rpc /\ row' = row /\ opinion' = opinion
  BY DEF syncVars, reviewVars
<1>3. Others'
  BY <1>1, <1>2 DEF Inv, TypeOK, Others, Steps
<1>4. InHand'
  <2>1. rpc # "idle" => row \in Indices
    BY DEF Inv, InHand
  <2>2. rpc = "outcome" /\ opinion => rows'[row].favour \cap {"lows", "high"} # {}
    BY <2>1 DEF Inv, InHand, Grown
  <2>3. QED
    BY <1>2, <2>1, <2>2 DEF Inv, InHand
<1>5. QED
  BY <1>3, <1>4, Together

\* The first state has no rows and nothing in hand.
LEMMA InitInv == Init => Inv
<1> SUFFICES ASSUME Init PROVE Inv
  OBVIOUS
<1>1. TypeOK
  <2>1. 1 \in Versions /\ 0 \in 0 .. MaxEvents
    BY RevisionsAssumption DEF Versions
  <2>2. rows = <<>> /\ Len(rows) = 0
    BY DEF Init
  <2>3. rows \in Seq(Row)
    BY <2>2
  <2>4. Others
    <3>1. /\ spc \in [Syncers -> Steps]
          /\ was \in [Syncers -> Nat] /\ got \in [Syncers -> Versions \cup {0}]
      BY DEF Init, Steps
    <3>2. upstream = 1 /\ modified = 0 /\ row = 0 /\ rpc = "idle" /\ events = 0
      BY DEF Init
    <3>3. opinion \in BOOLEAN /\ configured \in BOOLEAN /\ skipped \in BOOLEAN
      BY DEF Init
    <3>4. row \in 0 .. Len(rows)
      BY <2>2, <3>2
    <3>5. QED
      BY <2>1, <3>1, <3>2, <3>3, <3>4 DEF Others
  <2>5. QED
    BY <2>3, <2>4 DEF TypeOK, Others, Row, Kinds, Steps
<1>2. Indices = {}
  BY DEF Init, Indices
<1>3. Table
  BY <1>2 DEF Table, OnlyNewestOpen, BaselineIsNewest, HumanFirst, ApprovalJustified, In
<1>4. InHand
  BY DEF Init, InHand, Holds
<1>5. QED
  BY <1>1, <1>3, <1>4 DEF Inv

\* Every step keeps the invariant, and the verdicts there are.
LEMMA NextInv ==
  Inv /\ [Next]_vars => Inv' /\ \A i \in In(Final) : rows'[i].st = rows[i].st
<1> SUFFICES ASSUME Inv, [Next]_vars
             PROVE  Inv' /\ \A i \in In(Final) : rows'[i].st = rows[i].st
  OBVIOUS
<1>1. /\ upstream \in Versions /\ configured \in BOOLEAN /\ skipped \in BOOLEAN
      /\ events \in 0 .. MaxEvents /\ Last \in Nat
  BY RevisionsAssumption DEF Inv, TypeOK
<1>2. CASE Push
  <2>1. upstream' \in Versions
    BY <1>1, <1>2 DEF Push, Versions
  <2>2. QED
    BY <1>1, <1>2, <2>1, Idle, OutsideKeeps DEF Push
<1>3. ASSUME NEW s \in Syncers, SyncStep(s) \/ Refresh(s) \/ Subscribe(s) \/ SyncFails(s)
      PROVE  Inv' /\ \A i \in In(Final) : rows'[i].st = rows[i].st
  BY <1>3, SyncKeeps
<1>4. CASE ReviewStep
  BY <1>4, ReviewKeeps
<1>4a. CASE ReviewFails
  <2>1. Kept /\ Indices' = Indices
    BY <1>4a, Idle DEF ReviewFails
  <2>2. Len(rows') \in Nat /\ 0 \in 0 .. Len(rows')
    BY Rows, <1>4a DEF ReviewFails
  <2>3. events' \in 0 .. MaxEvents
    BY <1>4a, Counted DEF ReviewFails
  <2>4. /\ UNCHANGED <<upstream, modified, spc, was, got, configured, skipped>>
        /\ rpc' = "idle" /\ row' = 0 /\ opinion' = FALSE
    BY <1>4a DEF ReviewFails, Review, syncVars
  <2>5. Others'
    BY <2>2, <2>3, <2>4 DEF Others, Inv, TypeOK, Steps
  <2>6. InHand'
    BY <2>4 DEF InHand, Inv
  <2>7. QED
    BY <2>1, <2>5, <2>6, Together
<1>5. ASSUME NEW i \in Indices, NEW approve \in BOOLEAN, DecideManually(i, approve)
      PROVE  Inv' /\ \A j \in In(Final) : rows'[j].st = rows[j].st
  <2>1. Kept /\ Grown /\ Indices' = Indices
    BY <1>5, DecideManuallyKeeps
  <2>2. UNCHANGED <<upstream, syncVars, reviewVars, configured, events, skipped>>
    BY <1>5 DEF DecideManually
  <2>3. QED
    BY <1>1, <2>1, <2>2, OutsideKeeps
<1>6. ASSUME NEW i \in Indices, Retry(i)
      PROVE  Inv' /\ \A j \in In(Final) : rows'[j].st = rows[j].st
  <2>1. SetState(i, "pending_review") /\ rows[i].st \in Open
    BY <1>6 DEF Retry, Open
  <2>2. "pending_review" \in Open \cup Final
    BY DEF Open
  <2>3. Kept /\ Grown /\ Indices' = Indices
    BY <2>1, <2>2, SetStateKeeps
  <2>4. events' \in 0 .. MaxEvents /\ UNCHANGED <<upstream, syncVars, reviewVars, configured, skipped>>
    BY <1>6, Counted DEF Retry
  <2>5. QED
    BY <1>1, <2>3, <2>4, OutsideKeeps
<1>7. CASE Restart
  <2>1. Kept /\ Indices' = Indices
    BY <1>7, Idle DEF Restart
  <2>2. Len(rows') \in Nat /\ 0 \in 0 .. Len(rows')
    BY Rows, <1>7 DEF Restart
  <2>3. events' \in 0 .. MaxEvents /\ skipped' \in BOOLEAN
    BY <1>1, <1>7, Counted DEF Restart
  <2>4. /\ spc' = [s \in Syncers |-> "idle"] /\ was' = [s \in Syncers |-> 0]
        /\ got' = [s \in Syncers |-> 0]
        /\ rpc' = "idle" /\ row' = 0 /\ opinion' = FALSE
        /\ upstream' = upstream /\ modified' = modified /\ configured' \in BOOLEAN
    BY <1>7 DEF Restart, Review
  <2>5. Others'
    BY <1>1, <2>2, <2>3, <2>4 DEF Others, Inv, TypeOK, Steps
  <2>6. InHand'
    BY <2>4 DEF InHand, Holds
  <2>7. QED
    BY <2>1, <2>5, <2>6, Together
<1>8. CASE UNCHANGED vars
  BY <1>1, <1>8, Idle, OutsideKeeps DEF vars, syncVars, reviewVars
<1>9. QED
  BY <1>2, <1>3, <1>4, <1>4a, <1>5, <1>6, <1>7, <1>8 DEF Next

\* The invariant holds in every reachable state.
LEMMA Invariance == Spec => []Inv
BY InitInv, NextInv, PTL DEF Spec

-----------------------------------------------------------------------------
(* Theorems. *)

\* Every variable keeps its type, for any upstream history and any syncers.
THEOREM TypeCorrect == Spec => []TypeOK
<1>1. Inv => TypeOK
  BY DEF Inv
<1>2. QED
  BY <1>1, Invariance, PTL

\* However many syncers and reviews interleave, only the newest row is open:
\* no verdict is given on an outdated revision (insert_revision, set_outcome).
THEOREM NewestOpen == Spec => []OnlyNewestOpen
<1>1. Inv => OnlyNewestOpen
  BY DEF Inv, Table
<1>2. QED
  BY <1>1, Invariance, PTL

\* The baseline an open row was given when it was inserted is still the newest
\* approved row whenever a verdict can be given.
THEOREM Baseline == Spec => []BaselineIsNewest
<1>1. Inv => BaselineIsNewest
  BY DEF Inv, Table
<1>2. QED
  BY <1>1, Invariance, PTL

\* Nothing is approved before a human has approved a row of the pkgbase.
THEOREM HumanGate == Spec => []HumanFirst
<1>1. Inv => HumanFirst
  BY DEF Inv, Table
<1>2. QED
  BY <1>1, Invariance, PTL

\* Every approval has the review that justifies it, although review_next
\* deletes the agents' reviews of a row it takes up again.
THEOREM Justified == Spec => []ApprovalJustified
<1>1. Inv => ApprovalJustified
  BY DEF Inv, Table
<1>2. QED
  BY <1>1, Invariance, PTL

\* No verdict is ever changed.
THEOREM VerdictsStay == Spec => VerdictStays
<1>1. Inv /\ [Next]_vars => [\A i \in In(Final) : rows'[i].st = rows[i].st]_vars
  BY NextInv
<1>2. QED
  BY <1>1, Invariance, PTL DEF Spec, VerdictStays
=============================================================================
