-------------------------- MODULE PagePartsProofs --------------------------
(***************************************************************************)
(* What the operators that Pages is built from return, preserve and bound, *)
(* for any account, catalogue, other device and bounds: the lists put in   *)
(* order, the payloads of the modal and of the form, what the server makes *)
(* of them, the hook and the gestures on the form.                         *)
(***************************************************************************)
EXTENDS Pages, FiniteSetTheorems, SequenceTheorems, TLAPS

-----------------------------------------------------------------------------
(* Lists in order.                                                         *)

\* In a finite set in strict order, each has a place of its own: one more than
\* those before it.
LEMMA Ranked ==
    ASSUME NEW S, IsFiniteSet(S), NEW R,
           \A a \in S : <<a, a>> \notin R,
           \A a, b \in S : a # b => <<a, b>> \in R \/ <<b, a>> \in R,
           \A a, b, c \in S : <<a, b>> \in R /\ <<b, c>> \in R => <<a, c>> \in R
    PROVE  \E f \in [1..Cardinality(S) -> S] :
             /\ \A a \in S : \E k \in 1..Cardinality(S) : f[k] = a
             /\ \A k \in 1..Cardinality(S) :
                   Cardinality({b \in S : <<b, f[k]>> \in R}) = k - 1
             /\ \A j, k \in 1..Cardinality(S) : j < k <=> <<f[j], f[k]>> \in R
<1> DEFINE n == Cardinality(S)
           before(a) == {b \in S : <<b, a>> \in R}
           rank == [a \in S |-> Cardinality(before(a)) + 1]
<1>1. n \in Nat
  BY FS_CardinalityType
<1>2. ASSUME NEW a \in S
      PROVE  IsFiniteSet(before(a)) /\ Cardinality(before(a)) \in 0..(n - 1)
  <2>1. before(a) \in SUBSET S /\ before(a) # S
    OBVIOUS
  <2>2. /\ IsFiniteSet(before(a)) /\ Cardinality(before(a)) <= n
        /\ Cardinality(before(a)) # n
    BY <2>1, FS_Subset
  <2>3. Cardinality(before(a)) \in Nat
    BY <2>2, FS_CardinalityType
  <2> HIDE DEF n, before
  <2>4. QED
    BY <1>1, <2>2, <2>3
<1>3. ASSUME NEW a \in S, NEW b \in S, <<a, b>> \in R
      PROVE  Cardinality(before(a)) < Cardinality(before(b))
  <2>1. before(a) \in SUBSET before(b) /\ before(a) # before(b)
    BY <1>3
  <2>2. IsFiniteSet(before(b))
    BY <1>2
  <2>3. /\ Cardinality(before(a)) <= Cardinality(before(b))
        /\ Cardinality(before(a)) # Cardinality(before(b))
    BY <2>1, <2>2, FS_Subset
  <2>4. /\ Cardinality(before(a)) \in 0..(n - 1)
        /\ Cardinality(before(b)) \in 0..(n - 1)
    BY <1>2
  <2> HIDE DEF before, n
  <2>5. QED
    BY <1>1, <2>3, <2>4
<1>4. \A a \in S : rank[a] = Cardinality(before(a)) + 1
  OBVIOUS
<1> HIDE DEF before, n
<1>5. rank \in [S -> 1..n]
  BY <1>1, <1>2
<1> HIDE DEF rank
<1>6. \A a, b \in S : <<a, b>> \in R => rank[a] < rank[b]
  BY <1>1, <1>2, <1>3, <1>4
<1>7. rank \in Injection(S, 1..n)
  <2>1. ASSUME NEW a \in S, NEW b \in S, rank[a] = rank[b] PROVE a = b
    <3>1. rank[a] \in Int /\ rank[b] \in Int
      BY <1>5
    <3>2. <<a, b>> \notin R /\ <<b, a>> \notin R
      BY <1>6, <2>1, <3>1
    <3>3. QED
      BY <3>2
  <2>2. \A a, b \in S : rank[a] = rank[b] => a = b
    BY <2>1
  <2>3. QED
    BY <1>5, <2>2 DEF Injection, IsInjective
<1>8. rank \in Surjection(S, 1..n)
  <2>1. IsFiniteSet(1..n) /\ Cardinality(1..n) = n
    BY <1>1, FS_Interval
  <2>2. QED
    BY <1>7, <2>1, FS_Injection DEF n
<1>9. \A k \in 1..n : \E a \in S : rank[a] = k
  BY <1>8 DEF Surjection
<1> DEFINE f == [k \in 1..n |-> CHOOSE a \in S : rank[a] = k]
<1>10. \A k \in 1..n : f[k] \in S /\ rank[f[k]] = k
  BY <1>9
<1>11. f \in [1..n -> S]
  BY <1>10
<1> HIDE DEF f
<1>12. \A a \in S : rank[a] \in 1..n /\ f[rank[a]] = a
  BY <1>5, <1>7, <1>10 DEF Injection, IsInjective
<1>13. \A k \in 1..n : Cardinality(before(f[k])) = k - 1
  <2> SUFFICES ASSUME NEW k \in 1..n PROVE Cardinality(before(f[k])) = k - 1
    OBVIOUS
  <2>1. f[k] \in S /\ Cardinality(before(f[k])) \in Int
    BY <1>1, <1>2, <1>10
  <2>2. Cardinality(before(f[k])) + 1 = k
    BY <1>4, <1>10
  <2>3. QED
    BY <2>1, <2>2
<1>14. ASSUME NEW j \in 1..n, NEW k \in 1..n
       PROVE  j < k <=> <<f[j], f[k]>> \in R
  <2>1. f[j] \in S /\ f[k] \in S /\ rank[f[j]] = j /\ rank[f[k]] = k
    BY <1>10
  <2>2. <<f[j], f[k]>> \in R => j < k
    BY <1>6, <2>1
  <2>3. <<f[k], f[j]>> \in R => k < j
    BY <1>6, <2>1
  <2>4. j < k => f[j] # f[k]
    BY <2>1
  <2>5. QED
    BY <2>1, <2>2, <2>3, <2>4
<1>15. QED
  BY <1>11, <1>12, <1>13, <1>14 DEF n, before

\* Ascending lists each number once, in order.
LEMMA AscendingLists ==
    ASSUME NEW I \in SUBSET Int, IsFiniteSet(I)
    PROVE  LET a == Ascending(I)
               n == Cardinality(I) IN
           /\ n \in Nat /\ a \in [1..n -> I]
           /\ \A i \in I : \E k \in 1..n : a[k] = i
           /\ \A j, k \in 1..n : a[j] = a[k] => j = k
<1> DEFINE R == {e \in I \X I : e[1] < e[2]}
           n == Cardinality(I)
           a == Ascending(I)
           before(i) == Cardinality({j \in I : j < i})
<1>1. n \in Nat
  BY FS_CardinalityType
<1>2. \A i, j \in I : i \in Int /\ (<<i, j>> \in R <=> i < j)
  OBVIOUS
<1> HIDE DEF R
<1>3. /\ \A i \in I : <<i, i>> \notin R
      /\ \A i, j \in I : i # j => <<i, j>> \in R \/ <<j, i>> \in R
      /\ \A i, j, k \in I : <<i, j>> \in R /\ <<j, k>> \in R => <<i, k>> \in R
  BY <1>2
<1>4. PICK h \in [1..n -> I] :
        /\ \A i \in I : \E k \in 1..n : h[k] = i
        /\ \A k \in 1..n : Cardinality({j \in I : <<j, h[k]>> \in R}) = k - 1
        /\ \A j, k \in 1..n : j < k <=> <<h[j], h[k]>> \in R
  BY <1>3, Ranked
<1>5. \A i \in I : {j \in I : j < i} = {j \in I : <<j, i>> \in R}
  BY <1>2
<1>6. \A k \in 1..n : before(h[k]) = k - 1
  BY <1>4, <1>5
<1>7. a = [k \in 1..n |-> CHOOSE i \in I : before(i) = k - 1]
  BY DEF Ascending
<1> HIDE DEF before, a, n
<1>8. ASSUME NEW k \in 1..n PROVE a[k] = h[k]
  <2>1. h[k] \in I /\ before(h[k]) = k - 1
    BY <1>4, <1>6
  <2>2. \A i \in I : before(i) = k - 1 => i = h[k]
    <3> SUFFICES ASSUME NEW i \in I, before(i) = k - 1 PROVE i = h[k]
      OBVIOUS
    <3>1. PICK j \in 1..n : h[j] = i
      BY <1>4
    <3>2. before(i) = j - 1
      BY <1>6, <3>1
    <3>3. j = k
      BY <3>2
    <3>4. QED
      BY <3>1, <3>3
  <2>3. a[k] = CHOOSE i \in I : before(i) = k - 1
    BY <1>7
  <2>4. QED
    BY <2>1, <2>2, <2>3
<1>9. a = h
  BY <1>4, <1>7, <1>8
<1>10. \A j, k \in 1..n : h[j] = h[k] => j = k
  <2> SUFFICES ASSUME NEW j \in 1..n, NEW k \in 1..n, h[j] = h[k] PROVE j = k
    OBVIOUS
  <2>1. ~(j < k) /\ ~(k < j)
    BY <1>3, <1>4
  <2>2. QED
    BY <1>1, <2>1
<1>11. QED
  BY <1>1, <1>4, <1>9, <1>10 DEF a, n

\* A filter leaves each of the elements at its positions once, and no other.
LEMMA FilterLeaves ==
    ASSUME NEW S, NEW s \in Seq(S), NEW I \in SUBSET (DOMAIN s)
    PROVE  LET f == Filtered(s, I) IN
           /\ f \in Seq(S)
           /\ \A i \in I : \E k \in DOMAIN f : f[k] = s[i]
           /\ \A k \in DOMAIN f : \E i \in I : f[k] = s[i]
           /\ \A j, k \in DOMAIN f :
                 j # k => \E h, i \in I : h # i /\ f[j] = s[h] /\ f[k] = s[i]
<1> DEFINE a == Ascending(I)
           n == Cardinality(I)
           f == Filtered(s, I)
<1>1. IsFiniteSet(I) /\ I \in SUBSET Int
  <2>1. DOMAIN s = 1..Len(s) /\ Len(s) \in Int
    OBVIOUS
  <2>2. IsFiniteSet(DOMAIN s)
    BY <2>1, FS_Interval
  <2>3. QED
    BY <2>1, <2>2, FS_Subset
<1>2. /\ n \in Nat /\ a \in [1..n -> I]
      /\ \A i \in I : \E k \in 1..n : a[k] = i
      /\ \A j, k \in 1..n : a[j] = a[k] => j = k
  BY <1>1, AscendingLists
<1>3. f = [k \in DOMAIN a |-> s[a[k]]]
  BY DEF Filtered, Map
<1> HIDE DEF a, n, f
<1>4. DOMAIN f = 1..n /\ \A k \in 1..n : f[k] = s[a[k]] /\ a[k] \in I
  BY <1>2, <1>3
<1>5. f \in Seq(S)
  <2>1. \A k \in 1..n : s[a[k]] \in S
    BY <1>4, ElementOfSeq
  <2>2. f \in [1..n -> S]
    BY <1>3, <1>4, <2>1
  <2>3. QED
    BY <1>2, <2>2, SeqDef
<1>6. \A i \in I : \E k \in DOMAIN f : f[k] = s[i]
  BY <1>2, <1>4
<1>7. ASSUME NEW j \in DOMAIN f, NEW k \in DOMAIN f, j # k
      PROVE  \E h, i \in I : h # i /\ f[j] = s[h] /\ f[k] = s[i]
  <2>1. a[j] \in I /\ a[k] \in I /\ a[j] # a[k]
    BY <1>2, <1>4, <1>7
  <2>2. QED
    BY <1>4, <2>1
<1>8. QED
  BY <1>4, <1>5, <1>6, <1>7 DEF f

\* ById lists each deadline of a vehicle once.
LEMMA ByIdLists ==
    ASSUME NEW D \in SUBSET Deadline, IsFiniteSet(D),
           \A d, e \in D : d.id = e.id => d = e
    PROVE  LET s == ById(D) IN
           /\ s \in Seq(D) /\ Len(s) = Cardinality(D)
           /\ \A d \in D : \E k \in DOMAIN s : s[k] = d
           /\ \A j, k \in DOMAIN s : s[j] = s[k] => j = k
<1> DEFINE ids == {d.id : d \in D}
           a == Ascending(ids)
           n == Cardinality(ids)
           s == ById(D)
           g == [d \in D |-> d.id]
           row(i) == CHOOSE d \in D : d.id = i
<1>1. ids \in SUBSET Int
  BY DEF Deadline
<1>2. g \in Injection(D, ids) /\ g \in Surjection(D, ids)
  BY DEF Injection, Surjection, IsInjective
<1>3. IsFiniteSet(ids) /\ n = Cardinality(D)
  <2>1. IsFiniteSet(ids)
    BY <1>2, FS_Surjection
  <2>2. QED
    BY <1>2, <2>1, FS_Injection
<1>4. /\ n \in Nat /\ a \in [1..n -> ids]
      /\ \A i \in ids : \E k \in 1..n : a[k] = i
      /\ \A j, k \in 1..n : a[j] = a[k] => j = k
  BY <1>1, <1>3, AscendingLists
<1>5. s = [k \in DOMAIN a |-> row(a[k])]
  BY DEF ById, Map
<1>6. \A d \in D : d.id \in ids /\ row(d.id) = d
  OBVIOUS
<1>7. \A i \in ids : row(i) \in D /\ row(i).id = i
  OBVIOUS
<1> HIDE DEF a, n, s, row, ids
<1>8. DOMAIN s = 1..n /\ \A k \in 1..n : s[k] = row(a[k]) /\ a[k] \in ids
  BY <1>4, <1>5
<1>9. s \in [1..n -> D]
  BY <1>5, <1>7, <1>8
<1>10. s \in Seq(D) /\ Len(s) = n
  BY <1>4, <1>9, SeqDef
<1>11. ASSUME NEW d \in D PROVE \E k \in DOMAIN s : s[k] = d
  <2>1. PICK k \in 1..n : a[k] = d.id
    BY <1>4, <1>6
  <2>2. QED
    BY <1>6, <1>8, <2>1
<1>12. ASSUME NEW j \in DOMAIN s, NEW k \in DOMAIN s, s[j] = s[k] PROVE j = k
  <2>1. a[j] = a[k]
    BY <1>7, <1>8, <1>12
  <2>2. QED
    BY <1>4, <1>8, <2>1
<1>13. QED
  BY <1>3, <1>10, <1>11, <1>12 DEF s, n, ids

-----------------------------------------------------------------------------
(* Payloads: what they hold, and what they are made of.                    *)

FormRow == [title: STRING, dueDate: Int]

\* What the fields of the form may hold.
FormValues ==
    [make: STRING, model: STRING, mileageKm: Int \union {Omitted},
     deadlines: [StandardTypes -> Int], customDeadlines: Seq(FormRow)]

\* A row of the form that is sent.
Full(row) == row.dueDate # 0 /\ (row.type = "custom" => row.title # "")

\* The body of a save has every other deadline as it was.
Rebuilds(body, x, edited) ==
    /\ body.fields = NoFields
    /\ Len(body.deadlines) = Cardinality(x.deadlines)
    /\ \A d \in x.deadlines : d.id # edited =>
          \E i \in DOMAIN body.deadlines : body.deadlines[i] = Content(d)

\* A payload that the page may send.
Proper(body) == body \in VehiclePayload /\ Acceptable(body) /\ body.replaces

\* A payload of the modal: as many deadlines as a vehicle may have, the notes of
\* one of them at most too long.
Modest(body) ==
    /\ Len(body.deadlines) <= MAX_DEADLINES_PER_VEHICLE
    /\ \A i, j \in Long(body.deadlines) : i = j

\* The rows of the form that a body brings.
Brings(body, rows) ==
    \A row \in rows : Full(row) =>
        \E i \in DOMAIN body.deadlines : Row(body.deadlines[i]) = row

\* What Dto puts together.
LEMMA Payload ==
    ASSUME NEW type \in StandardTypes \union {"custom"}, NEW title \in STRING,
           NEW dueDate \in Int, NEW notes \in STRING, NEW paused \in BOOLEAN,
           NEW d, d = Dto(type, title, dueDate, notes, paused)
    PROVE  d \in DeadlinePayload
BY DEF Dto, DeadlinePayload

\* What the form sends of a row: a title with a custom deadline only.
LEMMA RowSent ==
    ASSUME NEW type \in StandardTypes \union {"custom"}, NEW title \in STRING,
           NEW dueDate \in Int \ {0}, type = "custom" <=> title # "",
           NEW notes \in STRING, NEW paused \in BOOLEAN,
           NEW d, d = Dto(type, title, dueDate, notes, paused)
    PROVE  d \in DeadlinePayload /\ Valid(d)
<1>1. d \in DeadlinePayload
  BY Payload
<1>2. d.type = type /\ d.title = title /\ d.dueDate = dueDate
  BY DEF Dto
<1>3. QED
  BY <1>1, <1>2 DEF Valid

LEMMA Remainder ==
    ASSUME NEW d \in Deadline
    PROVE  Content(d) = Unchanged(d)
<1> DEFINE fields == {"type", "title", "dueDate", "notes", "paused"}
<1>1. DOMAIN d \ {"id"} = fields
  BY DEF Deadline
<1>2. Content(d) = [f \in fields |-> d[f]]
  BY <1>1 DEF Content
<1>3. Unchanged(d) = [f \in fields |-> d[f]]
  BY DEF Unchanged, Dto
<1>4. QED
  BY <1>2, <1>3

\* The modal sends every deadline of the vehicle, the managed one edited.
LEMMA ModalBodyProper ==
    ASSUME NEW x, x.vehicle \in VehicleRow, Consistent(x.vehicle),
           NEW d \in Deadline, \A y \in x.vehicle.deadlines : y.id = d.id => y = d,
           NEW e \in Edits
    PROVE  LET body == ModalBody(x, d, e) IN
           Proper(body) /\ Modest(body) /\ Rebuilds(body, x.vehicle, d.id)
<1> DEFINE D == x.vehicle.deadlines
           s == ById(D)
           sent(y) == IF y.id = d.id THEN Edited(d, e) ELSE Unchanged(y)
           t == [k \in DOMAIN s |-> sent(s[k])]
           body == ModalBody(x, d, e)
<1>1. /\ D \in SUBSET Deadline /\ IsFiniteSet(D)
      /\ Cardinality(D) <= MAX_DEADLINES_PER_VEHICLE
      /\ \A y \in D : Valid(y) /\ y.notes \notin LongNotes
      /\ \A y, z \in D : y.id = z.id => y = z
      /\ \A y, z \in D : y.type = z.type /\ y.type # "custom" => y = z
  BY DEF VehicleRow, Consistent
<1>2. /\ s \in Seq(D) /\ Len(s) = Cardinality(D)
      /\ \A y \in D : \E k \in DOMAIN s : s[k] = y
      /\ \A j, k \in DOMAIN s : s[j] = s[k] => j = k
  BY <1>1, ByIdLists
<1>3. body = [fields |-> NoFields, replaces |-> TRUE, deadlines |-> t]
  BY DEF ModalBody, Map
<1>4. /\ e.title \in STRING /\ e.title # ""
      /\ e.dueDate \in Int /\ e.dueDate # 0
      /\ e.notes \in STRING /\ e.paused \in BOOLEAN
  BY TypedAssumption DEF Edits
<1>5. ASSUME NEW y \in D
      PROVE  /\ sent(y) \in DeadlinePayload /\ Valid(sent(y))
             /\ sent(y).type = y.type
             /\ y.id # d.id => sent(y) = Content(y) /\ sent(y).notes = y.notes
  <2>1. /\ y \in Deadline /\ Valid(y)
        /\ y.type \in StandardTypes \union {"custom"} /\ y.title \in STRING
        /\ y.dueDate \in Int /\ y.notes \in STRING /\ y.paused \in BOOLEAN
    BY <1>1 DEF Deadline
  <2>2. CASE y.id = d.id
    <3>1. y = d
      BY <2>2
    <3>2. sent(y) = Edited(y, e)
      BY <2>2, <3>1
    <3>3. sent(y) = Dto(y.type, IF y.type = "custom" THEN e.title ELSE "", e.dueDate,
                        e.notes, IF y.type = "assicurazione" THEN e.paused ELSE y.paused)
      BY <3>2 DEF Edited
    <3> DEFINE title == IF y.type = "custom" THEN e.title ELSE ""
               paused == IF y.type = "assicurazione" THEN e.paused ELSE y.paused
    <3>a. title \in STRING /\ (y.type = "custom" <=> title # "")
      <4>1. CASE y.type = "custom"
        BY <1>4, <4>1
      <4>2. CASE y.type # "custom"
        <5>1. title = ""
          BY <4>2
        <5>2. QED
          BY <4>2, <5>1, TypedAssumption
      <4>3. QED
        BY <4>1, <4>2
    <3>b. paused \in BOOLEAN
      BY <1>4, <1>1 DEF Deadline
    <3>c. sent(y) = Dto(y.type, title, e.dueDate, e.notes, paused)
      BY <3>3
    <3>4. y.type = "custom" <=> title # ""
      BY <3>a
    <3> HIDE DEF title, paused, sent
    <3>5. /\ sent(y) \in DeadlinePayload /\ sent(y).type = y.type
          /\ sent(y).title = title /\ sent(y).dueDate = e.dueDate
      <4>1. PICK b \in BOOLEAN : b = paused
        BY <3>b
      <4>2. sent(y) = Dto(y.type, title, e.dueDate, e.notes, b)
        BY <3>c, <4>1, Zenon
      <4>3. sent(y) \in DeadlinePayload
        BY <1>4, <2>1, <3>a, <4>2, Payload
      <4>4. /\ sent(y).type = y.type /\ sent(y).title = title
            /\ sent(y).dueDate = e.dueDate
        BY <4>2 DEF Dto
      <4>5. QED
        BY <4>3, <4>4
    <3>6. QED
      BY <1>4, <2>2, <3>4, <3>5 DEF Valid
  <2>3. CASE y.id # d.id
    <3>1. sent(y) = Unchanged(y)
      BY <2>3
    <3>2. sent(y) = Dto(y.type, y.title, y.dueDate, y.notes, y.paused)
      BY <3>1 DEF Unchanged
    <3> HIDE DEF sent
    <3>3. /\ sent(y) \in DeadlinePayload /\ sent(y).type = y.type
          /\ sent(y).title = y.title /\ sent(y).dueDate = y.dueDate
          /\ sent(y).notes = y.notes
      BY <2>1, <3>2 DEF Dto, DeadlinePayload
    <3>4. QED
      BY <2>1, <3>1, <3>3, Remainder DEF Valid
  <2>4. QED
    BY <2>2, <2>3
<1> HIDE DEF s, sent, t, D
<1>6. DOMAIN s = 1..Len(s) /\ Len(s) \in Nat /\ \A k \in DOMAIN s : s[k] \in D
  BY <1>2, LenProperties, ElementOfSeq
<1>7. DOMAIN t = DOMAIN s /\ \A k \in DOMAIN t : t[k] = sent(s[k]) /\ s[k] \in D
  BY <1>6 DEF t
<1>8. t \in Seq(DeadlinePayload) /\ Len(t) = Len(s)
  <2>1. t \in [1..Len(s) -> DeadlinePayload]
    BY <1>5, <1>6, <1>7 DEF t
  <2>2. QED
    BY <1>6, <2>1, SeqDef
<1>9. body.fields = NoFields /\ body.replaces = TRUE /\ body.deadlines = t
  BY <1>3
<1>10. NoFields.make = Omitted /\ NoFields.model = Omitted
       /\ NoFields \in [make: STRING \union {Omitted}, model: STRING \union {Omitted},
                        mileageKm: Int \union {Omitted}]
  BY DEF NoFields
<1>11. body \in VehiclePayload
  BY <1>3, <1>8, <1>10 DEF VehiclePayload
<1>12. Acceptable(body)
  <2>1. \A i \in DOMAIN t : Valid(t[i])
    BY <1>5, <1>7
  <2>2. ASSUME NEW i \in DOMAIN t, NEW j \in DOMAIN t,
               t[i].type = t[j].type, t[i].type # "custom"
        PROVE  i = j
    <3>1. s[i].type = s[j].type /\ s[i].type # "custom" /\ s[i] \in D /\ s[j] \in D
      BY <1>5, <1>7, <2>2
    <3>2. s[i] = s[j]
      BY <1>1, <3>1
    <3>3. QED
      BY <1>2, <1>7, <3>2
  <2> HIDE DEF body
  <2>3. QED
    BY <1>9, <1>10, <2>1, <2>2 DEF Acceptable, WellFormed
<1>13. Rebuilds(body, x.vehicle, d.id)
  <2>1. Len(t) = Cardinality(D)
    BY <1>2, <1>8
  <2>2. ASSUME NEW y \in D, y.id # d.id PROVE \E i \in DOMAIN t : t[i] = Content(y)
    <3>1. PICK k \in DOMAIN s : s[k] = y
      BY <1>2
    <3>2. QED
      BY <1>5, <1>7, <2>2, <3>1
  <2> HIDE DEF body
  <2>3. QED
    BY <1>9, <2>1, <2>2 DEF Rebuilds, D
<1>14. Modest(body)
  <2>1. ASSUME NEW i \in Long(t), NEW j \in Long(t) PROVE i = j
    <3>1. /\ i \in DOMAIN t /\ t[i] = sent(s[i]) /\ s[i] \in D
          /\ j \in DOMAIN t /\ t[j] = sent(s[j]) /\ s[j] \in D
          /\ t[i].notes \in LongNotes /\ t[j].notes \in LongNotes
      BY <1>7 DEF Long
    <3>2. s[i].id = d.id /\ s[j].id = d.id
      BY <1>1, <1>5, <3>1
    <3>3. s[i] = s[j]
      BY <1>1, <3>1, <3>2
    <3>4. QED
      BY <1>2, <1>7, <3>1, <3>3
  <2>2. Len(t) <= MAX_DEADLINES_PER_VEHICLE
    BY <1>1, <1>2, <1>8
  <2> HIDE DEF body
  <2>3. QED
    BY <1>9, <2>1, <2>2 DEF Modest
<1>15. QED
  BY <1>9, <1>11, <1>12, <1>13, <1>14 DEF Proper

\* Two lists of payloads after each other.
LEMMA Joined ==
    ASSUME NEW S, NEW s \in Seq(S), NEW t \in Seq(S)
    PROVE  /\ s \o t \in Seq(S)
           /\ \A i \in DOMAIN (s \o t) :
                 \/ i \in DOMAIN s /\ (s \o t)[i] = s[i]
                 \/ i - Len(s) \in DOMAIN t /\ (s \o t)[i] = t[i - Len(s)]
           /\ \A i \in DOMAIN s : \E k \in DOMAIN (s \o t) : (s \o t)[k] = s[i]
           /\ \A i \in DOMAIN t : \E k \in DOMAIN (s \o t) : (s \o t)[k] = t[i]
           /\ DOMAIN (s \o t) \subseteq Int /\ Len(s) \in Int
<1> DEFINE u == s \o t
<1>1. /\ Len(s) \in Nat /\ DOMAIN s = 1..Len(s)
      /\ Len(t) \in Nat /\ DOMAIN t = 1..Len(t)
  BY LenProperties
<1>2. /\ u \in Seq(S) /\ Len(u) = Len(s) + Len(t)
      /\ \A i \in 1..Len(s) + Len(t) :
            u[i] = IF i <= Len(s) THEN s[i] ELSE t[i - Len(s)]
  BY ConcatProperties
<1>3. DOMAIN u = 1..Len(s) + Len(t)
  BY <1>2, LenProperties
<1> HIDE DEF u
<1>4. ASSUME NEW i \in DOMAIN u
      PROVE  \/ i \in DOMAIN s /\ u[i] = s[i]
             \/ i - Len(s) \in DOMAIN t /\ u[i] = t[i - Len(s)]
  BY <1>1, <1>2, <1>3
<1>5. ASSUME NEW i \in DOMAIN s PROVE \E k \in DOMAIN u : u[k] = s[i]
  BY <1>1, <1>2, <1>3
<1>6. ASSUME NEW i \in DOMAIN t PROVE \E k \in DOMAIN u : u[k] = t[i]
  <2>1. i + Len(s) \in DOMAIN u /\ u[i + Len(s)] = t[i]
    BY <1>1, <1>2, <1>3
  <2>2. QED
    BY <2>1
<1>7. QED
  BY <1>1, <1>2, <1>3, <1>4, <1>5, <1>6 DEF u

\* The form sends each of its rows that is full, and one deadline of a standard
\* kind at most.
LEMMA FormBodyProper ==
    ASSUME NEW v \in FormValues, Offered(v.make, v.model)
    PROVE  LET body == buildPayload(v) IN
           /\ Proper(body) /\ Brings(body, Rows(v))
           /\ body.fields.make # Omitted /\ Long(body.deadlines) = {}
<1> DEFINE T == STANDARD_DEADLINE_TYPES
           C == v.customDeadlines
           I == {i \in DOMAIN T : v.deadlines[T[i]] # 0}
           J == {i \in DOMAIN C : Written(C[i])}
           f == Filtered(T, I)
           g == Filtered(C, J)
           s == [k \in DOMAIN f |-> Dto(f[k], "", v.deadlines[f[k]], "", FALSE)]
           t == [k \in DOMAIN g |-> Dto("custom", g[k].title, g[k].dueDate, "", FALSE)]
           u == s \o t
           body == buildPayload(v)
<1>1. /\ T \in Seq(StandardTypes) /\ DOMAIN T = {1, 2}
      /\ T[1] = "bollo" /\ T[2] = "assicurazione"
  BY DEF STANDARD_DEADLINE_TYPES, StandardTypes
<1>2. C \in Seq(FormRow) /\ v.deadlines \in [StandardTypes -> Int]
  BY DEF FormValues
<1>3. body = [fields |-> [x \in {"make", "model", "mileageKm"} |-> v[x]],
              replaces |-> TRUE, deadlines |-> u]
  BY DEF buildPayload, Map
<1>4. /\ f \in Seq(StandardTypes)
      /\ \A i \in I : \E k \in DOMAIN f : f[k] = T[i]
      /\ \A k \in DOMAIN f : \E i \in I : f[k] = T[i]
      /\ \A j, k \in DOMAIN f :
            j # k => \E h, i \in I : h # i /\ f[j] = T[h] /\ f[k] = T[i]
  <2>1. I \in SUBSET (DOMAIN T)
    OBVIOUS
  <2> HIDE DEF T, I
  <2>2. f = Filtered(T, I)
    OBVIOUS
  <2> HIDE DEF f
  <2>3. QED
    <3>1. T \in Seq(StandardTypes) /\ I \in SUBSET (DOMAIN T)
      BY <1>1, <2>1
    <3> HIDE <1>1
    <3>2. f \in Seq(StandardTypes)
      BY <3>1, <2>2, FilterLeaves
    <3>3. \A i \in I : \E k \in DOMAIN f : f[k] = T[i]
      BY <3>1, <2>2, FilterLeaves
    <3>4. \A k \in DOMAIN f : \E i \in I : f[k] = T[i]
      BY <3>1, <2>2, FilterLeaves
    <3>5. \A j, k \in DOMAIN f :
            j # k => \E h, i \in I : h # i /\ f[j] = T[h] /\ f[k] = T[i]
      BY <3>1, <2>2, FilterLeaves
    <3>6. QED
      BY <3>2, <3>3, <3>4, <3>5
<1>5. /\ g \in Seq(FormRow)
      /\ \A i \in J : \E k \in DOMAIN g : g[k] = C[i]
      /\ \A k \in DOMAIN g : \E i \in J : g[k] = C[i]
  <2>1. J \in SUBSET (DOMAIN C)
    OBVIOUS
  <2> HIDE DEF C, J
  <2>2. g = Filtered(C, J)
    OBVIOUS
  <2> HIDE DEF g
  <2>3. QED
    BY <1>2, <2>1, <2>2, FilterLeaves
<1>6. \A i \in I : v.deadlines[T[i]] # 0 /\ i \in {1, 2}
  BY <1>1
<1>7. \A i \in J : Written(C[i])
  OBVIOUS
<1> HIDE DEF T, C, I, J, f, g
<1>8. ASSUME NEW k \in DOMAIN f
      PROVE  /\ f[k] \in StandardTypes /\ f[k] # "custom"
             /\ v.deadlines[f[k]] \in Int /\ v.deadlines[f[k]] # 0
             /\ s[k] \in DeadlinePayload /\ Valid(s[k]) /\ s[k].type = f[k]
             /\ s[k].notes \notin LongNotes
             /\ Row(s[k]) = [type |-> f[k], title |-> "", dueDate |-> v.deadlines[f[k]]]
  <2>1. f[k] \in StandardTypes
    BY <1>4, LenProperties, ElementOfSeq
  <2>8. v.deadlines[f[k]] \in Int
    BY <1>2, <2>1
  <2>9. PICK i \in I : f[k] = T[i]
    BY <1>4
  <2>10. v.deadlines[T[i]] # 0
    BY <1>6
  <2>2. v.deadlines[f[k]] \in Int /\ v.deadlines[f[k]] # 0
    BY <2>8, <2>9, <2>10
  <2>3. s[k] = Dto(f[k], "", v.deadlines[f[k]], "", FALSE)
    OBVIOUS
  <2> HIDE DEF s
  <2>4. PICK type, dueDate, d : type = f[k] /\ dueDate = v.deadlines[f[k]] /\ d = s[k]
    OBVIOUS
  <2>12. PICK none \in STRING : none = "" /\ none \notin LongNotes
    BY TypedAssumption
  <2>13. PICK no \in BOOLEAN : no = FALSE
    OBVIOUS
  <2>5. /\ type \in StandardTypes \union {"custom"} /\ dueDate \in Int \ {0}
        /\ type # "custom"
    BY <2>1, <2>2, <2>4 DEF StandardTypes
  <2>6. d = Dto(type, none, dueDate, none, no)
    BY <2>3, <2>4, <2>12, <2>13, Zenon
  <2>7. /\ d \in DeadlinePayload /\ Valid(d) /\ d.type = type /\ d.notes \notin LongNotes
        /\ Row(d) = [type |-> type, title |-> none, dueDate |-> dueDate]
    <3>1. type = "custom" <=> none # ""
      BY <2>5, <2>12
    <3>6. d.notes \notin LongNotes
      BY <2>6, <2>12 DEF Dto
    <3> HIDE <2>12, <2>4
    <3>2. d \in DeadlinePayload /\ Valid(d)
      BY <2>5, <2>6, <3>1, RowSent
    <3>3. d.type = type /\ d.title = none /\ d.dueDate = dueDate
      BY <2>6 DEF Dto
    <3>4. Row(d) = [type |-> type, title |-> none, dueDate |-> dueDate]
      BY <3>3 DEF Row
    <3>5. QED
      BY <3>2, <3>3, <3>4, <3>6
  <2>11. QED
    BY <2>1, <2>2, <2>4, <2>5, <2>7, <2>12
<1>9. ASSUME NEW k \in DOMAIN g
      PROVE  /\ t[k] \in DeadlinePayload /\ Valid(t[k]) /\ t[k].type = "custom"
             /\ t[k].notes \notin LongNotes
             /\ Row(t[k]) = [type |-> "custom", title |-> g[k].title,
                             dueDate |-> g[k].dueDate]
  <2>5. g[k] \in FormRow
    BY <1>5, LenProperties, ElementOfSeq
  <2>1. g[k].title \in STRING /\ g[k].dueDate \in Int
    BY <2>5 DEF FormRow
  <2>2. g[k].title # "" /\ g[k].dueDate # 0
    BY <1>5, <1>7 DEF Written
  <2>3. t[k] = Dto("custom", g[k].title, g[k].dueDate, "", FALSE)
    OBVIOUS
  <2> HIDE DEF t
  <2>4. PICK title, dueDate, d : title = g[k].title /\ dueDate = g[k].dueDate /\ d = t[k]
    OBVIOUS
  <2>12. PICK none \in STRING : none = "" /\ none \notin LongNotes
    BY TypedAssumption
  <2>13. PICK no \in BOOLEAN : no = FALSE
    OBVIOUS
  <2>6. d = Dto("custom", title, dueDate, none, no)
    BY <2>3, <2>4, <2>12, <2>13, Zenon
  <2>7. /\ d \in DeadlinePayload /\ Valid(d) /\ d.type = "custom"
        /\ d.notes \notin LongNotes
        /\ Row(d) = [type |-> "custom", title |-> title, dueDate |-> dueDate]
    <3>1. title \in STRING /\ dueDate \in Int \ {0}
      BY <2>1, <2>2, <2>4
    <3>2. PICK type : type = "custom"
      OBVIOUS
    <3>3. /\ type \in StandardTypes \union {"custom"}
          /\ type = "custom" <=> title # ""
      BY <2>2, <2>4, <3>2
    <3>4. d = Dto(type, title, dueDate, none, no)
      BY <2>6, <3>2, Zenon
    <3>5. d \in DeadlinePayload /\ Valid(d)
      BY <3>1, <3>3, <3>4, RowSent
    <3>6. d.type = type /\ d.title = title /\ d.dueDate = dueDate
      BY <3>4 DEF Dto
    <3>7. Row(d) = [type |-> type, title |-> title, dueDate |-> dueDate]
      BY <3>6 DEF Row
    <3>8. d.notes \notin LongNotes
      BY <2>6, <2>12 DEF Dto
    <3>9. QED
      BY <3>2, <3>5, <3>6, <3>7, <3>8
  <2>11. QED
    BY <2>4, <2>7
<1>10. DOMAIN s = DOMAIN f /\ DOMAIN t = DOMAIN g
  OBVIOUS
<1>11. s \in Seq(DeadlinePayload) /\ t \in Seq(DeadlinePayload)
  <2>1. /\ DOMAIN f = 1..Len(f) /\ Len(f) \in Nat
        /\ DOMAIN g = 1..Len(g) /\ Len(g) \in Nat
    BY <1>4, <1>5, LenProperties
  <2>2. \A k \in 1..Len(f) : s[k] \in DeadlinePayload
    BY <1>8, <2>1
  <2>3. \A k \in 1..Len(g) : t[k] \in DeadlinePayload
    BY <1>9, <2>1
  <2>4. s = [k \in 1..Len(f) |-> s[k]] /\ t = [k \in 1..Len(g) |-> t[k]]
    BY <2>1
  <2> HIDE DEF s, t
  <2>5. s \in [1..Len(f) -> DeadlinePayload]
    BY <2>2, <2>4
  <2>6. t \in [1..Len(g) -> DeadlinePayload]
    BY <2>3, <2>4
  <2>7. QED
    BY <2>1, <2>5, <2>6, SeqDef
<1> HIDE DEF s, t
<1>12. /\ u \in Seq(DeadlinePayload)
       /\ \A i \in DOMAIN u :
             \/ i \in DOMAIN s /\ u[i] = s[i]
             \/ i - Len(s) \in DOMAIN t /\ u[i] = t[i - Len(s)]
       /\ \A i \in DOMAIN s : \E k \in DOMAIN u : u[k] = s[i]
       /\ \A i \in DOMAIN t : \E k \in DOMAIN u : u[k] = t[i]
  BY <1>11, Joined
<1> HIDE DEF u
<1>13. \A i \in DOMAIN u : Valid(u[i])
  BY <1>8, <1>9, <1>10, <1>12
<1>14. ASSUME NEW i \in DOMAIN u, NEW j \in DOMAIN u,
              u[i].type = u[j].type, u[i].type # "custom"
       PROVE  i = j
  <2>1. i \in DOMAIN s /\ u[i] = s[i] /\ j \in DOMAIN s /\ u[j] = s[j]
    BY <1>9, <1>10, <1>12, <1>14
  <2>2. f[i] = f[j]
    BY <1>8, <1>10, <1>14, <2>1
  <2>3. SUFFICES ASSUME i # j PROVE FALSE
    OBVIOUS
  <2>4. PICK h \in I, k \in I : h # k /\ f[i] = T[h] /\ f[j] = T[k]
    BY <1>4, <1>10, <2>1, <2>3
  <2>5. QED
    BY <1>1, <1>6, <2>2, <2>4
<1>15. /\ body.fields.make = v.make /\ body.fields.model = v.model
       /\ body.replaces = TRUE /\ body.deadlines = u
       /\ v.make \in STRING /\ v.model \in STRING
       /\ v.make # Omitted /\ v.model # Omitted
  BY <1>3, AbsenceAssumption DEF FormValues
<1>16. body \in VehiclePayload
  <2>1. [x \in {"make", "model", "mileageKm"} |-> v[x]]
          = [make |-> v.make, model |-> v.model, mileageKm |-> v.mileageKm]
    OBVIOUS
  <2>2. v.mileageKm \in Int \union {Omitted}
    BY DEF FormValues
  <2>3. QED
    BY <1>3, <1>12, <1>15, <2>1, <2>2 DEF VehiclePayload
<1> HIDE DEF body
<1>17. Acceptable(body)
  BY <1>13, <1>14, <1>15 DEF Acceptable, WellFormed
<1>18. ASSUME NEW row \in Rows(v), Full(row)
       PROVE  \E i \in DOMAIN u : Row(u[i]) = row
  <2>1. CASE row \in {[type |-> x, title |-> "", dueDate |-> v.deadlines[x]] :
                         x \in StandardTypes}
    <3>1. PICK x \in StandardTypes :
              row = [type |-> x, title |-> "", dueDate |-> v.deadlines[x]]
      BY <2>1
    <3>2. v.deadlines[x] # 0
      BY <1>18, <3>1 DEF Full
    <3>3. PICK i \in I : T[i] = x
      <4>1. \E i \in DOMAIN T : T[i] = x
        BY <1>1 DEF StandardTypes
      <4>2. QED
        BY <3>2, <4>1 DEF I
    <3>4. PICK k \in DOMAIN f : f[k] = x
      BY <1>4, <3>3
    <3>5. Row(s[k]) = row
      BY <1>8, <3>1, <3>4
    <3>6. QED
      BY <1>10, <1>12, <3>5
  <2>2. CASE row \in {[type |-> "custom", title |-> C[i].title, dueDate |-> C[i].dueDate] :
                         i \in DOMAIN C}
    <3>1. PICK i \in DOMAIN C :
              row = [type |-> "custom", title |-> C[i].title, dueDate |-> C[i].dueDate]
      BY <2>2
    <3>2. i \in J
      BY <1>18, <3>1 DEF Full, Written, J
    <3>3. PICK k \in DOMAIN g : g[k] = C[i]
      BY <1>5, <3>2
    <3>4. Row(t[k]) = row
      BY <1>9, <3>1, <3>3
    <3>5. QED
      BY <1>10, <1>12, <3>4
  <2>3. QED
    BY <2>1, <2>2 DEF Rows, C
<1>19. Long(u) = {}
  <2>1. /\ \A k \in DOMAIN s : s[k].notes \notin LongNotes
        /\ \A k \in DOMAIN t : t[k].notes \notin LongNotes
    BY <1>8, <1>9, <1>10
  <2>2. \A i \in DOMAIN u : u[i].notes \notin LongNotes
    BY <1>12, <2>1
  <2>3. QED
    BY <2>2 DEF Long
<1>20. QED
  BY <1>15, <1>16, <1>17, <1>18, <1>19 DEF Proper, Brings, body

-----------------------------------------------------------------------------
(* The server.                                                             *)

\* What the server holds: vehicles, how often each was written, identifiers.
Stored(g, r, i) ==
    /\ g \in Seq(VehicleRow) /\ Len(g) <= MaxVehicles
    /\ r \in Seq(Nat) /\ Len(r) = Len(g)
    /\ i \in Nat
    /\ \A v \in DOMAIN g : Consistent(g[v])

\* What every step of the server keeps to: whatever was not written again is
\* as it was, and what is gone stays so.
Advance(g, r, g1, r1) ==
    /\ DOMAIN g \subseteq DOMAIN g1
    /\ \A v \in DOMAIN g :
          /\ r[v] <= r1[v]
          /\ r[v] = r1[v] => g1[v] = g[v]
          /\ g[v].deleted => g1[v].deleted

\* A deadline is what was sent, under an identifier.
LEMMA Stamped ==
    ASSUME NEW x \in DeadlinePayload, NEW k \in Nat \ {0},
           NEW d, d = [f \in DOMAIN x \union {"id"} |-> IF f = "id" THEN k ELSE x[f]]
    PROVE  /\ d \in Deadline /\ d.id = k /\ d.type = x.type
           /\ Valid(d) <=> Valid(x)
           /\ Content(d) = x /\ Row(d) = Row(x) /\ d.notes = x.notes
<1>1. DOMAIN x = {"type", "title", "dueDate", "notes", "paused"}
  BY DEF DeadlinePayload
<1>2. /\ x.type \in StandardTypes \union {"custom"} /\ x.title \in STRING
      /\ x.dueDate \in Int /\ x.notes \in STRING /\ x.paused \in BOOLEAN
  BY DEF DeadlinePayload
<1>3. DOMAIN d = {"id", "type", "title", "dueDate", "notes", "paused"}
  BY <1>1
<1>4. /\ d.id = k /\ d.type = x.type /\ d.title = x.title /\ d.dueDate = x.dueDate
      /\ d.notes = x.notes /\ d.paused = x.paused
  BY <1>1
<1>5. d \in Deadline
  BY <1>2, <1>3, <1>4 DEF Deadline
<1>6. Content(d) = x
  <2>1. DOMAIN d \ {"id"} = DOMAIN x
    BY <1>1, <1>3
  <2>2. \A f \in DOMAIN x : d[f] = x[f]
    BY <1>1
  <2>3. x = [f \in DOMAIN x |-> x[f]]
    BY DEF DeadlinePayload
  <2>4. QED
    BY <2>1, <2>2, <2>3 DEF Content
<1>7. QED
  BY <1>2, <1>4, <1>5, <1>6 DEF Valid, Row

\* The deadlines of a body, as the server enters them.
LEMMA Entered ==
    ASSUME issued \in Nat,
           NEW body, body \in VehiclePayload, Acceptable(body)
    PROVE  LET E == Server!Entries(body)
               n == Len(body.deadlines) IN
           /\ n \in Nat /\ Cardinality(E) = n
           /\ E \in SUBSET Deadline /\ IsFiniteSet(E)
           /\ \A d \in E : Valid(d) /\ issued < d.id /\ d.id <= issued + n
           /\ Long(body.deadlines) = {} => \A d \in E : d.notes \notin LongNotes
           /\ \A d, e \in E :
                 d.id = e.id \/ (d.type = e.type /\ d.type # "custom") => d = e
           /\ \A j \in DOMAIN body.deadlines :
                 \E d \in E : /\ Content(d) = body.deadlines[j]
                              /\ Row(d) = Row(body.deadlines[j])
<1> DEFINE s == body.deadlines
           n == Len(s)
           E == Server!Entries(body)
           entry(j) == [f \in DOMAIN s[j] \union {"id"} |->
                          IF f = "id" THEN issued + j ELSE s[j][f]]
           h == [j \in 1..n |-> entry(j)]
<1>1. s \in Seq(DeadlinePayload)
  BY DEF VehiclePayload
<1>2. n \in Nat /\ DOMAIN s = 1..n /\ \A j \in 1..n : s[j] \in DeadlinePayload
  BY <1>1, LenProperties, ElementOfSeq
<1>3. E = {entry(j) : j \in 1..n}
  BY DEF Server!Entries
<1>4. /\ \A j \in 1..n : Valid(s[j])
      /\ \A i, j \in 1..n : s[i].type = s[j].type /\ s[i].type # "custom" => i = j
  BY <1>2 DEF Acceptable, WellFormed
<1> HIDE DEF s, n
<1>5. ASSUME NEW j \in 1..n
      PROVE  /\ entry(j) \in Deadline /\ entry(j).id = issued + j
             /\ entry(j).type = s[j].type /\ Valid(entry(j))
             /\ Content(entry(j)) = s[j] /\ Row(entry(j)) = Row(s[j])
             /\ entry(j).notes = s[j].notes
  <2>1. PICK x, k, d : x = s[j] /\ k = issued + j /\ d = entry(j)
    OBVIOUS
  <2>2. x \in DeadlinePayload /\ k \in Nat \ {0} /\ Valid(x)
    BY <1>2, <1>4, <2>1
  <2>3. d = [f \in DOMAIN x \union {"id"} |-> IF f = "id" THEN k ELSE x[f]]
    BY <2>1
  <2>4. /\ d \in Deadline /\ d.id = k /\ d.type = x.type /\ Valid(d)
        /\ Content(d) = x /\ Row(d) = Row(x) /\ d.notes = x.notes
    <3> HIDE <2>1
    <3>1. QED
      BY <2>2, <2>3, Stamped
  <2> HIDE DEF entry
  <2>5. QED
    BY <2>1, <2>4
<1>6. \A j \in 1..n : h[j] = entry(j)
  OBVIOUS
<1> HIDE DEF entry, E, h
<1>7. \A d \in E : \E j \in 1..n : d = entry(j)
  BY <1>3
<1>8. E \in SUBSET Deadline
  BY <1>5, <1>7
<1>9. ASSUME NEW d \in E PROVE Valid(d) /\ issued < d.id /\ d.id <= issued + n
  <2>1. PICK j \in 1..n : d = entry(j)
    BY <1>7
  <2>2. Valid(d) /\ d.id = issued + j
    BY <1>5, <2>1
  <2>3. QED
    BY <1>2, <2>2
<1>10. ASSUME NEW d \in E, NEW e \in E,
              d.id = e.id \/ (d.type = e.type /\ d.type # "custom")
       PROVE  d = e
  <2>1. PICK i \in 1..n : d = entry(i)
    BY <1>7
  <2>2. PICK j \in 1..n : e = entry(j)
    BY <1>7
  <2>3. d.id = issued + i /\ e.id = issued + j /\ d.type = s[i].type /\ e.type = s[j].type
    BY <1>5, <2>1, <2>2
  <2>4. CASE d.id = e.id
    <3>1. i = j
      BY <1>2, <2>3, <2>4
    <3>2. QED
      BY <2>1, <2>2, <3>1
  <2>5. CASE d.type = e.type /\ d.type # "custom"
    <3>1. i = j
      BY <1>4, <2>3, <2>5
    <3>2. QED
      BY <2>1, <2>2, <3>1
  <2>6. QED
    BY <1>10, <2>4, <2>5
<1>11. h \in Injection(1..n, E) /\ h \in Surjection(1..n, E)
  <2>1. DOMAIN h = 1..n /\ h = [j \in 1..n |-> entry(j)]
    BY DEF h
  <2>2. \A j \in 1..n : h[j] \in E
    BY <1>3, <1>6
  <2>3. h \in [1..n -> E]
    BY <2>1, <2>2
  <2>4. ASSUME NEW i \in 1..n, NEW j \in 1..n, h[i] = h[j] PROVE i = j
    <3>1. issued + i = issued + j
      BY <1>5, <1>6, <2>4
    <3>2. QED
      BY <1>2, <3>1
  <2>5. \A d \in E : \E j \in 1..n : h[j] = d
    BY <1>6, <1>7
  <2>6. QED
    BY <2>3, <2>4, <2>5 DEF Injection, IsInjective, Surjection
<1>12. IsFiniteSet(E) /\ Cardinality(E) = n
  <2>1. IsFiniteSet(1..n) /\ Cardinality(1..n) = n
    BY <1>2, FS_Interval
  <2>2. IsFiniteSet(E)
    BY <1>11, <2>1, FS_Surjection
  <2>3. QED
    BY <1>11, <2>1, <2>2, FS_Injection, FS_Surjection
<1>13. ASSUME NEW j \in DOMAIN s
       PROVE  \E d \in E : Content(d) = s[j] /\ Row(d) = Row(s[j])
  <2>1. j \in 1..n
    BY <1>2
  <2>2. entry(j) \in E
    BY <1>3, <2>1
  <2>3. QED
    BY <1>5, <2>1, <2>2
<1>14. ASSUME Long(s) = {}, NEW d \in E PROVE d.notes \notin LongNotes
  <2>1. PICK j \in 1..n : d = entry(j)
    BY <1>7
  <2>2. QED
    BY <1>2, <1>5, <1>14, <2>1 DEF Long
<1>15. QED
  BY <1>2, <1>8, <1>9, <1>10, <1>12, <1>13, <1>14 DEF s, n, E

\* The deadlines of a garage.
Recorded(g) == UNION {g[v].deadlines : v \in DOMAIN g}

LEMMA Appended ==
    ASSUME NEW g, NEW r, NEW i, Stored(g, r, i), Len(g) < MaxVehicles,
           NEW x \in VehicleRow, Consistent(x), NEW j \in Nat
    PROVE  /\ Stored(Append(g, x), Append(r, 0), j)
           /\ Advance(g, r, Append(g, x), Append(r, 0))
           /\ Recorded(Append(g, x)) \subseteq Recorded(g) \union x.deadlines
<1> DEFINE g1 == Append(g, x)
           r1 == Append(r, 0)
           n == Len(g)
<1>1. /\ g \in Seq(VehicleRow) /\ r \in Seq(Nat) /\ n \in Nat /\ Len(r) = n
      /\ DOMAIN g = 1..n /\ DOMAIN r = 1..n
      /\ MaxVehicles \in Nat /\ n < MaxVehicles
  BY BoundsAssumption, LenProperties DEF Stored
<1>2. /\ g1 \in Seq(VehicleRow) /\ Len(g1) = n + 1 /\ DOMAIN g1 = 1..(n + 1)
      /\ \A v \in 1..n : g1[v] = g[v]
      /\ g1[n + 1] = x
  BY <1>1, AppendProperties, LenProperties
<1>3. /\ r1 \in Seq(Nat) /\ Len(r1) = n + 1
      /\ \A v \in 1..n : r1[v] = r[v]
  BY <1>1, AppendProperties
<1>4. \A v \in 1..n : r[v] \in Nat /\ Consistent(g[v])
  BY <1>1, ElementOfSeq DEF Stored
<1> HIDE DEF g1, r1, n
<1>5. ASSUME NEW v \in DOMAIN g1 PROVE v \in 1..n \/ v = n + 1
  BY <1>1, <1>2
<1>6. \A v \in DOMAIN g1 : Consistent(g1[v])
  BY <1>2, <1>4, <1>5
<1>7. Stored(g1, r1, j)
  <2>1. Len(g1) <= MaxVehicles /\ Len(r1) = Len(g1)
    BY <1>1, <1>2, <1>3
  <2>2. QED
    BY <1>2, <1>3, <1>6, <2>1 DEF Stored
<1>8. Advance(g, r, g1, r1)
  <2>1. DOMAIN g \subseteq DOMAIN g1
    BY <1>1, <1>2
  <2>2. QED
    BY <1>1, <1>2, <1>3, <1>4, <2>1 DEF Advance
<1>9. ASSUME NEW d \in Recorded(g1) PROVE d \in Recorded(g) \union x.deadlines
  <2>1. PICK v \in DOMAIN g1 : d \in g1[v].deadlines
    BY DEF Recorded
  <2>2. CASE v \in 1..n
    BY <1>1, <1>2, <2>1, <2>2 DEF Recorded
  <2>3. CASE v = n + 1
    BY <1>2, <2>1, <2>3
  <2>4. QED
    BY <1>5, <2>2, <2>3
<1>10. QED
  BY <1>7, <1>8, <1>9 DEF g1, r1

LEMMA Replaced ==
    ASSUME NEW g, NEW r, NEW i, Stored(g, r, i),
           NEW v \in DOMAIN g, ~g[v].deleted,
           NEW x \in VehicleRow, Consistent(x), NEW j \in Nat
    PROVE  /\ Stored([g EXCEPT ![v] = x], [r EXCEPT ![v] = @ + 1], j)
           /\ Advance(g, r, [g EXCEPT ![v] = x], [r EXCEPT ![v] = @ + 1])
           /\ Recorded([g EXCEPT ![v] = x]) \subseteq Recorded(g) \union x.deadlines
           /\ [r EXCEPT ![v] = @ + 1][v] # r[v]
<1> DEFINE g1 == [g EXCEPT ![v] = x]
           r1 == [r EXCEPT ![v] = @ + 1]
           n == Len(g)
<1>1. /\ g \in Seq(VehicleRow) /\ r \in Seq(Nat) /\ n \in Nat /\ Len(r) = n
      /\ DOMAIN g = 1..n /\ DOMAIN r = 1..n /\ n <= MaxVehicles
  BY LenProperties DEF Stored
<1>2. /\ \A u \in 1..n : r[u] \in Nat /\ Consistent(g[u]) /\ g[u] \in VehicleRow
  BY <1>1, ElementOfSeq DEF Stored
<1>3. g \in [1..n -> VehicleRow] /\ r \in [1..n -> Nat]
  BY <1>1, SeqDef
<1>4. /\ g1 \in [1..n -> VehicleRow] /\ r1 \in [1..n -> Nat]
      /\ g1[v] = x /\ r1[v] = r[v] + 1
      /\ \A u \in 1..n : u # v => g1[u] = g[u] /\ r1[u] = r[u]
  BY <1>1, <1>2, <1>3
<1> HIDE DEF g1, r1, n
<1>5. /\ g1 \in Seq(VehicleRow) /\ Len(g1) = n /\ DOMAIN g1 = 1..n
      /\ r1 \in Seq(Nat) /\ Len(r1) = n
  BY <1>1, <1>4, SeqDef
<1>6. ASSUME NEW u \in 1..n
      PROVE  /\ Consistent(g1[u]) /\ r[u] <= r1[u]
             /\ r[u] = r1[u] => g1[u] = g[u]
             /\ g[u].deleted => g1[u].deleted
  <2>1. CASE u = v
    <3>1. r[v] \in Nat /\ r1[v] = r[v] + 1 /\ g1[v] = x
      BY <1>1, <1>2, <1>4
    <3>2. QED
      BY <2>1, <3>1
  <2>2. CASE u # v
    <3>1. r[u] \in Nat /\ r1[u] = r[u] /\ g1[u] = g[u] /\ Consistent(g[u])
      BY <1>1, <1>2, <1>4, <2>2
    <3>2. QED
      BY <3>1
  <2>3. QED
    BY <2>1, <2>2
<1>7. Stored(g1, r1, j)
  BY <1>1, <1>5, <1>6 DEF Stored
<1>8. Advance(g, r, g1, r1)
  BY <1>1, <1>5, <1>6 DEF Advance
<1>9. ASSUME NEW d \in Recorded(g1) PROVE d \in Recorded(g) \union x.deadlines
  <2>1. PICK u \in DOMAIN g1 : d \in g1[u].deadlines
    BY DEF Recorded
  <2>2. QED
    BY <1>1, <1>4, <1>5, <2>1 DEF Recorded
<1>10. r1[v] # r[v]
  BY <1>1, <1>2, <1>4
<1>11. QED
  BY <1>7, <1>8, <1>9, <1>10 DEF g1, r1

\* A field of a vehicle and what a body brings of it.
LEMMA FieldsTyped ==
    ASSUME NEW body, body \in VehiclePayload
    PROVE  /\ body.fields.make \in STRING \union {Omitted}
           /\ body.fields.model \in STRING \union {Omitted}
           /\ body.fields.mileageKm \in Int \union {Omitted}
BY DEF VehiclePayload

\* A vehicle that is added.
LEMMA AddKeeps ==
    ASSUME Stored(garage, revision, issued), Len(garage) < MaxVehicles,
           NEW body, body \in VehiclePayload, Acceptable(body), Accepted(body),
           body.fields.make # Omitted,
           Server!Add(Account, body), revision' = Append(revision, 0)
    PROVE  /\ Stored(garage', revision', issued')
           /\ Advance(garage, revision, garage', revision')
           /\ Recorded(garage') \subseteq Recorded(garage) \union Server!Entries(body)
           /\ issued' = issued + Len(body.deadlines)
           /\ Len(garage') \in DOMAIN garage'
<1> DEFINE E == Server!Entries(body)
           k == body.fields
           value(f) == IF k[f] \in {Null, Omitted} THEN 0 ELSE k[f]
           x == [owner |-> Account, fields |-> [f \in Server!Fields |-> value(f)],
                 deadlines |-> E, deleted |-> FALSE]
<1>1. garage' = Append(garage, x) /\ issued' = issued + Len(body.deadlines)
  BY DEF Server!Add, Server!Issue
<1>2. issued \in Nat
  BY DEF Stored
<1>3. /\ Len(body.deadlines) \in Nat
      /\ E \in SUBSET Deadline /\ IsFiniteSet(E)
      /\ Cardinality(E) <= MAX_DEADLINES_PER_VEHICLE
      /\ \A d \in E : Valid(d) /\ d.notes \notin LongNotes
      /\ \A d, e \in E :
            d.id = e.id \/ (d.type = e.type /\ d.type # "custom") => d = e
  BY <1>2, Entered DEF Accepted
<1> HIDE DEF E
<1>4. /\ k.make \in STRING /\ k.model \in STRING /\ k.mileageKm \in Int \union {Omitted}
      /\ Offered(k.make, k.model)
  BY FieldsTyped DEF Acceptable
<1>5. Server!Fields = {"make", "model", "mileageKm"}
  BY DEF Server!Fields
<1>6. value("make") = k.make /\ value("model") = k.model /\ value("mileageKm") \in Int
  BY <1>4, AbsenceAssumption
<1>7. [f \in Server!Fields |-> value(f)]
        = [make |-> value("make"), model |-> value("model"),
           mileageKm |-> value("mileageKm")]
  BY <1>5
<1> HIDE DEF value
<1> DEFINE c == [make |-> value("make"), model |-> value("model"),
                 mileageKm |-> value("mileageKm")]
<1>8. c \in [make: STRING, model: STRING, mileageKm: Int]
      /\ c.make = k.make /\ c.model = k.model
  BY <1>4, <1>6
<1> HIDE DEF c, k
<1>9. PICK gone \in BOOLEAN : gone = FALSE
  OBVIOUS
<1>10. x = [owner |-> Account, fields |-> c, deadlines |-> E, deleted |-> gone]
  BY <1>7, <1>9, Zenon DEF c
<1> HIDE DEF x
<1>11. x \in VehicleRow /\ x.fields = c /\ x.deadlines = E
  BY <1>3, <1>8, <1>10 DEF VehicleRow
<1>12. Consistent(x)
  BY <1>3, <1>4, <1>8, <1>11 DEF Consistent
<1>13. issued + Len(body.deadlines) \in Nat
  BY <1>2, <1>3
<1>14. /\ Stored(Append(garage, x), Append(revision, 0), issued + Len(body.deadlines))
       /\ Advance(garage, revision, Append(garage, x), Append(revision, 0))
       /\ Recorded(Append(garage, x)) \subseteq Recorded(garage) \union x.deadlines
  BY <1>11, <1>12, <1>13, Appended
<1>15. Len(garage') \in DOMAIN garage'
  <2>1. garage \in Seq(VehicleRow)
    BY DEF Stored
  <2>2. Len(garage) \in Nat /\ Len(garage') = Len(garage) + 1
        /\ DOMAIN garage' = 1..Len(garage')
    BY <1>1, <1>11, <2>1, AppendProperties, LenProperties
  <2>3. QED
    BY <2>2
<1>16. QED
  BY <1>1, <1>11, <1>14, <1>15 DEF E

\* A vehicle that is edited: columns that the body does not bring are kept, and
\* so are the deadlines if it brings none.
LEMMA EditKeeps ==
    ASSUME Stored(garage, revision, issued), NEW v \in DOMAIN garage,
           NEW body, body \in VehiclePayload, Acceptable(body), Accepted(body),
           Server!Edit(v, body), Touch(v)
    PROVE  /\ Stored(garage', revision', issued')
           /\ Advance(garage, revision, garage', revision')
           /\ Recorded(garage') \subseteq Recorded(garage) \union Server!Entries(body)
           /\ issued' = issued + Len(body.deadlines)
           /\ revision'[v] # revision[v]
           /\ body.fields = NoFields => garage'[v].fields = garage[v].fields
           /\ body.replaces => garage'[v].deadlines = Server!Entries(body)
<1> DEFINE E == Server!Entries(body)
           k == body.fields
           old == garage[v]
           value(f) == IF k[f] = Omitted THEN old.fields[f] ELSE k[f]
           kept == IF body.replaces THEN E ELSE old.deadlines
           F == [f \in Server!Fields |-> value(f)]
           x == [old EXCEPT !.fields = F, !.deadlines = kept]
<1>1. issued' = issued + Len(body.deadlines) /\ ~old.deleted
  BY DEF Server!Edit, Server!Issue
<1>2. /\ issued \in Nat /\ garage \in Seq(VehicleRow) /\ old \in VehicleRow
      /\ Consistent(old)
  <2>1. issued \in Nat /\ garage \in Seq(VehicleRow) /\ Consistent(old)
    BY DEF Stored
  <2>2. QED
    BY <2>1, LenProperties, ElementOfSeq
<1>3. garage' = [garage EXCEPT ![v] = x]
  <2>1. garage' = [garage EXCEPT
          ![v].fields = [f \in Server!Fields |-> IF body.fields[f] = Omitted THEN @[f]
                                          ELSE body.fields[f]],
          ![v].deadlines = IF body.replaces THEN Server!Entries(body) ELSE @]
    BY DEF Server!Edit
  <2>2. QED
    BY <1>2, <2>1 DEF VehicleRow
<1>4. /\ Len(body.deadlines) \in Nat
      /\ E \in SUBSET Deadline /\ IsFiniteSet(E)
      /\ Cardinality(E) <= MAX_DEADLINES_PER_VEHICLE
      /\ \A d \in E : Valid(d) /\ d.notes \notin LongNotes
      /\ \A d, e \in E :
            d.id = e.id \/ (d.type = e.type /\ d.type # "custom") => d = e
  BY <1>2, Entered DEF Accepted
<1> HIDE DEF E
<1>5. /\ old.fields \in [make: STRING, model: STRING, mileageKm: Int]
      /\ old.fields.make \in STRING /\ old.fields.model \in STRING
      /\ old.fields.mileageKm \in Int
      /\ old.fields = [make |-> old.fields.make, model |-> old.fields.model,
                       mileageKm |-> old.fields.mileageKm]
      /\ old.deadlines \in SUBSET Deadline
  BY <1>2 DEF VehicleRow
<1>6. /\ k.make \in STRING \union {Omitted} /\ k.model \in STRING \union {Omitted}
      /\ k.mileageKm \in Int \union {Omitted}
      /\ k.make = Omitted <=> k.model = Omitted
      /\ k.model # Omitted => Offered(k.make, k.model)
  BY FieldsTyped DEF Acceptable
<1>7. Offered(old.fields.make, old.fields.model)
  BY <1>2 DEF Consistent
<1>8. /\ value("make") \in STRING /\ value("model") \in STRING
      /\ value("mileageKm") \in Int
      /\ Offered(value("make"), value("model"))
  BY <1>5, <1>6, <1>7
<1>9. Server!Fields = {"make", "model", "mileageKm"}
  BY DEF Server!Fields
<1> DEFINE c == [make |-> value("make"), model |-> value("model"),
                 mileageKm |-> value("mileageKm")]
<1>10. F = c
  BY <1>9
<1>11. k = NoFields => c = old.fields
  <2>1. k = NoFields => /\ value("make") = old.fields.make
                        /\ value("model") = old.fields.model
                        /\ value("mileageKm") = old.fields.mileageKm
    BY DEF NoFields
  <2> HIDE DEF value
  <2>2. QED
    BY <1>5, <2>1
<1> HIDE DEF value, F
<1>12. c \in [make: STRING, model: STRING, mileageKm: Int]
       /\ c.make = value("make") /\ c.model = value("model")
  BY <1>8
<1> HIDE DEF c, k
<1>13. /\ kept \in SUBSET Deadline /\ IsFiniteSet(kept)
       /\ Cardinality(kept) <= MAX_DEADLINES_PER_VEHICLE
       /\ \A d \in kept : Valid(d) /\ d.notes \notin LongNotes
       /\ \A d, e \in kept :
            d.id = e.id \/ (d.type = e.type /\ d.type # "custom") => d = e
       /\ kept \subseteq old.deadlines \union E
       /\ body.replaces => kept = E
  <2>1. CASE body.replaces
    <3>1. kept = E
      BY <2>1
    <3> HIDE DEF kept
    <3>2. QED
      BY <1>4, <3>1
  <2>2. CASE ~body.replaces
    <3>1. kept = old.deadlines
      BY <2>2
    <3> HIDE DEF kept
    <3>2. QED
      BY <1>2, <1>5, <2>2, <3>1 DEF Consistent
  <2>3. QED
    BY <2>1, <2>2
<1> HIDE DEF kept
<1>14. x = [old EXCEPT !.fields = c, !.deadlines = kept]
  BY <1>10
<1> HIDE DEF x, old
<1>15. x \in VehicleRow /\ x.fields = c /\ x.deadlines = kept
  BY <1>2, <1>12, <1>13, <1>14 DEF VehicleRow
<1>16. Consistent(x)
  BY <1>8, <1>12, <1>13, <1>15 DEF Consistent
<1>17. issued + Len(body.deadlines) \in Nat
  BY <1>2, <1>4
<1>18. revision' = [revision EXCEPT ![v] = @ + 1]
  BY DEF Touch
<1>19. /\ Stored(garage', revision', issued')
       /\ Advance(garage, revision, garage', revision')
       /\ Recorded(garage') \subseteq Recorded(garage) \union x.deadlines
       /\ revision'[v] # revision[v]
  BY <1>1, <1>3, <1>15, <1>16, <1>17, <1>18, Replaced DEF old
<1>20. garage'[v] = x
  BY <1>2, <1>3
<1>21. old.deadlines \subseteq Recorded(garage)
  BY DEF old, Recorded
<1>22. QED
  BY <1>1, <1>11, <1>13, <1>15, <1>19, <1>20, <1>21 DEF E, k, old

\* A vehicle that is removed.
LEMMA RemoveKeeps ==
    ASSUME Stored(garage, revision, issued), NEW v \in DOMAIN garage,
           Server!Remove(v), Touch(v)
    PROVE  /\ Stored(garage', revision', issued')
           /\ Advance(garage, revision, garage', revision')
           /\ Recorded(garage') \subseteq Recorded(garage)
           /\ issued' = issued /\ revision'[v] # revision[v]
<1> DEFINE old == garage[v]
           x == [old EXCEPT !.deleted = TRUE, !.deadlines = {}]
<1>1. issued' = issued /\ ~old.deleted
  BY DEF Server!Remove
<1>2. /\ issued \in Nat /\ garage \in Seq(VehicleRow) /\ old \in VehicleRow
      /\ Consistent(old)
  <2>1. issued \in Nat /\ garage \in Seq(VehicleRow) /\ Consistent(old)
    BY DEF Stored
  <2>2. QED
    BY <2>1, LenProperties, ElementOfSeq
<1>3. garage' = [garage EXCEPT ![v] = x]
  BY <1>2 DEF Server!Remove, VehicleRow
<1> HIDE DEF x
<1>4. PICK gone \in BOOLEAN : gone = TRUE
  OBVIOUS
<1>5. x = [old EXCEPT !.deleted = gone, !.deadlines = {}]
  BY <1>4, Zenon DEF x
<1> HIDE DEF old
<1>6. x \in VehicleRow /\ x.fields = old.fields /\ x.deadlines = {}
  BY <1>2, <1>5 DEF VehicleRow
<1>7. Consistent(x)
  BY <1>2, <1>6, FS_EmptySet, BoundsAssumption DEF Consistent
<1>8. revision' = [revision EXCEPT ![v] = @ + 1]
  BY DEF Touch
<1>9. /\ Stored(garage', revision', issued')
      /\ Advance(garage, revision, garage', revision')
      /\ Recorded(garage') \subseteq Recorded(garage) \union x.deadlines
      /\ revision'[v] # revision[v]
  BY <1>1, <1>2, <1>3, <1>6, <1>7, <1>8, Replaced DEF old
<1>10. QED
  BY <1>1, <1>6, <1>9

-----------------------------------------------------------------------------
(* The hook.                                                               *)

\* A vehicle as a page holds it.
Item == [id: 1..MaxVehicles, vehicle: VehicleRow, revision: Nat]

Ids(data) == {x.id : x \in data}

\* All that a hook holds, shown or not.
Items(h) == h.data \union UNION {l.data : l \in h.loads}

\* What is there under the key of one vehicle is that vehicle.
Names(told, data, key) ==
    told = "shown" /\ key.page \in {"detail", "edit"} => Ids(data) = {key.of}

Sound(h) ==
    /\ h \in Resource(Places, Item)
    /\ Names(h.status, h.data, h.of)
    /\ \A l \in h.loads : Names(l.told, l.data, l.key)

\* Data under a key that is no older than fl, and none missing.
Recent(data, key, g, fl) ==
    /\ \A x \in data : x.id \in DOMAIN fl => x.revision >= fl[x.id]
    /\ key.page = "list" =>
          {v \in DOMAIN g : ~g[v].deleted} \intersect DOMAIN fl \subseteq Ids(data)

\* Once the effect has run, what can still come is for the page as it is.
Fresh(h, g, fl) ==
    /\ ~h.due => \A l \in h.loads : ~l.aborted =>
          l.key = h.key /\ (l.told = "shown" => Recent(l.data, l.key, g, fl))
    /\ Settled(h) => Recent(h.data, h.of, g, fl)

LEMMA Shape ==
    ASSUME NEW h \in Resource(Places, Item)
    PROVE  /\ h.key \in Places /\ h.of \in Places
           /\ h.status \in {"loading", "shown", "notFound", "failed"}
           /\ h.data \in SUBSET Item /\ h.due \in BOOLEAN
           /\ h.loads \in SUBSET Load(Places, Item)
           /\ h = [key |-> h.key, of |-> h.of, status |-> h.status, data |-> h.data,
                   due |-> h.due, loads |-> h.loads]
BY DEF Resource

LEMMA LoadShape ==
    ASSUME NEW l \in Load(Places, Item)
    PROVE  /\ l.key \in Places /\ l.told \in {"nothing", "shown", "notFound", "failed"}
           /\ l.data \in SUBSET Item /\ l.aborted \in BOOLEAN
           /\ l = [key |-> l.key, told |-> l.told, data |-> l.data,
                   aborted |-> l.aborted]
BY DEF Load

\* A hook of well-formed parts.
LEMMA Built ==
    ASSUME NEW key \in Places, NEW of \in Places,
           NEW status \in {"loading", "shown", "notFound", "failed"},
           NEW data \in SUBSET Item, NEW due \in BOOLEAN,
           NEW loads \in SUBSET Load(Places, Item),
           NEW h, h = [key |-> key, of |-> of, status |-> status, data |-> data,
                       due |-> due, loads |-> loads]
    PROVE  h \in Resource(Places, Item)
BY DEF Resource

LEMMA LoadBuilt ==
    ASSUME NEW key \in Places, NEW told \in {"nothing", "shown", "notFound", "failed"},
           NEW data \in SUBSET Item, NEW aborted \in BOOLEAN,
           NEW l, l = [key |-> key, told |-> told, data |-> data, aborted |-> aborted]
    PROVE  l \in Load(Places, Item)
BY DEF Load

\* The page that waits for its effect to run has nothing settled.
LEMMA FreshWhenDue ==
    ASSUME NEW h, h.due, NEW g, NEW fl
    PROVE  Fresh(h, g, fl)
BY DEF Fresh, Settled

LEMMA FreshWhenLoading ==
    ASSUME NEW h, h.status # "shown", NEW g, NEW fl,
           \A l \in h.loads : ~l.aborted => l.key = h.key /\ l.told # "shown"
    PROVE  Fresh(h, g, fl)
BY DEF Fresh, Settled

\* The effect asks, and aborts what was asked before.
LEMMA AskedLoads ==
    ASSUME NEW h, Sound(h), NEW known \in BOOLEAN
    PROVE  LET h1 == Asked(h, known) IN
           /\ h1 \in Resource(Places, Item)
           /\ h1.key = h.key /\ h1.of = h.of /\ h1.status = h.status
           /\ h1.data = h.data /\ ~h1.due
           /\ \A l \in h1.loads :
                 \/ /\ l.aborted
                    /\ \E m \in h.loads : l.key = m.key /\ l.told = m.told /\ l.data = m.data
                 \/ l.key = h.key /\ l.told # "shown" /\ l.data = {} /\ ~l.aborted
           /\ \E l \in h1.loads : ~l.aborted
<1> DEFINE h1 == Asked(h, known)
           stale(m) == [m EXCEPT !.aborted = TRUE]
           new == [key |-> h.key, told |-> IF known THEN "nothing" ELSE "notFound",
                   data |-> {}, aborted |-> FALSE]
           loads == {stale(l) : l \in {x \in h.loads : x.told # "nothing"}} \union {new}
<1>1. /\ h \in Resource(Places, Item)
      /\ h.key \in Places /\ h.of \in Places
      /\ h.status \in {"loading", "shown", "notFound", "failed"}
      /\ h.data \in SUBSET Item
      /\ h.loads \in SUBSET Load(Places, Item)
  BY Shape DEF Sound
<1>2. PICK no \in BOOLEAN, yes \in BOOLEAN : no = FALSE /\ yes = TRUE
  OBVIOUS
<1>3. h1 = [key |-> h.key, of |-> h.of, status |-> h.status, data |-> h.data,
            due |-> no, loads |-> loads]
  <2>1. h1 = [h EXCEPT !.due = FALSE, !.loads = loads]
    BY DEF Asked
  <2>2. h1 = [h EXCEPT !.due = no, !.loads = loads]
    BY <1>2, <2>1, Zenon
  <2>3. h = [key |-> h.key, of |-> h.of, status |-> h.status, data |-> h.data,
             due |-> h.due, loads |-> h.loads]
    BY <1>1, Shape
  <2> HIDE DEF h1, loads
  <2>4. QED
    BY <2>2, <2>3
<1>4. ASSUME NEW m \in h.loads
      PROVE  /\ stale(m) \in Load(Places, Item) /\ stale(m).aborted
             /\ stale(m).key = m.key /\ stale(m).told = m.told /\ stale(m).data = m.data
  <2>1. /\ m.key \in Places /\ m.told \in {"nothing", "shown", "notFound", "failed"}
        /\ m.data \in SUBSET Item
        /\ m = [key |-> m.key, told |-> m.told, data |-> m.data, aborted |-> m.aborted]
    BY <1>1, LoadShape
  <2>2. stale(m) = [m EXCEPT !.aborted = yes]
    BY <1>2, Zenon
  <2> HIDE DEF stale
  <2>3. stale(m) = [key |-> m.key, told |-> m.told, data |-> m.data, aborted |-> yes]
    BY <2>1, <2>2
  <2>4. stale(m) \in Load(Places, Item)
    BY <2>1, <2>3, LoadBuilt
  <2>5. /\ stale(m).key = m.key /\ stale(m).told = m.told /\ stale(m).data = m.data
        /\ stale(m).aborted = yes
    BY <2>3
  <2>6. QED
    BY <1>2, <2>4, <2>5
<1>5. /\ new \in Load(Places, Item) /\ new.key = h.key /\ new.told # "shown"
      /\ new.data = {} /\ ~new.aborted
  <2>1. PICK told \in {"nothing", "notFound"} :
            told = IF known THEN "nothing" ELSE "notFound"
    OBVIOUS
  <2>2. new = [key |-> h.key, told |-> told, data |-> {}, aborted |-> no]
    BY <1>2, <2>1, Zenon
  <2> HIDE DEF new
  <2>3. new \in Load(Places, Item)
    BY <1>1, <2>2, LoadBuilt
  <2>4. /\ new.key = h.key /\ new.told = told /\ new.data = {} /\ new.aborted = no
    BY <2>2
  <2>5. QED
    BY <1>2, <2>3, <2>4
<1>6. \A l \in loads : (\E m \in h.loads : l = stale(m)) \/ l = new
  OBVIOUS
<1>7. new \in loads
  OBVIOUS
<1> HIDE DEF stale, new, loads, h1
<1>8. loads \in SUBSET Load(Places, Item)
  BY <1>4, <1>5, <1>6
<1>9. h1 \in Resource(Places, Item)
  BY <1>1, <1>3, <1>8, Built
<1>10. /\ h1.key = h.key /\ h1.of = h.of /\ h1.status = h.status
       /\ h1.data = h.data /\ h1.due = no /\ h1.loads = loads
  BY <1>3
<1>11. ASSUME NEW l \in loads
       PROVE  \/ /\ l.aborted
                 /\ \E m \in h.loads : l.key = m.key /\ l.told = m.told /\ l.data = m.data
              \/ l.key = h.key /\ l.told # "shown" /\ l.data = {} /\ ~l.aborted
  <2>1. CASE l = new
    BY <1>5, <2>1
  <2>2. CASE \E m \in h.loads : l = stale(m)
    <3>1. PICK m \in h.loads : l = stale(m)
      BY <2>2
    <3>2. QED
      BY <1>4, <3>1
  <2>3. QED
    BY <1>6, <2>1, <2>2
<1>12. QED
  BY <1>2, <1>5, <1>7, <1>9, <1>10, <1>11 DEF h1

\* What every operation of the hook keeps to.
Passed(h, h1) == Sound(h1) /\ Items(h1) \subseteq Items(h)

LEMMA FlushedPasses ==
    ASSUME NEW h, Sound(h), NEW g, NEW fl, Fresh(h, g, fl)
    PROVE  LET h1 == Flushed(h) IN
           /\ Passed(h, h1) /\ h1.key = h.key /\ h1.of = h.of
           /\ h1.status = h.status /\ h1.data = h.data
           /\ Fresh(h1, g, fl)
<1> DEFINE known == h.key.page # "create"
           h1 == Asked(h, known)
<1>1. CASE ~h.due
  <2>1. Flushed(h) = h
    BY <1>1 DEF Flushed
  <2>2. QED
    BY <2>1 DEF Passed
<1>2. CASE h.due
  <2>1. Flushed(h) = h1
    BY <1>2 DEF Flushed
  <2>2. known \in BOOLEAN
    OBVIOUS
  <2> HIDE DEF known
  <2>3. /\ h1 \in Resource(Places, Item)
        /\ h1.key = h.key /\ h1.of = h.of /\ h1.status = h.status
        /\ h1.data = h.data /\ ~h1.due
        /\ \A l \in h1.loads :
              \/ /\ l.aborted
                 /\ \E m \in h.loads : l.key = m.key /\ l.told = m.told /\ l.data = m.data
              \/ l.key = h.key /\ l.told # "shown" /\ l.data = {} /\ ~l.aborted
        /\ \E l \in h1.loads : ~l.aborted
    BY <2>2, AskedLoads
  <2> HIDE DEF h1
  <2>4. Sound(h1)
    BY <2>3 DEF Sound, Names
  <2>5. ASSUME NEW x \in Items(h1) PROVE x \in Items(h)
    <3>1. CASE x \in h1.data
      BY <2>3, <3>1 DEF Items
    <3>2. CASE \E l \in h1.loads : x \in l.data
      <4>1. PICK l \in h1.loads : x \in l.data
        BY <3>2
      <4>2. PICK m \in h.loads : l.data = m.data
        BY <2>3, <4>1
      <4>3. QED
        BY <4>1, <4>2 DEF Items
    <3>3. QED
      BY <3>1, <3>2 DEF Items
  <2>6. Fresh(h1, g, fl)
    BY <2>3 DEF Fresh, Settled
  <2>7. QED
    BY <2>1, <2>3, <2>4, <2>5, <2>6 DEF Passed
<1>3. QED
  BY <1>1, <1>2

\* The parts of a hook that stands for another.
LEMMA Passing ==
    ASSUME NEW h, Sound(h), NEW h1 \in Resource(Places, Item),
           h1.loads \subseteq h.loads,
           \/ h1.data = {} /\ h1.status # "shown"
           \/ h1.data = h.data /\ h1.status = h.status /\ h1.of = h.of
    PROVE  Passed(h, h1)
<1>1. Sound(h1)
  BY DEF Sound, Names
<1>2. Items(h1) \subseteq Items(h)
  BY DEF Items
<1>3. QED
  BY <1>1, <1>2 DEF Passed

LEMMA KeyedPasses ==
    ASSUME NEW h, Sound(h), NEW p \in Places, NEW g, NEW fl,
           p = h.key => Fresh(h, g, fl)
    PROVE  LET h1 == Keyed(h, p) IN
           Passed(h, h1) /\ h1.key = p /\ Fresh(h1, g, fl)
<1> DEFINE h1 == Keyed(h, p)
<1>1. CASE h.key = p
  <2>1. h1 = h
    BY <1>1 DEF Keyed
  <2>2. QED
    BY <1>1, <2>1 DEF Passed
<1>2. CASE h.key # p
  <2>1. h \in Resource(Places, Item)
    BY DEF Sound
  <2>2. PICK yes \in BOOLEAN : yes = TRUE
    OBVIOUS
  <2>3. h1 = [h EXCEPT !.key = p, !.due = TRUE]
    BY <1>2 DEF Keyed
  <2>4. h1 = [h EXCEPT !.key = p, !.due = yes]
    BY <2>2, <2>3, Zenon
  <2> HIDE DEF h1
  <2>5. h1 = [key |-> p, of |-> h.of, status |-> h.status, data |-> h.data,
              due |-> yes, loads |-> h.loads]
    <3>1. PICK due \in BOOLEAN : due = h.due
      BY <2>1, Shape
    <3>2. PICK key, of, status, data, loads :
              /\ key = h.key /\ of = h.of /\ status = h.status /\ data = h.data
              /\ loads = h.loads
      OBVIOUS
    <3>3. h = [key |-> key, of |-> of, status |-> status, data |-> data,
               due |-> due, loads |-> loads]
      BY <2>1, <3>1, <3>2, Shape
    <3>4. h1 = [key |-> p, of |-> of, status |-> status, data |-> data,
                due |-> yes, loads |-> loads]
      BY <2>4, <3>3
    <3>5. QED
      BY <3>2, <3>4, Zenon
  <2>6. h1 \in Resource(Places, Item)
    BY <2>1, <2>5, Shape, Built
  <2>7. /\ h1.key = p /\ h1.of = h.of /\ h1.status = h.status /\ h1.data = h.data
        /\ h1.due = yes /\ h1.loads = h.loads
    BY <2>5
  <2>8. Passed(h, h1)
    BY <2>6, <2>7, Passing
  <2>9. Fresh(h1, g, fl)
    BY <2>2, <2>7, FreshWhenDue
  <2>10. QED
    BY <2>7, <2>8, <2>9 DEF h1
<1>3. QED
  BY <1>1, <1>2

LEMMA PendingParts ==
    ASSUME NEW h \in Resource(Places, Item)
    PROVE  LET h1 == pending(h) IN
           /\ h1 \in Resource(Places, Item)
           /\ h1.key = h.key /\ h1.of = h.key /\ h1.status = "loading" /\ h1.data = {}
           /\ h1.due = h.due /\ h1.loads = h.loads
<1> DEFINE h1 == pending(h)
<1>1. PICK due \in BOOLEAN : due = h.due
  BY Shape
<1>2. h1 = [key |-> h.key, of |-> h.key, status |-> "loading", data |-> {},
            due |-> due, loads |-> h.loads]
  <2>1. h = [key |-> h.key, of |-> h.of, status |-> h.status, data |-> h.data,
             due |-> due, loads |-> h.loads]
    BY <1>1, Shape
  <2>2. PICK key, of, status, data, loads :
            /\ key = h.key /\ of = h.of /\ status = h.status /\ data = h.data
            /\ loads = h.loads
    OBVIOUS
  <2>4. h = [key |-> key, of |-> of, status |-> status, data |-> data,
             due |-> due, loads |-> loads]
    BY <2>1, <2>2, Zenon
  <2>5. h1 = [h EXCEPT !.of = key, !.status = "loading", !.data = {}]
    BY <2>2, Zenon DEF pending
  <2> HIDE DEF h1
  <2>6. h1 = [key |-> key, of |-> key, status |-> "loading", data |-> {},
              due |-> due, loads |-> loads]
    BY <2>4, <2>5
  <2>3. QED
    BY <2>2, <2>6, Zenon
<1> HIDE DEF h1
<1>3. h1 \in Resource(Places, Item)
  BY <1>2, Shape, Built
<1>4. /\ h1.key = h.key /\ h1.of = h.key /\ h1.status = "loading" /\ h1.data = {}
      /\ h1.due = due /\ h1.loads = h.loads
  BY <1>2
<1>5. QED
  BY <1>1, <1>3, <1>4 DEF h1

LEMMA ReloadPasses ==
    ASSUME NEW h, Sound(h), NEW g, NEW fl
    PROVE  LET h1 == reload(h) IN
           Passed(h, h1) /\ h1.key = h.key /\ Fresh(h1, g, fl)
<1> DEFINE h0 == pending(h)
           h1 == reload(h)
<1>1. h \in Resource(Places, Item)
  BY DEF Sound
<1>2. /\ h0 \in Resource(Places, Item)
      /\ h0.key = h.key /\ h0.of = h.key /\ h0.status = "loading" /\ h0.data = {}
      /\ h0.loads = h.loads
  BY <1>1, PendingParts
<1>3. PICK yes \in BOOLEAN : yes = TRUE
  OBVIOUS
<1>4. h1 = [h0 EXCEPT !.due = TRUE]
  BY DEF reload
<1>5. h1 = [h0 EXCEPT !.due = yes]
  BY <1>3, <1>4, Zenon
<1> HIDE DEF h0, h1
<1>6. h1 = [key |-> h0.key, of |-> h0.of, status |-> h0.status, data |-> h0.data,
            due |-> yes, loads |-> h0.loads]
  BY <1>2, <1>5, Shape
<1>7. h1 \in Resource(Places, Item)
  BY <1>2, <1>6, Shape, Built
<1>8. /\ h1.key = h.key /\ h1.status = "loading" /\ h1.data = {}
      /\ h1.due = yes /\ h1.loads = h.loads
  BY <1>2, <1>6
<1>9. Passed(h, h1)
  BY <1>7, <1>8, Passing
<1>10. Fresh(h1, g, fl)
  BY <1>3, <1>8, FreshWhenDue
<1>11. QED
  BY <1>8, <1>9, <1>10 DEF h1

LEMMA MountedPasses ==
    ASSUME NEW p \in Places, NEW g, NEW fl
    PROVE  LET h1 == Mounted(p) IN
           Sound(h1) /\ Items(h1) = {} /\ h1.key = p /\ h1.of = p /\ Fresh(h1, g, fl)
<1> DEFINE h1 == Mounted(p)
<1>1. PICK yes \in BOOLEAN : yes = TRUE
  OBVIOUS
<1>2. h1 = [key |-> p, of |-> p, status |-> "loading", data |-> {}, due |-> yes,
            loads |-> {}]
  BY <1>1, Zenon DEF Mounted
<1> HIDE DEF h1
<1>3. h1 \in Resource(Places, Item)
  BY <1>2, Built
<1>4. /\ h1.key = p /\ h1.of = p /\ h1.status = "loading" /\ h1.data = {}
      /\ h1.due = yes /\ h1.loads = {}
  BY <1>2
<1>5. Sound(h1)
  BY <1>3, <1>4 DEF Sound, Names
<1>6. Items(h1) = {}
  BY <1>4 DEF Items
<1>7. Fresh(h1, g, fl)
  BY <1>1, <1>4, FreshWhenDue
<1>8. QED
  BY <1>4, <1>5, <1>6, <1>7 DEF h1

LEMMA RenderedPasses ==
    ASSUME NEW h, Sound(h), NEW g, NEW fl, Fresh(h, g, fl)
    PROVE  LET h1 == Rendered(h) IN
           /\ Passed(h, h1) /\ h1.key = h.key /\ h1.of = h.key
           /\ Fresh(h1, g, fl)
           /\ h1.data \subseteq h.data
<1> DEFINE h1 == Rendered(h)
<1>1. CASE h.of = h.key
  <2>1. h1 = h
    BY <1>1 DEF Rendered
  <2>2. QED
    BY <1>1, <2>1 DEF Passed
<1>2. CASE h.of # h.key
  <2>1. h1 = pending(h)
    BY <1>2 DEF Rendered
  <2> HIDE DEF h1
  <2>2. /\ h1 \in Resource(Places, Item)
        /\ h1.key = h.key /\ h1.of = h.key /\ h1.status = "loading" /\ h1.data = {}
        /\ h1.due = h.due /\ h1.loads = h.loads
    BY <2>1, PendingParts DEF Sound
  <2>3. Passed(h, h1)
    BY <2>2, Passing
  <2>4. Fresh(h1, g, fl)
    BY <2>2 DEF Fresh, Settled
  <2>5. QED
    BY <2>2, <2>3, <2>4 DEF h1
<1>3. QED
  BY <1>1, <1>2

\* The callbacks of a call bring what it was told, unless it was aborted.
LEMMA DeliveredPasses ==
    ASSUME NEW h, Sound(h), NEW g, NEW fl, Fresh(h, g, fl),
           NEW l \in h.loads, l.told # "nothing"
    PROVE  LET h1 == Delivered(h, l) IN
           Passed(h, h1) /\ h1.key = h.key /\ Fresh(h1, g, fl)
<1> DEFINE h1 == Delivered(h, l)
           rest == h.loads \ {l}
<1>1. h \in Resource(Places, Item)
  BY DEF Sound
<1>2. /\ h.key \in Places /\ h.of \in Places
      /\ h.status \in {"loading", "shown", "notFound", "failed"}
      /\ h.data \in SUBSET Item /\ h.due \in BOOLEAN
      /\ rest \in SUBSET Load(Places, Item) /\ rest \subseteq h.loads
      /\ l \in Load(Places, Item)
  BY <1>1, Shape
<1>3. /\ l.key \in Places /\ l.told \in {"loading", "shown", "notFound", "failed"}
      /\ l.data \in SUBSET Item
  BY <1>2, LoadShape
<1>4. PICK due \in BOOLEAN : due = h.due
  BY <1>2
<1>5. h = [key |-> h.key, of |-> h.of, status |-> h.status, data |-> h.data,
           due |-> due, loads |-> h.loads]
  BY <1>1, <1>4, Shape
<1>6. CASE l.aborted
  <2>1. h1 = [h EXCEPT !.loads = rest]
    BY <1>6 DEF Delivered, Heeded
  <2> HIDE DEF h1, rest
  <2>2. h1 = [key |-> h.key, of |-> h.of, status |-> h.status, data |-> h.data,
              due |-> due, loads |-> rest]
    BY <1>5, <2>1
  <2>3. h1 \in Resource(Places, Item)
    BY <1>2, <2>2, Built
  <2>4. /\ h1.key = h.key /\ h1.of = h.of /\ h1.status = h.status
        /\ h1.data = h.data /\ h1.due = h.due /\ h1.loads = rest
    BY <1>4, <2>2
  <2>5. Passed(h, h1)
    BY <1>2, <2>3, <2>4, Passing
  <2>6. Fresh(h1, g, fl)
    <3>1. Settled(h1) => Settled(h)
      <4>1. \A m \in h.loads : m = l \/ m \in rest
        BY DEF rest
      <4>2. QED
        BY <1>6, <2>4, <4>1 DEF Settled
    <3>2. QED
      BY <1>2, <2>4, <3>1 DEF Fresh
  <2>7. QED
    BY <2>4, <2>5, <2>6 DEF h1
<1>7. CASE ~l.aborted
  <2>1. h1 = [h EXCEPT !.loads = rest, !.of = l.key, !.status = l.told, !.data = l.data]
    BY <1>7 DEF Delivered, Heeded
  <2> HIDE DEF h1, rest
  <2>2. h1 = [key |-> h.key, of |-> l.key, status |-> l.told, data |-> l.data,
              due |-> due, loads |-> rest]
    <3>1. PICK key, of, status, data, loads, o, s, d :
              /\ key = h.key /\ of = h.of /\ status = h.status /\ data = h.data
              /\ loads = h.loads /\ o = l.key /\ s = l.told /\ d = l.data
      OBVIOUS
    <3>2. h = [key |-> key, of |-> of, status |-> status, data |-> data,
               due |-> due, loads |-> loads]
      BY <1>5, <3>1, Zenon
    <3>3. h1 = [h EXCEPT !.loads = rest, !.of = o, !.status = s, !.data = d]
      BY <2>1, <3>1, Zenon
    <3>4. h1 = [key |-> key, of |-> o, status |-> s, data |-> d, due |-> due,
                loads |-> rest]
      BY <3>2, <3>3
    <3>5. QED
      BY <3>1, <3>4, Zenon
  <2>3. h1 \in Resource(Places, Item)
    BY <1>2, <1>3, <2>2, Built
  <2>4. /\ h1.key = h.key /\ h1.of = l.key /\ h1.status = l.told
        /\ h1.data = l.data /\ h1.due = h.due /\ h1.loads = rest
    BY <1>4, <2>2
  <2>5. Sound(h1)
    BY <1>2, <2>3, <2>4 DEF Sound
  <2>6. Items(h1) \subseteq Items(h)
    BY <1>2, <2>4 DEF Items
  <2>7. Fresh(h1, g, fl)
    BY <1>2, <1>7, <2>4 DEF Fresh, Settled
  <2>8. QED
    BY <2>4, <2>5, <2>6, <2>7 DEF h1, Passed
<1>8. QED
  BY <1>6, <1>7

\* An answer is for the call that waits for it.
LEMMA AnsweredPasses ==
    ASSUME NEW h, Sound(h), NEW g, NEW fl, Fresh(h, g, fl),
           NEW l \in h.loads,
           NEW told \in {"shown", "notFound", "failed"}, NEW data \in SUBSET Item,
           Names(told, data, l.key), told = "shown" => Recent(data, l.key, g, fl)
    PROVE  LET h1 == Answered(h, l, told, data) IN
           /\ Sound(h1) /\ Items(h1) \subseteq Items(h) \union data
           /\ h1.key = h.key /\ h1.of = h.of /\ Fresh(h1, g, fl)
<1> DEFINE h1 == Answered(h, l, told, data)
           m == [l EXCEPT !.told = told, !.data = data]
           loads == (h.loads \ {l}) \union {m}
<1>1. h \in Resource(Places, Item)
  BY DEF Sound
<1>2. /\ h.key \in Places /\ h.of \in Places
      /\ h.status \in {"loading", "shown", "notFound", "failed"}
      /\ h.data \in SUBSET Item /\ h.due \in BOOLEAN
      /\ h.loads \in SUBSET Load(Places, Item) /\ l \in Load(Places, Item)
  BY <1>1, Shape
<1>3. PICK aborted \in BOOLEAN : aborted = l.aborted
  BY <1>2, LoadShape
<1>4. m = [key |-> l.key, told |-> told, data |-> data, aborted |-> aborted]
  <2>1. l = [key |-> l.key, told |-> l.told, data |-> l.data, aborted |-> aborted]
    BY <1>2, <1>3, LoadShape
  <2>2. PICK key, was, had : key = l.key /\ was = l.told /\ had = l.data
    OBVIOUS
  <2>3. l = [key |-> key, told |-> was, data |-> had, aborted |-> aborted]
    BY <2>1, <2>2, Zenon
  <2>6. PICK t, d : t = told /\ d = data
    OBVIOUS
  <2>7. m = [l EXCEPT !.told = t, !.data = d]
    BY <2>6, Zenon
  <2> HIDE DEF m
  <2>8. m = [key |-> key, told |-> t, data |-> d, aborted |-> aborted]
    BY <2>3, <2>7
  <2>4. m = [key |-> key, told |-> told, data |-> data, aborted |-> aborted]
    BY <2>6, <2>8, Zenon
  <2>5. QED
    BY <2>2, <2>4, Zenon
<1> HIDE DEF m
<1>5. m \in Load(Places, Item)
  BY <1>2, <1>4, LoadShape, LoadBuilt
<1>6. m.key = l.key /\ m.told = told /\ m.data = data /\ m.aborted = l.aborted
  BY <1>3, <1>4
<1>7. /\ \A k \in loads : k \in h.loads \/ k = m
      /\ m \in loads /\ \A k \in h.loads : k = l \/ k \in loads
  OBVIOUS
<1>8. PICK due \in BOOLEAN : due = h.due
  BY <1>2
<1>9. h = [key |-> h.key, of |-> h.of, status |-> h.status, data |-> h.data,
           due |-> due, loads |-> h.loads]
  BY <1>1, <1>8, Shape
<1>10. h1 = [h EXCEPT !.loads = loads]
  BY DEF Answered, m
<1> HIDE DEF h1, loads
<1>11. h1 = [key |-> h.key, of |-> h.of, status |-> h.status, data |-> h.data,
             due |-> due, loads |-> loads]
  BY <1>9, <1>10
<1>12. loads \in SUBSET Load(Places, Item)
  BY <1>2, <1>5, <1>7
<1>13. h1 \in Resource(Places, Item)
  BY <1>2, <1>11, <1>12, Built
<1>14. /\ h1.key = h.key /\ h1.of = h.of /\ h1.status = h.status
       /\ h1.data = h.data /\ h1.due = h.due /\ h1.loads = loads
  BY <1>8, <1>11
<1>15. Sound(h1)
  BY <1>6, <1>7, <1>13, <1>14 DEF Sound
<1>16. Items(h1) \subseteq Items(h) \union data
  BY <1>6, <1>7, <1>14 DEF Items
<1>17. Fresh(h1, g, fl)
  <2>1. Settled(h1) => Settled(h)
    BY <1>6, <1>7, <1>14 DEF Settled
  <2>2. QED
    BY <1>6, <1>7, <1>14, <2>1 DEF Fresh
<1>18. QED
  BY <1>14, <1>15, <1>16, <1>17 DEF h1

-----------------------------------------------------------------------------
(* The form.                                                               *)

FormShape(f) ==
    f = [values |-> f.values, filledFrom |-> f.filledFrom, saving |-> f.saving]

\* What the form holds can be shown and sent.
FormOK(f) ==
    /\ f.values \in FormValues /\ Offered(f.values.make, f.values.model)
    /\ f.filledFrom \in 0..MaxVehicles

LEMMA ValuesShape ==
    ASSUME NEW v \in FormValues
    PROVE  /\ v.make \in STRING /\ v.model \in STRING
           /\ v.mileageKm \in Int \union {Omitted}
           /\ v.deadlines \in [StandardTypes -> Int]
           /\ v.customDeadlines \in Seq(FormRow)
           /\ v = [make |-> v.make, model |-> v.model, mileageKm |-> v.mileageKm,
                   deadlines |-> v.deadlines, customDeadlines |-> v.customDeadlines]
BY DEF FormValues

LEMMA ValuesBuilt ==
    ASSUME NEW make \in STRING, NEW model \in STRING, NEW km \in Int \union {Omitted},
           NEW dates \in [StandardTypes -> Int], NEW rows \in Seq(FormRow),
           NEW v, v = [make |-> make, model |-> model, mileageKm |-> km,
                       deadlines |-> dates, customDeadlines |-> rows]
    PROVE  v \in FormValues
BY DEF FormValues

\* A vehicle fills the form with what it can show.
LEMMA ShownByTheForm ==
    ASSUME NEW x \in Item, Consistent(x.vehicle)
    PROVE  LET v == toFormValues(x) IN v \in FormValues /\ Offered(v.make, v.model)
<1> DEFINE D == x.vehicle.deadlines
           ofType(t) == {d \in D : d.type = t}
           C == ofType("custom")
           s == ById(C)
           dates == [t \in StandardTypes |->
                       IF ofType(t) = {} THEN 0 ELSE (CHOOSE d \in ofType(t) : TRUE).dueDate]
           rows == [k \in DOMAIN s |-> [title |-> s[k].title, dueDate |-> s[k].dueDate]]
           make == x.vehicle.fields.make
           model == x.vehicle.fields.model
           km == x.vehicle.fields.mileageKm
           v == toFormValues(x)
<1>1. /\ x.vehicle \in VehicleRow /\ D \in SUBSET Deadline /\ IsFiniteSet(D)
      /\ \A d, e \in D : d.id = e.id => d = e
      /\ Offered(make, model)
  BY DEF Item, VehicleRow, Consistent
<1>2. make \in STRING /\ model \in STRING /\ km \in Int \union {Omitted}
  BY <1>1 DEF VehicleRow
<1>3. \A d \in D : d.title \in STRING /\ d.dueDate \in Int
  BY <1>1 DEF Deadline
<1>4. v = [make |-> make, model |-> model, mileageKm |-> km, deadlines |-> dates,
           customDeadlines |-> rows]
  BY DEF toFormValues, Map
<1>5. dates \in [StandardTypes -> Int]
  <2>1. ASSUME NEW t \in StandardTypes
        PROVE  (IF ofType(t) = {} THEN 0 ELSE (CHOOSE d \in ofType(t) : TRUE).dueDate) \in Int
    <3>1. ofType(t) # {} => (CHOOSE d \in ofType(t) : TRUE) \in ofType(t)
      OBVIOUS
    <3>2. ofType(t) \subseteq D
      OBVIOUS
    <3> HIDE DEF ofType
    <3>3. QED
      BY <1>3, <3>1, <3>2
  <2>2. QED
    BY <2>1
<1>6. C \in SUBSET Deadline /\ IsFiniteSet(C) /\ C \subseteq D
      /\ \A d, e \in C : d.id = e.id => d = e
  <2>1. C \subseteq D
    OBVIOUS
  <2>2. IsFiniteSet(C)
    BY <1>1, <2>1, FS_Subset
  <2> HIDE DEF C, D
  <2>3. QED
    BY <1>1, <2>1, <2>2
<1> HIDE DEF C
<1>7. s \in Seq(C)
  BY <1>6, ByIdLists
<1> HIDE DEF s, dates, make, model, km
<1>8. Len(s) \in Nat /\ DOMAIN s = 1..Len(s) /\ \A k \in DOMAIN s : s[k] \in C
  BY <1>7, LenProperties, ElementOfSeq
<1>9. rows \in Seq(FormRow)
  <2>1. \A k \in DOMAIN s : s[k].title \in STRING /\ s[k].dueDate \in Int
    BY <1>3, <1>6, <1>8
  <2>2. \A k \in 1..Len(s) : [title |-> s[k].title, dueDate |-> s[k].dueDate] \in FormRow
    BY <1>8, <2>1 DEF FormRow
  <2>3. rows \in [1..Len(s) -> FormRow]
    BY <1>8, <2>2
  <2>4. QED
    BY <1>8, <2>3, SeqDef
<1> HIDE DEF rows, v
<1>10. v \in FormValues
  BY <1>2, <1>4, <1>5, <1>9, ValuesBuilt
<1>11. v.make = make /\ v.model = model
  BY <1>4
<1>12. QED
  BY <1>1, <1>10, <1>11 DEF v, make, model

LEMMA FilledKeeps ==
    ASSUME NEW f, FormShape(f), FormOK(f),
           NEW h, \A x \in h.data : x \in Item /\ Consistent(x.vehicle)
    PROVE  FormOK(Filled(f, h))
<1>1. CASE h.data # {} /\ Vehicle(h).id # f.filledFrom
  <2> DEFINE x == Vehicle(h)
             v == toFormValues(x)
             f1 == [f EXCEPT !.values = v, !.filledFrom = x.id]
  <2>1. x \in h.data
    BY <1>1 DEF Vehicle
  <2>2. Filled(f, h) = f1
    BY <1>1 DEF Filled
  <2> HIDE DEF x
  <2>3. x \in Item /\ Consistent(x.vehicle)
    BY <2>1
  <2>4. v \in FormValues /\ Offered(v.make, v.model)
    BY <2>3, ShownByTheForm
  <2>5. x.id \in 0..MaxVehicles
    BY <2>3, BoundsAssumption DEF Item
  <2> HIDE DEF v
  <2>6. f1.values = v /\ f1.filledFrom = x.id
    BY DEF FormShape
  <2> HIDE DEF f1
  <2>7. QED
    BY <2>2, <2>4, <2>5, <2>6 DEF FormOK
<1>2. CASE ~(h.data # {} /\ Vehicle(h).id # f.filledFrom)
  BY <1>2 DEF Filled
<1>3. QED
  BY <1>1, <1>2

LEMMA EmptyForm == FormOK(NoForm) /\ FormShape(NoForm)
<1>1. FormShape(NoForm) /\ NoForm.values = EMPTY_FORM /\ NoForm.filledFrom = 0
  BY DEF NoForm, FormShape
<1> DEFINE dates == [t \in StandardTypes |-> 0]
<1>2. dates \in [StandardTypes -> Int] /\ << >> \in Seq(FormRow)
  OBVIOUS
<1> HIDE DEF dates
<1>3. PICK none \in STRING : none = ""
  BY TypedAssumption
<1>4. EMPTY_FORM = [make |-> none, model |-> none, mileageKm |-> Omitted,
                    deadlines |-> dates, customDeadlines |-> << >>]
  BY <1>3, Zenon DEF EMPTY_FORM, dates
<1>5. EMPTY_FORM \in FormValues
  BY <1>2, <1>4, ValuesBuilt
<1>6. EMPTY_FORM.make = none /\ EMPTY_FORM.model = none
  BY <1>4
<1>7. Offered(EMPTY_FORM.make, EMPTY_FORM.model)
  BY <1>3, <1>6 DEF Offered
<1>8. QED
  BY <1>1, <1>5, <1>7, BoundsAssumption DEF FormOK

\* A row of the form with one of its two fields typed.
LEMMA RowTyped ==
    ASSUME NEW rows \in Seq(FormRow), NEW i \in DOMAIN rows,
           NEW row \in FormRow
    PROVE  [rows EXCEPT ![i] = row] \in Seq(FormRow)
BY ExceptSeq

LEMMA Dated == \A date \in DueDates \union {0} : date \in Int
<1>1. DueDates \subseteq Int
  BY TypedAssumption, Zenon
<1>2. QED
  BY <1>1

\* The gestures on the form, by kind.
Made(v) == {handleMakeChange(v, make) : make \in DOMAIN Catalog \union {""}}
Read(v) == {[v EXCEPT !.mileageKm = km] : km \in Readings \union {Omitted}}
Dates(v) == {setDeadline(v, t, date) : t \in StandardTypes, date \in DueDates \union {0}}
Added(v) == IF Len(v.customDeadlines) < MaxRows THEN {addCustomDeadline(v)} ELSE {}
Changed(v) ==
    UNION {updateCustomDeadline(v, i) \union {removeCustomDeadline(v, i)} :
             i \in DOMAIN v.customDeadlines}

LEMMA ByKind ==
    ASSUME NEW v
    PROVE  Typed(v) = Made(v) \union PickModel(v) \union Read(v) \union Dates(v)
                        \union Added(v) \union Changed(v)
BY DEF Typed, Made, Read, Dates, Added, Changed

LEMMA Gestures ==
    ASSUME NEW v, NEW w \in Typed(v)
    PROVE  \/ \E make \in DOMAIN Catalog \union {""} : w = handleMakeChange(v, make)
           \/ w \in PickModel(v)
           \/ \E km \in Readings \union {Omitted} : w = [v EXCEPT !.mileageKm = km]
           \/ \E t \in StandardTypes, date \in DueDates \union {0} : w = setDeadline(v, t, date)
           \/ w = addCustomDeadline(v)
           \/ \E i \in DOMAIN v.customDeadlines :
                 w \in updateCustomDeadline(v, i) \/ w = removeCustomDeadline(v, i)
<1>1. \/ w \in Made(v) \/ w \in PickModel(v) \/ w \in Read(v)
      \/ w \in Dates(v) \/ w \in Added(v) \/ w \in Changed(v)
  BY ByKind
<1>2. w \in Made(v) => \E make \in DOMAIN Catalog \union {""} : w = handleMakeChange(v, make)
  BY DEF Made
<1>3. w \in Read(v) => \E km \in Readings \union {Omitted} : w = [v EXCEPT !.mileageKm = km]
  BY Zenon DEF Read
<1>4. w \in Dates(v) =>
        \E t \in StandardTypes, date \in DueDates \union {0} : w = setDeadline(v, t, date)
  BY DEF Dates
<1>5. w \in Added(v) => w = addCustomDeadline(v)
  BY DEF Added
<1>6. w \in Changed(v) =>
        \E i \in DOMAIN v.customDeadlines :
            w \in updateCustomDeadline(v, i) \/ w = removeCustomDeadline(v, i)
  BY DEF Changed
<1>7. QED
  BY <1>1, <1>2, <1>3, <1>4, <1>5, <1>6, Zenon

\* Whatever is typed, picked, added or removed.
LEMMA TypedKeeps ==
    ASSUME NEW v \in FormValues, Offered(v.make, v.model), NEW w \in Typed(v)
    PROVE  w \in FormValues /\ Offered(w.make, w.model)
<1> DEFINE rows == v.customDeadlines
<1>1. /\ v.make \in STRING /\ v.model \in STRING
      /\ v.mileageKm \in Int \union {Omitted}
      /\ v.deadlines \in [StandardTypes -> Int] /\ rows \in Seq(FormRow)
      /\ v = [make |-> v.make, model |-> v.model, mileageKm |-> v.mileageKm,
              deadlines |-> v.deadlines, customDeadlines |-> rows]
  BY ValuesShape
<1>2. PICK make, model, km, dates, rs :
        /\ make = v.make /\ model = v.model /\ km = v.mileageKm
        /\ dates = v.deadlines /\ rs = rows
  OBVIOUS
<1>3. v = [make |-> make, model |-> model, mileageKm |-> km, deadlines |-> dates,
           customDeadlines |-> rs]
  BY <1>1, <1>2, Zenon
<1>4. /\ make \in STRING /\ model \in STRING /\ km \in Int \union {Omitted}
      /\ dates \in [StandardTypes -> Int] /\ rs \in Seq(FormRow)
      /\ Offered(make, model)
  BY <1>1, <1>2
<1>5. ASSUME NEW mk \in DOMAIN Catalog \union {""}, w = handleMakeChange(v, mk)
      PROVE  w \in FormValues /\ Offered(w.make, w.model)
  <2>1. PICK none \in STRING : none = ""
    BY TypedAssumption
  <2>2. mk \in STRING
    BY CatalogAssumption, TypedAssumption
  <2>3. w = [v EXCEPT !.make = mk, !.model = none]
    BY <1>5, <2>1, Zenon DEF handleMakeChange
  <2>4. w = [make |-> mk, model |-> none, mileageKm |-> km, deadlines |-> dates,
             customDeadlines |-> rs]
    BY <1>3, <2>3
  <2>5. w \in FormValues
    BY <1>4, <2>2, <2>4, ValuesBuilt
  <2>6. w.make = mk /\ w.model = none
    BY <2>4
  <2>7. QED
    BY <2>1, <2>5, <2>6 DEF Offered
<1>6. ASSUME w \in PickModel(v) PROVE w \in FormValues /\ Offered(w.make, w.model)
  <2>1. v.make # ""
    BY <1>6 DEF PickModel
  <2>2. PICK md \in Catalog[v.make] \union {""} : w = [v EXCEPT !.model = md]
    BY <1>6, <2>1 DEF PickModel
  <2>3. make # "" /\ make \in DOMAIN Catalog /\ md \in Catalog[make] \union {""}
    BY <1>2, <1>4, <2>1 DEF Offered
  <2>4. md \in STRING
    BY <2>3, CatalogAssumption, TypedAssumption
  <2>5. w = [make |-> make, model |-> md, mileageKm |-> km, deadlines |-> dates,
             customDeadlines |-> rs]
    BY <1>3, <2>2
  <2>6. w \in FormValues
    BY <1>4, <2>4, <2>5, ValuesBuilt
  <2>7. w.make = make /\ w.model = md
    BY <2>5
  <2>8. QED
    BY <2>3, <2>6, <2>7 DEF Offered
<1>7. ASSUME NEW n \in Readings \union {Omitted}, w = [v EXCEPT !.mileageKm = n]
      PROVE  w \in FormValues /\ Offered(w.make, w.model)
  <2>1. n \in Int \union {Omitted}
    BY TypedAssumption
  <2>2. w = [make |-> make, model |-> model, mileageKm |-> n, deadlines |-> dates,
             customDeadlines |-> rs]
    BY <1>3, <1>7
  <2>3. w \in FormValues
    BY <1>4, <2>1, <2>2, ValuesBuilt
  <2>4. w.make = make /\ w.model = model
    BY <2>2
  <2>5. QED
    BY <1>4, <2>3, <2>4
<1>8. ASSUME NEW t \in StandardTypes, NEW date \in DueDates \union {0},
             w = setDeadline(v, t, date)
      PROVE  w \in FormValues /\ Offered(w.make, w.model)
  <2>1. date \in Int
    BY Dated
  <2>2. PICK ds : ds = [dates EXCEPT ![t] = date]
    OBVIOUS
  <2>3. ds \in [StandardTypes -> Int]
    BY <1>4, <2>1, <2>2
  <2>4. w = [v EXCEPT !.deadlines = [v.deadlines EXCEPT ![t] = date]]
    BY <1>8 DEF setDeadline
  <2>5. w = [v EXCEPT !.deadlines = ds]
    BY <1>2, <2>2, <2>4, Zenon
  <2>6. w = [make |-> make, model |-> model, mileageKm |-> km, deadlines |-> ds,
             customDeadlines |-> rs]
    BY <1>3, <2>5
  <2>7. w \in FormValues
    BY <1>4, <2>3, <2>6, ValuesBuilt
  <2>8. w.make = make /\ w.model = model
    BY <2>6
  <2>9. QED
    BY <1>4, <2>7, <2>8
<1>9. ASSUME NEW rs1 \in Seq(FormRow), w = [v EXCEPT !.customDeadlines = rs1]
      PROVE  w \in FormValues /\ Offered(w.make, w.model)
  <2>1. w = [make |-> make, model |-> model, mileageKm |-> km, deadlines |-> dates,
             customDeadlines |-> rs1]
    BY <1>3, <1>9
  <2>2. w \in FormValues
    BY <1>4, <2>1, ValuesBuilt
  <2>3. w.make = make /\ w.model = model
    BY <2>1
  <2>4. QED
    BY <1>4, <2>2, <2>3
<1>10. ASSUME w = addCustomDeadline(v)
       PROVE  w \in FormValues /\ Offered(w.make, w.model)
  <2> DEFINE row == [title |-> "", dueDate |-> 0]
             rs1 == Append(rows, row)
  <2>1. row \in FormRow
    <3>1. PICK none \in STRING : none = ""
      BY TypedAssumption
    <3>2. row = [title |-> none, dueDate |-> 0]
      BY <3>1, Zenon
    <3> HIDE DEF row
    <3>3. QED
      BY <3>2 DEF FormRow
  <2>2. w = [v EXCEPT !.customDeadlines = rs1]
    BY <1>10 DEF addCustomDeadline
  <2> HIDE DEF row
  <2>3. rs1 \in Seq(FormRow)
    BY <1>1, <2>1, AppendProperties
  <2> HIDE DEF rs1
  <2>4. QED
    BY <1>9, <2>2, <2>3
<1>11. ASSUME NEW i \in DOMAIN rows, w \in updateCustomDeadline(v, i)
       PROVE  w \in FormValues /\ Offered(w.make, w.model)
  <2>1. rows[i] \in FormRow /\ rows[i].title \in STRING /\ rows[i].dueDate \in Int
        /\ rows[i] = [title |-> rows[i].title, dueDate |-> rows[i].dueDate]
    <3>1. rows[i] \in FormRow
      BY <1>1, LenProperties, ElementOfSeq
    <3>2. QED
      BY <3>1 DEF FormRow
  <2>2. CASE w \in {[v EXCEPT !.customDeadlines[i].title = t] : t \in Titles \union {""}}
    <3>1. PICK t \in Titles \union {""} : w = [v EXCEPT !.customDeadlines[i].title = t]
      BY <2>2
    <3> DEFINE row == [rows[i] EXCEPT !.title = t]
               rs1 == [rows EXCEPT ![i] = row]
    <3>2. row \in FormRow
      BY <2>1, TypedAssumption DEF FormRow
    <3>3. w = [v EXCEPT !.customDeadlines = rs1]
      BY <3>1
    <3> HIDE DEF row
    <3>4. rs1 \in Seq(FormRow)
      BY <1>1, <3>2, RowTyped
    <3> HIDE DEF rs1
    <3>5. QED
      BY <1>9, <3>3, <3>4
  <2>3. CASE w \in {[v EXCEPT !.customDeadlines[i].dueDate = t] : t \in DueDates \union {0}}
    <3>1. PICK t \in DueDates \union {0} : w = [v EXCEPT !.customDeadlines[i].dueDate = t]
      BY <2>3
    <3> DEFINE row == [rows[i] EXCEPT !.dueDate = t]
               rs1 == [rows EXCEPT ![i] = row]
    <3>2. row \in FormRow
      BY <2>1, Dated DEF FormRow
    <3>3. w = [v EXCEPT !.customDeadlines = rs1]
      BY <3>1
    <3> HIDE DEF row
    <3>4. rs1 \in Seq(FormRow)
      BY <1>1, <3>2, RowTyped
    <3> HIDE DEF rs1
    <3>5. QED
      BY <1>9, <3>3, <3>4
  <2>4. QED
    BY <1>11, <2>2, <2>3 DEF updateCustomDeadline
<1>12. ASSUME NEW i \in DOMAIN rows, w = removeCustomDeadline(v, i)
       PROVE  w \in FormValues /\ Offered(w.make, w.model)
  <2> DEFINE rs1 == RemoveAt(rows, i)
  <2>1. rs1 = SubSeq(rows, 1, i - 1) \o SubSeq(rows, i + 1, Len(rows))
    BY DEF RemoveAt
  <2>2. Len(rows) \in Nat /\ DOMAIN rows = 1..Len(rows) /\ i \in 1..Len(rows)
    BY <1>1, LenProperties
  <2> HIDE DEF rows
  <2>3. SubSeq(rows, 1, i - 1) \in Seq(FormRow)
    BY <1>1, <2>2, SubSeqProperties
  <2>4. SubSeq(rows, i + 1, Len(rows)) \in Seq(FormRow)
    BY <1>1, <2>2, SubSeqProperties
  <2>5. rs1 \in Seq(FormRow)
    BY <2>1, <2>3, <2>4, ConcatProperties
  <2>6. w = [v EXCEPT !.customDeadlines = rs1]
    BY <1>12 DEF removeCustomDeadline, rows
  <2> HIDE DEF rs1
  <2>7. QED
    BY <1>9, <2>5, <2>6
<1> HIDE DEF rows
<1>13. \/ \E mk \in DOMAIN Catalog \union {""} : w = handleMakeChange(v, mk)
       \/ w \in PickModel(v)
       \/ \E n \in Readings \union {Omitted} : w = [v EXCEPT !.mileageKm = n]
       \/ \E t \in StandardTypes, date \in DueDates \union {0} : w = setDeadline(v, t, date)
       \/ w = addCustomDeadline(v)
       \/ \E i \in DOMAIN rows :
             w \in updateCustomDeadline(v, i) \/ w = removeCustomDeadline(v, i)
  BY Gestures DEF rows
<1>14. QED
  BY <1>5, <1>6, <1>7, <1>8, <1>10, <1>11, <1>12, <1>13
=============================================================================
