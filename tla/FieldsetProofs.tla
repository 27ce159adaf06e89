--------------------------- MODULE FieldsetProofs ---------------------------
(* Proofs about fieldsets, for any files and keys, whatever can be read of them,
   and any order in which fieldsets are made, sorted, read and deleted.

   Making a fieldset is two folds, over files and over the messages of each, and
   both may stop in the middle. They are followed by functions from the number of
   messages, and of files, to what was made of them (MessagesAdded, FilesAdded).
   The invariant, SetsInv, says of a fieldset what its rows describe, which
   messages it has and what it has returned.

   The sort is followed turn by turn (Partitioning) and call by call (Sorting);
   OrderInv says that each fieldset lists its fields once, in its order. *)
EXTENDS Fieldset, SequenceLemmas, FiniteSetTheorems

Refs == References(File)

\* A reference is a file and the number of a message.
LEMMA ReferenceParts ==
  ASSUME NEW ref \in Refs
  PROVE  ref[1] \in File /\ ref[2] \in DOMAIN Contents[ref[1]] /\ ref = <<ref[1], ref[2]>> /\ ref # Null
<1>1. PICK f \in File : ref \in {f} \X DOMAIN Contents[f]
  BY DEF Refs, References
<1>2. Null \notin {f} \X DOMAIN Contents[f]
  BY FieldsetAssumption
<1> QED
  BY <1>1, <1>2

-----------------------------------------------------------------------------
(* Adding a message *)

\* The messages that can be read.
Undamaged == {ref \in Refs : MessageOf(ref) # Damaged}

Rows(cols) == {RowOf(cols, MessageOf(ref)) : ref \in Undamaged}

\* What adding messages makes of a new fieldset.
Filling(cols) ==
    [cols : {cols}, rows : Seq(Rows(cols)), fields : Seq(Refs \cup {Null}),
     order : Seq(Nat), current : {-1, 0}, orderBy : {<<>>}]

\* Every field has a row, and it is its own while no message was left out.
Described(set) ==
    /\ Len(set.fields) <= Len(set.rows)
    /\ Len(set.rows) = Len(set.fields) /\ Null \notin ToSet(set.fields) =>
           \A i \in 1..Len(set.fields) :
               Describes(set.rows[i], set.cols, MessageOf(set.fields[i]))

\* It is in the order in which its fields were added.
Listed(set) == set.order = [i \in 1..Len(set.fields) |-> i]

Fillings(cols) == {set \in Filling(cols) : Described(set) /\ Listed(set)}

\* The fields that are there.
Shown(set) == ToSet(set.fields) \ {Null}

KeptOf(cols, refs) == {ref \in refs : Kept(cols, MessageOf(ref))}

\* What the columns get for a message describes it.
LEMMA RowDescribes == ASSUME NEW cols, NEW m PROVE Describes(RowOf(cols, m), cols, m)
  BY DEF Describes, RowOf

LEMMA Repeated ==
  ASSUME NEW S, NEW k \in Nat, NEW x \in S
  PROVE  [i \in 1..k |-> x] \in Seq(S) /\ Len([i \in 1..k |-> x]) = k
  OBVIOUS

LEMMA ConcatSet ==
  ASSUME NEW S, NEW p \in Seq(S), NEW q \in Seq(S)
  PROVE  ToSet(p \o q) = ToSet(p) \cup ToSet(q)
<1>1. /\ p \o q \in Seq(S) /\ Len(p \o q) = Len(p) + Len(q)
      /\ \A i \in 1..Len(p) : (p \o q)[i] = p[i]
      /\ \A i \in 1..Len(q) : (p \o q)[Len(p) + i] = q[i]
  BY Concatenated
<1>2. ASSUME NEW x \in ToSet(p \o q) PROVE x \in ToSet(p) \cup ToSet(q)
  <2>1. PICK i \in 1..(Len(p) + Len(q)) : x = (p \o q)[i]
    BY <1>1 DEF ToSet
  <2>2. CASE i <= Len(p)
    BY <1>1, <2>1, <2>2 DEF ToSet
  <2>3. CASE i > Len(p)
    <3>1. i - Len(p) \in 1..Len(q) /\ Len(p) + (i - Len(p)) = i
      BY <2>3
    <3> QED
      BY <1>1, <2>1, <3>1 DEF ToSet
  <2> QED
    BY <2>2, <2>3
<1>3. ASSUME NEW x \in ToSet(p) PROVE x \in ToSet(p \o q)
  <2>1. PICK i \in 1..Len(p) : x = p[i]
    BY DEF ToSet
  <2>2. i \in 1..(Len(p) + Len(q)) /\ (p \o q)[i] = x
    BY <1>1, <2>1
  <2> QED
    BY <1>1, <2>2 DEF ToSet
<1>4. ASSUME NEW x \in ToSet(q) PROVE x \in ToSet(p \o q)
  <2>1. PICK i \in 1..Len(q) : x = q[i]
    BY DEF ToSet
  <2>2. Len(p) + i \in 1..(Len(p) + Len(q)) /\ (p \o q)[Len(p) + i] = x
    BY <1>1, <2>1
  <2> QED
    BY <1>1, <2>2 DEF ToSet
<1> QED
  BY <1>2, <1>3, <1>4

\* More places behind those that are listed.
LEMMA ListedMore ==
  ASSUME NEW k \in Nat, NEW m \in Nat
  PROVE  [i \in 1..k |-> i] \o [i \in 1..m |-> k + i] = [i \in 1..(k + m) |-> i]
<1> DEFINE a == [i \in 1..k |-> i]
           b == [i \in 1..m |-> k + i]
           c == a \o b
<1>1. a \in Seq(Nat) /\ Len(a) = k /\ b \in Seq(Nat) /\ Len(b) = m
  OBVIOUS
<1>2. /\ \A i \in 1..k : a[i] = i
      /\ \A i \in 1..m : b[i] = k + i
  OBVIOUS
<1> HIDE DEF a, b
<1>3. /\ c \in Seq(Nat) /\ DOMAIN c = 1..(k + m)
      /\ \A i \in 1..k : c[i] = a[i]
      /\ \A i \in 1..m : c[k + i] = b[i]
  <2> DEFINE d == a \o b
  <2>1. d \in Seq(Nat) /\ Len(d) = k + m
    BY <1>1, SMTT(30)
  <2>2. \A i \in 1..Len(a) : d[i] = a[i]
    BY <1>1, Concatenated
  <2>3. \A i \in 1..Len(b) : d[Len(a) + i] = b[i]
    BY <1>1, Concatenated
  <2> HIDE DEF d
  <2>4. DOMAIN d = 1..(k + m)
    BY <2>1
  <2> QED
    BY <1>1, <2>1, <2>2, <2>3, <2>4 DEF d
<1> HIDE DEF c
<1>4. ASSUME NEW i \in 1..(k + m) PROVE c[i] = i
  <2>1. CASE i <= k
    BY <1>2, <1>3, <2>1
  <2>2. CASE ~(i <= k)
    <3>1. i - k \in 1..m /\ k + (i - k) = i
      BY <2>2
    <3>2. c[k + (i - k)] = b[i - k] /\ b[i - k] = k + (i - k)
      BY <1>2, <1>3, <3>1
    <3> QED
      BY <3>1, <3>2
  <2> QED
    BY <2>1, <2>2
<1>5. c = [i \in 1..(k + m) |-> c[i]]
  BY <1>3
<1> QED
  BY <1>3, <1>4, <1>5 DEF a, b, c

LEMMA MessageAdded ==
  ASSUME NEW cols, NEW set \in Fillings(cols), NEW ref \in Undamaged
  PROVE  /\ AddMessage(set, ref) \in Fillings(cols)
         /\ Shown(AddMessage(set, ref)) = Shown(set) \cup KeptOf(cols, {ref})
<1> DEFINE row    == RowOf(cols, MessageOf(ref))
           rows   == Append(set.rows, row)
           size   == Len(set.fields)
           more   == Len(rows) - size
           places == [i \in 1..(more - 1) |-> Null]
           fields == set.fields \o <<ref>> \o places
           order  == set.order \o [i \in 1..more |-> size + i]
           after  == AddMessage(set, ref)
           V      == Refs \cup {Null}
<1>1. /\ set.cols = cols /\ set.rows \in Seq(Rows(cols)) /\ set.fields \in Seq(V) /\ size \in Nat
      /\ set.order \in Seq(Nat) /\ set.current \in {-1, 0} /\ set.orderBy = <<>>
      /\ DOMAIN set = {"cols", "rows", "fields", "order", "current", "orderBy"}
      /\ Described(set) /\ Listed(set) /\ ref \in Refs
  BY DEF Fillings, Filling, Undamaged
<1>2. after = IF Kept(cols, MessageOf(ref))
              THEN [set EXCEPT !.rows = rows, !.fields = fields, !.order = order]
              ELSE [set EXCEPT !.rows = rows]
  BY <1>1 DEF AddMessage, MessageOf
<1>3. rows \in Seq(Rows(cols)) /\ Len(rows) = Len(set.rows) + 1 /\ row \in Rows(cols)
  BY <1>1 DEF Rows
<1>4. size \in Nat /\ more \in Nat \ {0} /\ Len(set.rows) \in Nat /\ Len(rows) = size + more
  BY <1>1, <1>3 DEF Described
<1>5. places \in Seq(V) /\ Len(places) = more - 1 /\ \A i \in 1..(more - 1) : places[i] = Null
  <2>1. more - 1 \in Nat /\ Null \in V
    BY <1>4
  <2> HIDE DEF more, V
  <2> QED
    BY <2>1, Repeated
<1>6. [i \in 1..more |-> size + i] \in Seq(Nat)
  BY <1>4
<1>7. order \in Seq(Nat) /\ order = [i \in 1..(size + more) |-> i]
  <2>1. set.order = [i \in 1..size |-> i]
    BY <1>1 DEF Listed
  <2>2. order = set.order \o [i \in 1..more |-> size + i]
    OBVIOUS
  <2>3. size \in Nat /\ more \in Nat
    BY <1>4
  <2>4. set.order \in Seq(Nat)
    BY <1>1
  <2> HIDE DEF size, more, order
  <2>5. [i \in 1..size |-> i] \o [i \in 1..more |-> size + i] = [i \in 1..(size + more) |-> i]
    BY <2>3, ListedMore
  <2>6. order \in Seq(Nat)
    BY <1>6, <2>2, <2>4
  <2> QED
    BY <2>1, <2>2, <2>5, <2>6
<1>8. \A i \in 1..Len(set.rows) : rows[i] = set.rows[i]
  BY <1>1
<1>9. rows[Len(set.rows) + 1] = row
  BY <1>1
<1> HIDE DEF rows, order, places, row, after, V, more
<1>10. <<ref>> \in Seq(V) /\ ToSet(<<ref>>) = {ref} /\ Len(<<ref>>) = 1
  BY <1>1 DEF ToSet, V
<1> HIDE DEF size
<1> DEFINE first == set.fields \o <<ref>>
<1>16. /\ first \in Seq(V) /\ Len(first) = size + 1 /\ first[size + 1] = ref
       /\ \A i \in 1..size : first[i] = set.fields[i]
  BY <1>1, <1>4, <1>10 DEF size
<1>17. ToSet(first) = ToSet(set.fields) \cup {ref}
  <2> HIDE DEF first
  <2>1. first = set.fields \o <<ref>>
    BY DEF first
  <2> QED
    <3>1. ToSet(set.fields \o <<ref>>) = ToSet(set.fields) \cup ToSet(<<ref>>)
      <4> DEFINE p == set.fields
                 q == <<ref>>
      <4>1. p \in Seq(V) /\ q \in Seq(V)
        BY <1>1, <1>10
      <4> HIDE DEF p, q
      <4>2. ToSet(p \o q) = ToSet(p) \cup ToSet(q)
        BY <4>1, ConcatSet
      <4> QED
        BY <4>2 DEF p, q
    <3> QED
      BY <1>10, <2>1, <3>1
<1>18. fields = first \o places
  OBVIOUS
<1>19. ToSet(fields) = ToSet(first) \cup ToSet(places)
  <2> HIDE DEF fields, first
  <2> QED
    BY <1>5, <1>16, <1>18, ConcatSet
<1> HIDE DEF fields, first
<1>11. /\ fields \in Seq(V)
       /\ Len(fields) = size + 1 + (more - 1)
       /\ \A i \in 1..size : fields[i] = set.fields[i]
       /\ fields[size + 1] = ref
       /\ \A i \in 1..(more - 1) : fields[size + 1 + i] = places[i]
  <2>1. fields \in Seq(V) /\ Len(fields) = Len(first) + Len(places)
    BY <1>5, <1>16, <1>18, Concatenated
  <2>2. /\ \A i \in 1..Len(first) : fields[i] = first[i]
        /\ \A i \in 1..Len(places) : fields[Len(first) + i] = places[i]
    BY <1>5, <1>16, <1>18, Concatenated
  <2>3. size + 1 \in 1..Len(first) /\ \A i \in 1..size : i \in 1..Len(first)
    BY <1>4, <1>16
  <2> QED
    BY <1>4, <1>5, <1>16, <2>1, <2>2, <2>3
<1>12. ToSet(places) \subseteq {Null}
  BY <1>5 DEF ToSet
<1>13. ToSet(fields) \ {Null} = (ToSet(set.fields) \ {Null}) \cup {ref}
  BY <1>1, <1>12, <1>17, <1>19, ReferenceParts
<1>14. CASE Kept(cols, MessageOf(ref))
  <2> HIDE DEF fields
  <2>1. /\ after.cols = cols /\ after.rows = rows /\ after.fields = fields /\ after.order = order
        /\ after.current \in {-1, 0} /\ after.orderBy = <<>>
        /\ after = [x \in {"cols", "rows", "fields", "order", "current", "orderBy"} |-> after[x]]
    BY <1>1, <1>2, <1>14
  <2>2. after \in Filling(cols)
    BY <2>1, <1>3, <1>7, <1>11 DEF Filling, V
  <2>3. Described(after)
    <3>1. Len(after.fields) <= Len(after.rows)
      BY <2>1, <1>4, <1>11
    <3>2. ASSUME Len(after.rows) = Len(after.fields), Null \notin ToSet(after.fields),
                 NEW i \in 1..Len(after.fields)
          PROVE  Describes(after.rows[i], after.cols, MessageOf(after.fields[i]))
      <4>1. more = 1
        <5>1. more - 1 > 0 => 1 \in 1..(more - 1) /\ size + 1 + 1 \in 1..Len(fields)
          BY <1>4, <1>11
        <5>2. more - 1 > 0 => fields[size + 1 + 1] = Null
          BY <5>1, <1>11, <1>5
        <5>3. ~(more - 1 > 0)
          BY <5>1, <5>2, <3>2, <2>1, <1>11 DEF ToSet
        <5> QED
          BY <5>3, <1>4
      <4>2. Len(set.rows) = size
        BY <4>1, <1>3, <1>4
      <4>3. Null \notin ToSet(set.fields)
        <5>1. ASSUME NEW j \in 1..size PROVE set.fields[j] # Null
          <6>1. j \in 1..Len(fields) /\ fields[j] = set.fields[j]
            BY <1>4, <1>11
          <6> QED
            BY <6>1, <3>2, <2>1, <1>11 DEF ToSet
        <5> QED
          BY <5>1, <1>1 DEF ToSet, size
      <4>4. \A j \in 1..size : Describes(set.rows[j], cols, MessageOf(set.fields[j]))
        BY <4>2, <4>3, <1>1 DEF Described, size
      <4>5. i \in 1..size \/ i = size + 1
        BY <4>1, <1>4, <1>11, <2>1
      <4>6. CASE i \in 1..size
        BY <4>2, <4>4, <4>6, <2>1, <1>8, <1>11
      <4>7. CASE i = size + 1
        BY <4>2, <4>7, <2>1, <1>9, <1>11, RowDescribes DEF row
      <4> QED
        BY <4>5, <4>6, <4>7
    <3> QED
      BY <3>1, <3>2 DEF Described
  <2>4. Shown(after) = Shown(set) \cup KeptOf(cols, {ref})
    BY <1>13, <1>14, <2>1 DEF Shown, KeptOf
  <2>5. Listed(after)
    <3>1. Len(after.fields) = size + more
      BY <1>4, <1>11, <2>1
    <3> QED
      BY <1>7, <2>1, <3>1 DEF Listed
  <2> QED
    BY <2>2, <2>3, <2>4, <2>5 DEF Fillings, after
<1>15. CASE ~Kept(cols, MessageOf(ref))
  <2>1. /\ after.cols = cols /\ after.rows = rows /\ after.fields = set.fields /\ after.order = set.order
        /\ after.current \in {-1, 0} /\ after.orderBy = <<>>
        /\ after = [x \in {"cols", "rows", "fields", "order", "current", "orderBy"} |-> after[x]]
    BY <1>1, <1>2, <1>15
  <2>2. after \in Filling(cols)
    BY <2>1, <1>1, <1>3 DEF Filling, V
  <2>3. Described(after)
    BY <2>1, <1>1, <1>3, <1>4 DEF Described
  <2>4. Shown(after) = Shown(set) \cup KeptOf(cols, {ref})
    BY <1>15, <2>1 DEF Shown, KeptOf
  <2>5. Listed(after)
    BY <1>1, <2>1 DEF Listed
  <2> QED
    BY <2>2, <2>3, <2>4, <2>5 DEF Fillings, after
<1> QED
  BY <1>14, <1>15

-----------------------------------------------------------------------------
(* Adding messages *)

\* The fieldsets on the way: H[k] has the first k messages.
Adding(set, refs, n, H) ==
    H[0] = set /\ \A k \in 1..n : H[k] = AddMessage(H[k - 1], refs[k])

LEMMA MessagesFold ==
  ASSUME NEW cols, NEW set \in Fillings(cols), NEW n \in Nat, NEW refs \in [1..n -> Undamaged]
  PROVE  \E H : Adding(set, refs, n, H) /\ FoldLeft(AddMessage, set, refs) = H[n]
<1> DEFINE C == CHOOSE F : F = [s \in SUBSET (1..n) |->
                    IF s = {} THEN set ELSE AddMessage(F[s \ {Max(s)}], refs[Max(s)])]
           V == Fillings(cols)
           turn == [p \in V \X (1..n) |-> AddMessage(p[1], refs[p[2]])]
<1>1. FoldLeft(AddMessage, set, refs) = C[1..n]
  <2>1. DOMAIN refs = 1..n
    OBVIOUS
  <2> QED
    BY <2>1 DEF FoldLeft, MapThenFoldSet
<1>2. \E F : F = [s \in SUBSET (1..n) |->
                    IF s = {} THEN set ELSE AddMessage(F[s \ {Max(s)}], refs[Max(s)])]
  <2>1. turn \in [V \X (1..n) -> V]
    <3>1. \A p \in V \X (1..n) : AddMessage(p[1], refs[p[2]]) \in V
      BY MessageAdded
    <3> QED
      BY <3>1
  <2>2. PICK F \in [SUBSET (1..n) -> V] : Folds(turn, set, n, F)
    <3> HIDE DEF turn, V
    <3>1. set \in V
      BY DEF V
    <3> QED
      BY <2>1, <3>1, FoldExists
  <2>3. ASSUME NEW s \in SUBSET (1..n)
        PROVE  F[s] = IF s = {} THEN set ELSE AddMessage(F[s \ {Max(s)}], refs[Max(s)])
    <3>1. F[s] = IF s = {} THEN set ELSE turn[<<F[s \ {Max(s)}], Max(s)>>]
      BY <2>2 DEF Folds
    <3>2. CASE s # {}
      <4>1. Max(s) \in 1..n /\ F[s \ {Max(s)}] \in V
        BY <3>2, MaxOf
      <4> HIDE DEF V
      <4>2. turn[<<F[s \ {Max(s)}], Max(s)>>] = AddMessage(F[s \ {Max(s)}], refs[Max(s)])
        BY <4>1
      <4> QED
        BY <3>1, <3>2, <4>2
    <3> QED
      BY <3>1, <3>2
  <2> HIDE DEF turn, V
  <2>4. F = [s \in SUBSET (1..n) |-> F[s]]
    OBVIOUS
  <2> QED
    BY <2>3, <2>4
<1>3. C = [s \in SUBSET (1..n) |->
               IF s = {} THEN set ELSE AddMessage(C[s \ {Max(s)}], refs[Max(s)])]
  BY <1>2
<1> DEFINE H == [k \in 0..n |-> C[1..k]]
<1> HIDE DEF C, V, turn
<1>4. \A s \in SUBSET (1..n) :
          C[s] = IF s = {} THEN set ELSE AddMessage(C[s \ {Max(s)}], refs[Max(s)])
  BY <1>3
<1>5. H[0] = set
  <2>1. 1..0 = {} /\ 1..0 \in SUBSET (1..n) /\ 0 \in 0..n
    OBVIOUS
  <2> QED
    BY <1>4, <2>1
<1>6. ASSUME NEW k \in 1..n PROVE H[k] = AddMessage(H[k - 1], refs[k])
  <2>1. /\ 1..k \in SUBSET (1..n) /\ 1..k # {}
        /\ Max(1..k) = k /\ (1..k) \ {Max(1..k)} = 1..(k - 1)
    BY HeadOf
  <2>2. C[1..k] = AddMessage(C[1..(k - 1)], refs[k])
    BY <1>4, <2>1
  <2>3. k \in 0..n /\ k - 1 \in 0..n
    OBVIOUS
  <2> QED
    BY <2>2, <2>3
<1>7. H[n] = C[1..n]
  OBVIOUS
<1> HIDE DEF H
<1> QED
  BY <1>1, <1>5, <1>6, <1>7 DEF Adding

\* Every message is added whose key can be read, and nothing else.
LEMMA MessagesAdded ==
  ASSUME NEW cols, NEW set \in Fillings(cols), NEW n \in Nat, NEW refs \in [1..n -> Undamaged]
  PROVE  /\ FoldLeft(AddMessage, set, refs) \in Fillings(cols)
         /\ Shown(FoldLeft(AddMessage, set, refs)) = Shown(set) \cup KeptOf(cols, {refs[i] : i \in 1..n})
<1>1. PICK H : Adding(set, refs, n, H) /\ FoldLeft(AddMessage, set, refs) = H[n]
  BY MessagesFold
<1> DEFINE good == {k \in Nat : /\ H[k] \in Fillings(cols)
                                 /\ Shown(H[k]) = Shown(set) \cup KeptOf(cols, {refs[i] : i \in 1..k})}
<1>2. 0 \in good
  <2>1. {refs[i] : i \in 1..0} = {} /\ H[0] = set
    BY <1>1 DEF Adding
  <2> QED
    BY <2>1 DEF KeptOf
<1>3. ASSUME NEW k \in 0..(n - 1), k \in good PROVE k + 1 \in good
  <2>1. k + 1 \in 1..n /\ k + 1 \in Nat /\ (k + 1) - 1 = k /\ refs[k + 1] \in Undamaged
    OBVIOUS
  <2>2. H[k + 1] = AddMessage(H[k], refs[k + 1])
    BY <1>1, <2>1 DEF Adding
  <2>3. /\ H[k + 1] \in Fillings(cols)
        /\ Shown(H[k + 1]) = Shown(H[k]) \cup KeptOf(cols, {refs[k + 1]})
    <3>1. H[k] \in Fillings(cols)
      BY <1>3
    <3> HIDE DEF good
    <3> QED
      BY <2>1, <2>2, <3>1, MessageAdded
  <2>4. {refs[i] : i \in 1..(k + 1)} = {refs[i] : i \in 1..k} \cup {refs[k + 1]}
    <3>1. 1..(k + 1) = (1..k) \cup {k + 1}
      BY <2>1
    <3> QED
      BY <3>1
  <2>5. Shown(H[k + 1]) = Shown(set) \cup KeptOf(cols, {refs[i] : i \in 1..(k + 1)})
    BY <1>3, <2>3, <2>4 DEF KeptOf
  <2> QED
    BY <2>1, <2>3, <2>5
<1> HIDE DEF good
<1>4. \A k \in 0..n : k \in good
  BY <1>2, <1>3, Induction
<1>5. n \in good
  BY <1>4
<1> QED
  BY <1>1, <1>5 DEF good

-----------------------------------------------------------------------------
(* Adding a file *)

States(cols) == [set : Fillings(cols), pos : [File -> Nat], ok : BOOLEAN]

\* The messages of a file from one on.
Onward(f, from) == {<<f, k>> : k \in from..Len(Contents[f])}

\* What is read of a file.
LEMMA FileRead ==
  ASSUME NEW pos \in [File -> Nat], NEW f \in File
  PROVE  /\ From(pos, f) \in Nat \ {0} /\ Stop(pos, f) \in Nat \ {0}
         /\ Stop(pos, f) <= Len(Contents[f]) + 1
         /\ Stop(pos, f) > Len(Contents[f]) => Stop(pos, f) = Len(Contents[f]) + 1
         /\ \A k \in From(pos, f)..(Stop(pos, f) - 1) : Contents[f][k] # Damaged
<1> DEFINE last == Len(Contents[f])
           spoilt == {k \in From(pos, f)..last : Contents[f][k] = Damaged}
<1>1. last \in Nat
  BY FieldsetAssumption
<1> HIDE DEF last
<1>2. From(pos, f) \in Nat \ {0}
  BY DEF From, Closed
<1>3. Stop(pos, f) = IF spoilt = {} THEN last + 1 ELSE Min(spoilt)
  BY DEF Stop, last
<1>4. spoilt # {} => Min(spoilt) \in spoilt
  <2>1. spoilt \in SUBSET Nat
    BY <1>1, <1>2
  <2> HIDE DEF spoilt
  <2> QED
    BY <2>1, MinOf
<1>5. spoilt # {} => Min(spoilt) \in Nat \ {0} /\ Min(spoilt) <= last
  BY <1>1, <1>2, <1>4
<1>6. ASSUME NEW k \in From(pos, f)..(Stop(pos, f) - 1) PROVE Contents[f][k] # Damaged
  <2>1. k \notin spoilt
    <3>1. CASE spoilt = {}
      BY <3>1
    <3>2. CASE spoilt # {}
      <4>1. \A m \in spoilt : Min(spoilt) <= m
        <5>1. spoilt \in SUBSET Nat
          BY <1>1, <1>2
        <5> HIDE DEF spoilt
        <5> QED
          BY <3>2, <5>1, MinOf
      <4>2. ~(Min(spoilt) <= k)
        <5>1. Stop(pos, f) = Min(spoilt)
          BY <1>3, <3>2
        <5> QED
          BY <1>2, <1>5, <3>2, <5>1
      <4> QED
        BY <4>1, <4>2
    <3> QED
      BY <3>1, <3>2
  <2>2. k \in From(pos, f)..last
    <3>1. Stop(pos, f) - 1 <= last /\ Stop(pos, f) \in Nat
      BY <1>1, <1>3, <1>5
    <3> QED
      BY <1>1, <1>2, <3>1
  <2> QED
    BY <2>1, <2>2
<1> HIDE DEF spoilt
<1> QED
  BY <1>1, <1>2, <1>3, <1>5, <1>6 DEF last

\* A file that is added is read to its end and may then be closed; no other is
\* touched.
Added(cols, st, f, after) ==
    after.ok =>
        /\ st.ok
        /\ after.pos[f] \in {Closed, Len(Contents[f]) + 1}
        /\ \A g \in File \ {f} : after.pos[g] = st.pos[g]
        /\ Shown(after.set) = Shown(st.set) \cup KeptOf(cols, Onward(f, From(st.pos, f)))

\* After the last message the fieldset is rewound.
LEMMA Rewound ==
  ASSUME NEW cols, NEW set \in Fillings(cols), NEW after, after = [set EXCEPT !.current = 0]
  PROVE  after \in Fillings(cols) /\ Shown(after) = Shown(set)
<1>1. set \in Filling(cols) /\ Described(set) /\ Listed(set)
  BY DEF Fillings
<1>2. /\ after \in Filling(cols)
      /\ after.cols = set.cols /\ after.rows = set.rows /\ after.fields = set.fields
      /\ after.order = set.order
  BY <1>1 DEF Filling
<1>3. Described(after) /\ Listed(after)
  BY <1>1, <1>2 DEF Described, Listed
<1> QED
  BY <1>2, <1>3 DEF Fillings, Shown

LEMMA FileAdded ==
  ASSUME NEW cols, NEW st \in States(cols), NEW f \in File
  PROVE  AddFile(st, f) \in States(cols) /\ Added(cols, st, f, AddFile(st, f))
<1> DEFINE from  == From(st.pos, f)
           stop  == Stop(st.pos, f)
           last  == Len(Contents[f])
           n     == stop - from
           refs  == [i \in 1..n |-> <<f, from + i - 1>>]
           set   == FoldLeft(AddMessage, st.set, refs)
           after == AddFile(st, f)
<1>1. /\ st.set \in Fillings(cols) /\ st.pos \in [File -> Nat] /\ st.ok \in BOOLEAN
      /\ st = [set |-> st.set, pos |-> st.pos, ok |-> st.ok]
  BY DEF States
<1>2. /\ from \in Nat \ {0} /\ stop \in Nat \ {0} /\ stop <= last + 1 /\ last \in Nat
      /\ DOMAIN Contents[f] = 1..last
      /\ stop > last => stop = last + 1
      /\ \A k \in from..(stop - 1) : Contents[f][k] # Damaged
  BY <1>1, FileRead, FieldsetAssumption
<1>3. after = IF ~st.ok THEN st
              ELSE IF ~Readable(f) THEN [st EXCEPT !.ok = FALSE]
              ELSE IF stop <= last
                   THEN [set |-> set, pos |-> [st.pos EXCEPT ![f] = stop + 1], ok |-> FALSE]
              ELSE [set |-> [set EXCEPT !.current = 0],
                    pos |-> AfterClose([st.pos EXCEPT ![f] = stop], f), ok |-> TRUE]
  <2>1. Until(st.pos, f) + 1 - from = n
    BY <1>2 DEF Until
  <2> QED
    BY <2>1 DEF AddFile
<1> HIDE DEF after
<1>4. /\ set \in Fillings(cols)
      /\ Shown(set) = Shown(st.set) \cup KeptOf(cols, {<<f, k>> : k \in from..(stop - 1)})
  <2> DEFINE N == IF n >= 0 THEN n ELSE 0
  <2>1. N \in Nat /\ 1..n = 1..N
    BY <1>2
  <2>2. ASSUME NEW i \in 1..N PROVE <<f, from + i - 1>> \in Undamaged /\ from + i - 1 \in from..(stop - 1)
    <3>1. from + i - 1 \in 1..last /\ from + i - 1 \in from..(stop - 1)
      BY <1>2
    <3>2. <<f, from + i - 1>> \in Refs
      BY <1>2, <3>1 DEF Refs, References
    <3> QED
      BY <1>2, <3>1, <3>2 DEF Undamaged, MessageOf
  <2>3. refs \in [1..N -> Undamaged]
    BY <2>1, <2>2
  <2>4. {refs[i] : i \in 1..N} = {<<f, k>> : k \in from..(stop - 1)}
    <3>1. ASSUME NEW k \in from..(stop - 1) PROVE k - from + 1 \in 1..N /\ from + (k - from + 1) - 1 = k
      BY <1>2
    <3>2. \A i \in 1..N : refs[i] = <<f, from + i - 1>>
      BY <2>1
    <3> HIDE DEF refs, N, from, stop
    <3>3. ASSUME NEW i \in 1..N PROVE refs[i] \in {<<f, k>> : k \in from..(stop - 1)}
      BY <2>2, <3>2
    <3>4. ASSUME NEW k \in from..(stop - 1) PROVE \E i \in 1..N : refs[i] = <<f, k>>
      <4>1. refs[k - from + 1] = <<f, from + (k - from + 1) - 1>>
        BY <3>1, <3>2
      <4> QED
        BY <3>1, <4>1
    <3> QED
      BY <3>3, <3>4
  <2> HIDE DEF refs, N, from, stop
  <2>5. st.set \in Fillings(cols)
    BY <1>1
  <2>6. /\ FoldLeft(AddMessage, st.set, refs) \in Fillings(cols)
        /\ Shown(FoldLeft(AddMessage, st.set, refs)) =
              Shown(st.set) \cup KeptOf(cols, {refs[i] : i \in 1..N})
    <3>1. N \in Nat
      BY <2>1
    <3> HIDE DEF n, last, set
    <3> QED
      BY <2>3, <2>5, <3>1, MessagesAdded
  <2> QED
    BY <2>4, <2>6
<1> HIDE DEF set, from, stop, last
<1>5. CASE ~st.ok
  <2>1. after = st
    BY <1>3, <1>5
  <2> QED
    BY <1>5, <2>1 DEF after, Added
<1>6. CASE st.ok /\ ~Readable(f)
  <2>1. after = [set |-> st.set, pos |-> st.pos, ok |-> FALSE]
    BY <1>1, <1>3, <1>6
  <2>2. after \in States(cols) /\ ~after.ok
    BY <1>1, <2>1 DEF States
  <2> QED
    BY <2>2 DEF after, Added
<1>7. CASE st.ok /\ Readable(f) /\ stop <= last
  <2>1. [st.pos EXCEPT ![f] = stop + 1] \in [File -> Nat]
    BY <1>1, <1>2
  <2> QED
    <3>1. after = [set |-> set, pos |-> [st.pos EXCEPT ![f] = stop + 1], ok |-> FALSE]
      BY <1>3, <1>7
    <3>2. after \in States(cols) /\ ~after.ok
      BY <1>4, <2>1, <3>1 DEF States
    <3> QED
      BY <3>2 DEF after, Added
<1>8. CASE st.ok /\ Readable(f) /\ stop > last
  <2> DEFINE pos == AfterClose([st.pos EXCEPT ![f] = stop], f)
  <2>1. /\ pos \in [File -> Nat] /\ pos[f] \in {Closed, last + 1}
        /\ \A g \in File \ {f} : pos[g] = st.pos[g]
    BY <1>1, <1>2, <1>8 DEF AfterClose, Closed
  <2> DEFINE done == [set EXCEPT !.current = 0]
  <2>2. done \in Fillings(cols) /\ Shown(done) = Shown(set)
    <3> HIDE DEF set
    <3> QED
      BY <1>4, Rewound
  <2> HIDE DEF pos
  <2>3. after = [set |-> done, pos |-> pos, ok |-> TRUE]
    <3>1. ~(stop <= last)
      BY <1>2, <1>8
    <3> QED
      BY <1>3, <1>8, <3>1 DEF pos
  <2> HIDE DEF done
  <2>4. after \in States(cols)
    BY <2>1, <2>2, <2>3 DEF States
  <2>5. stop - 1 = last
    BY <1>2, <1>8
  <2> QED
    BY <1>4, <1>8, <2>1, <2>2, <2>3, <2>4, <2>5 DEF from, last, after, Onward, Added
<1>9. stop <= last \/ stop > last
  BY <1>2
<1> QED
  BY <1>5, <1>6, <1>7, <1>8, <1>9

-----------------------------------------------------------------------------
(* Adding files *)

Reading(st, files, n, H) ==
    H[0] = st /\ \A k \in 1..n : H[k] = AddFile(H[k - 1], files[k])

LEMMA FilesFold ==
  ASSUME NEW cols, NEW st \in States(cols), NEW n \in Nat, NEW files \in [1..n -> File]
  PROVE  \E H : Reading(st, files, n, H) /\ FoldLeft(AddFile, st, files) = H[n]
<1> DEFINE C == CHOOSE F : F = [s \in SUBSET (1..n) |->
                    IF s = {} THEN st ELSE AddFile(F[s \ {Max(s)}], files[Max(s)])]
           V == States(cols)
           turn == [p \in V \X (1..n) |-> AddFile(p[1], files[p[2]])]
<1>1. FoldLeft(AddFile, st, files) = C[1..n]
  <2>1. DOMAIN files = 1..n
    OBVIOUS
  <2> QED
    BY <2>1 DEF FoldLeft, MapThenFoldSet
<1>2. \E F : F = [s \in SUBSET (1..n) |->
                    IF s = {} THEN st ELSE AddFile(F[s \ {Max(s)}], files[Max(s)])]
  <2>1. turn \in [V \X (1..n) -> V]
    <3>1. \A p \in V \X (1..n) : AddFile(p[1], files[p[2]]) \in V
      BY FileAdded
    <3> QED
      BY <3>1
  <2>2. PICK F \in [SUBSET (1..n) -> V] : Folds(turn, st, n, F)
    <3> HIDE DEF turn, V
    <3>1. st \in V
      BY DEF V
    <3> QED
      BY <2>1, <3>1, FoldExists
  <2>3. ASSUME NEW s \in SUBSET (1..n)
        PROVE  F[s] = IF s = {} THEN st ELSE AddFile(F[s \ {Max(s)}], files[Max(s)])
    <3>1. F[s] = IF s = {} THEN st ELSE turn[<<F[s \ {Max(s)}], Max(s)>>]
      BY <2>2 DEF Folds
    <3>2. CASE s # {}
      <4>1. Max(s) \in 1..n /\ F[s \ {Max(s)}] \in V
        BY <3>2, MaxOf
      <4> HIDE DEF V
      <4>2. turn[<<F[s \ {Max(s)}], Max(s)>>] = AddFile(F[s \ {Max(s)}], files[Max(s)])
        BY <4>1
      <4> QED
        BY <3>1, <3>2, <4>2
    <3> QED
      BY <3>1, <3>2
  <2> HIDE DEF turn, V
  <2>4. F = [s \in SUBSET (1..n) |-> F[s]]
    OBVIOUS
  <2> QED
    BY <2>3, <2>4
<1>3. C = [s \in SUBSET (1..n) |->
               IF s = {} THEN st ELSE AddFile(C[s \ {Max(s)}], files[Max(s)])]
  BY <1>2
<1> DEFINE H == [k \in 0..n |-> C[1..k]]
<1> HIDE DEF C, V, turn
<1>4. \A s \in SUBSET (1..n) :
          C[s] = IF s = {} THEN st ELSE AddFile(C[s \ {Max(s)}], files[Max(s)])
  BY <1>3
<1>5. H[0] = st
  <2>1. 1..0 = {} /\ 1..0 \in SUBSET (1..n) /\ 0 \in 0..n
    OBVIOUS
  <2> QED
    BY <1>4, <2>1
<1>6. ASSUME NEW k \in 1..n PROVE H[k] = AddFile(H[k - 1], files[k])
  <2>1. /\ 1..k \in SUBSET (1..n) /\ 1..k # {}
        /\ Max(1..k) = k /\ (1..k) \ {Max(1..k)} = 1..(k - 1)
    BY HeadOf
  <2>2. C[1..k] = AddFile(C[1..(k - 1)], files[k])
    BY <1>4, <2>1
  <2>3. k \in 0..n /\ k - 1 \in 0..n
    OBVIOUS
  <2> QED
    BY <2>2, <2>3
<1>7. H[n] = C[1..n]
  OBVIOUS
<1> HIDE DEF H
<1> QED
  BY <1>1, <1>5, <1>6, <1>7 DEF Reading

\* Files that were closed are read once from their first message, or again
\* from there: every message is added.
AllAdded(cols, st, files, n, after) ==
    after.ok /\ (\A i \in 1..n : st.pos[files[i]] = Closed) =>
        Shown(after.set) = Shown(st.set) \cup KeptOf(cols, References({files[i] : i \in 1..n}))

LEMMA FilesAdded ==
  ASSUME NEW cols, NEW st \in States(cols), NEW n \in Nat, NEW files \in [1..n -> File]
  PROVE  /\ FoldLeft(AddFile, st, files) \in States(cols)
         /\ AllAdded(cols, st, files, n, FoldLeft(AddFile, st, files))
<1>1. PICK H : Reading(st, files, n, H) /\ FoldLeft(AddFile, st, files) = H[n]
  BY FilesFold
<1> DEFINE read(k) == {files[i] : i \in 1..k}
           AtEnds(k) == \A f \in read(n) :
               H[k].pos[f] # Closed => H[k].pos[f] = Len(Contents[f]) + 1 /\ f \in read(k)
           Whole(k) == Shown(H[k].set) = Shown(st.set) \cup KeptOf(cols, References(read(k)))
           closed == \A i \in 1..n : st.pos[files[i]] = Closed
           good == {k \in Nat : H[k] \in States(cols) /\ (H[k].ok /\ closed => AtEnds(k) /\ Whole(k))}
<1>2. 0 \in good
  <2>1. read(0) = {} /\ H[0] = st
    BY <1>1 DEF Reading
  <2>2. References(read(0)) = {}
    BY <2>1 DEF References
  <2>3. Whole(0)
    BY <2>1, <2>2 DEF KeptOf
  <2>4. closed => AtEnds(0)
    BY <2>1
  <2> QED
    BY <2>1, <2>3, <2>4
<1>3. ASSUME NEW k \in 0..(n - 1), k \in good PROVE k + 1 \in good
  <2> DEFINE f == files[k + 1]
             last == Len(Contents[f])
  <2>1. k + 1 \in 1..n /\ k + 1 \in Nat /\ (k + 1) - 1 = k /\ f \in File
    OBVIOUS
  <2>2. H[k + 1] = AddFile(H[k], f)
    BY <1>1, <2>1 DEF Reading
  <2>3. H[k] \in States(cols) /\ (H[k].ok /\ closed => AtEnds(k) /\ Whole(k))
    BY <1>3
  <2>4. read(k + 1) = read(k) \cup {f} /\ f \in read(n)
    <3>1. 1..(k + 1) = (1..k) \cup {k + 1}
      BY <2>1
    <3> QED
      BY <2>1, <3>1
  <2> HIDE DEF good, f, read, closed
  <2>5. /\ H[k + 1] \in States(cols)
        /\ H[k + 1].ok =>
              /\ H[k].ok
              /\ H[k + 1].pos[f] \in {Closed, last + 1}
              /\ \A g \in File \ {f} : H[k + 1].pos[g] = H[k].pos[g]
              /\ Shown(H[k + 1].set) =
                    Shown(H[k].set) \cup KeptOf(cols, Onward(f, From(H[k].pos, f)))
    <3> HIDE DEF AtEnds, Whole
    <3>1. AddFile(H[k], f) \in States(cols) /\ Added(cols, H[k], f, AddFile(H[k], f))
      BY <2>1, <2>3, FileAdded
    <3> QED
      BY <2>2, <3>1 DEF Added
  <2>6. ASSUME H[k + 1].ok, closed PROVE AtEnds(k + 1) /\ Whole(k + 1)
    <3>1. AtEnds(k) /\ Whole(k)
      BY <2>3, <2>5, <2>6
    <3>2. read(n) \subseteq File
      BY DEF read
    <3>3. AtEnds(k + 1)
      BY <2>4, <2>5, <2>6, <3>1, <3>2
    <3>4. last \in Nat /\ DOMAIN Contents[f] = 1..last
      BY <2>1, FieldsetAssumption
    <3>5. References(read(k + 1)) = References(read(k)) \cup References({f})
      BY <2>4 DEF References
    <3>6. ASSUME H[k].pos[f] = Closed PROVE Whole(k + 1)
      <4>1. From(H[k].pos, f) = 1
        BY <3>6 DEF From
      <4>2. References({f}) = {<<f, i>> : i \in 1..last}
        BY <3>4 DEF References
      <4>4. Onward(f, 1) = References({f})
        BY <4>2 DEF Onward
      <4>3. Shown(H[k + 1].set) = Shown(H[k].set) \cup KeptOf(cols, References({f}))
        BY <2>5, <2>6, <4>1, <4>4
      <4> QED
        BY <3>1, <3>5, <4>3 DEF KeptOf
    <3>7. ASSUME H[k].pos[f] # Closed PROVE Whole(k + 1)
      <4>1. H[k].pos[f] = last + 1 /\ f \in read(k)
        BY <2>4, <3>1, <3>7
      <4>2. From(H[k].pos, f) = last + 1
        BY <3>7, <4>1 DEF From
      <4>3. (last + 1)..last = {}
        BY <3>4
      <4>4. References({f}) \subseteq References(read(k))
        BY <4>1 DEF References
      <4>5. Onward(f, From(H[k].pos, f)) = {}
        BY <4>2, <4>3 DEF Onward
      <4>6. Shown(H[k + 1].set) = Shown(H[k].set)
        BY <2>5, <2>6, <4>5 DEF KeptOf
      <4>7. References(read(k + 1)) = References(read(k))
        BY <3>5, <4>4
      <4> QED
        BY <3>1, <4>6, <4>7
    <3> QED
      BY <3>3, <3>6, <3>7
  <2> QED
    BY <2>1, <2>5, <2>6 DEF good
<1> HIDE DEF good
<1>4. \A k \in 0..n : k \in good
  BY <1>2, <1>3, Induction
<1>5. n \in good
  BY <1>4
<1> QED
  BY <1>1, <1>5 DEF good, AllAdded

-----------------------------------------------------------------------------
(* Comparing fields *)

\* The values that an order compares are numbers, and longs are near enough to
\* each other for their differences to fit in an int.
Near(rows, orderBy, n) ==
    /\ orderBy \in Seq(Key \X {1, -1})
    /\ \A a, b \in 1..n, k \in 1..Len(orderBy) :
           /\ rows[a][orderBy[k][1]] \in Int
           /\ orderBy[k][1] \in Long => rows[a][orderBy[k][1]] - rows[b][orderBy[k][1]] < IntHalf

\* What the order makes of the k-th value of a row: the descending one negated.
Weight(rows, orderBy, a, k) == rows[a][orderBy[k][1]] * orderBy[k][2]

Less(rows, orderBy, a, b, k) ==
    /\ \A m \in 1..(k - 1) : Weight(rows, orderBy, a, m) = Weight(rows, orderBy, b, m)
    /\ Weight(rows, orderBy, a, k) < Weight(rows, orderBy, b, k)

Before(rows, orderBy, a, b) == \E k \in 1..Len(orderBy) : Less(rows, orderBy, a, b, k)

Alike(rows, orderBy, a, b) ==
    \A k \in 1..Len(orderBy) : Weight(rows, orderBy, a, k) = Weight(rows, orderBy, b, k)

LEMMA Fits == ASSUME NEW d \in Int, d < IntHalf, -d < IntHalf PROVE AsInt(d) = d
<1>1. IntHalf \in Nat \ {0}
  BY FieldsetAssumption
<1>2. d + IntHalf \in 0..(2 * IntHalf - 1)
  BY <1>1
<1>3. (d + IntHalf) % (2 * IntHalf) = d + IntHalf
  BY <1>1, <1>2
<1> QED
  BY <1>1, <1>3 DEF AsInt

\* A mode is 1 or -1: the weights differ as the values do.
LEMMA Weighted ==
  ASSUME NEW n \in Nat, NEW rows, NEW orderBy, Near(rows, orderBy, n),
         NEW a \in 1..n, NEW b \in 1..n, NEW k \in 1..Len(orderBy)
  PROVE  /\ orderBy[k] \in Key \X {1, -1}
         /\ Weight(rows, orderBy, a, k) \in Int
         /\ Difference(orderBy[k][1], rows[a][orderBy[k][1]], rows[b][orderBy[k][1]]) \in Int
         /\ Difference(orderBy[k][1], rows[a][orderBy[k][1]], rows[b][orderBy[k][1]]) = 0 <=>
                rows[a][orderBy[k][1]] = rows[b][orderBy[k][1]]
         /\ Difference(orderBy[k][1], rows[a][orderBy[k][1]], rows[b][orderBy[k][1]]) * orderBy[k][2] =
                Weight(rows, orderBy, a, k) - Weight(rows, orderBy, b, k)
         /\ Weight(rows, orderBy, a, k) = Weight(rows, orderBy, b, k) <=>
                rows[a][orderBy[k][1]] = rows[b][orderBy[k][1]]
<1> DEFINE x == rows[a][orderBy[k][1]]
           y == rows[b][orderBy[k][1]]
           c == orderBy[k][1]
           s == orderBy[k][2]
<1>1. orderBy \in Seq(Key \X {1, -1})
  BY DEF Near
<1>2. orderBy[k] \in Key \X {1, -1}
  BY <1>1
<1>3. s \in {1, -1}
  BY <1>2
<1>4. x \in Int /\ y \in Int /\ (c \in Long => x - y < IntHalf /\ y - x < IntHalf)
  BY DEF Near
<1>5. Weight(rows, orderBy, a, k) = x * s /\ Weight(rows, orderBy, b, k) = y * s
  BY DEF Weight
<1> HIDE DEF x, y, c, s
<1>6. x - y \in Int /\ -(x - y) = y - x
  BY <1>4
<1>7. Difference(c, x, y) = x - y
  BY <1>4, <1>6, Fits DEF Difference
<1> DEFINE good == /\ x * s \in Int /\ y * s \in Int /\ Difference(c, x, y) \in Int
                   /\ Difference(c, x, y) = 0 <=> x = y
                   /\ Difference(c, x, y) * s = x * s - y * s
                   /\ x * s = y * s <=> x = y
<1>8. ASSUME s = 1 PROVE good
  <2>1. x * s = x /\ y * s = y /\ (x - y) * s = x - y
    BY <1>4, <1>8
  <2> QED
    BY <1>4, <1>7, <2>1
<1>9. ASSUME s = -1 PROVE good
  <2>1. x * s = -x /\ y * s = -y /\ (x - y) * s = -x - (-y)
    BY <1>4, <1>9
  <2> QED
    BY <1>4, <1>7, <2>1
<1>10. good
  BY <1>3, <1>8, <1>9
<1> QED
  BY <1>2, <1>5, <1>10 DEF x, y, c, s

\* grib_fieldset_compare tells which of two fields the order has first.
LEMMA CompareSign ==
  ASSUME NEW n \in Nat, NEW rows, NEW orderBy, Near(rows, orderBy, n),
         NEW a \in 1..n, NEW b \in 1..n
  PROVE  /\ Compare(rows, orderBy, a, b) \in Int
         /\ \/ Alike(rows, orderBy, a, b) /\ Compare(rows, orderBy, a, b) = 0
            \/ Before(rows, orderBy, a, b) /\ Compare(rows, orderBy, a, b) < 0
            \/ Before(rows, orderBy, b, a) /\ Compare(rows, orderBy, a, b) > 0
<1> DEFINE K == Len(orderBy)
           val(c, k) == rows[c][orderBy[k][1]]
           diff(k) == Difference(orderBy[k][1], val(a, k), val(b, k))
           w(c, k) == Weight(rows, orderBy, c, k)
           I == {i \in 1..K : diff(i) # 0}
           first == IF I # {} THEN Min(I) ELSE 0
           cmp == Compare(rows, orderBy, a, b)
<1>1. cmp = IF first = 0 THEN 0 ELSE diff(first) * orderBy[first][2]
  BY DEF Compare, SelectInSeq
<1>2. \A k \in 1..K : /\ w(a, k) \in Int /\ w(b, k) \in Int
                      /\ diff(k) = 0 <=> w(a, k) = w(b, k)
                      /\ diff(k) * orderBy[k][2] = w(a, k) - w(b, k)
  <2> SUFFICES ASSUME NEW k \in 1..K
               PROVE  /\ w(a, k) \in Int /\ w(b, k) \in Int
                      /\ diff(k) = 0 <=> w(a, k) = w(b, k)
                      /\ diff(k) * orderBy[k][2] = w(a, k) - w(b, k)
    OBVIOUS
  <2>1. w(b, k) \in Int
    BY Weighted
  <2>2. /\ w(a, k) \in Int
        /\ diff(k) = 0 <=> val(a, k) = val(b, k)
        /\ diff(k) * orderBy[k][2] = w(a, k) - w(b, k)
        /\ w(a, k) = w(b, k) <=> val(a, k) = val(b, k)
    BY Weighted
  <2> QED
    BY <2>1, <2>2
<1>3. K \in Nat
  BY DEF Near
<1> HIDE DEF K, diff, w, cmp
<1>4. CASE I = {}
  <2>1. first = 0 /\ cmp = 0
    BY <1>1, <1>4
  <2>2. Alike(rows, orderBy, a, b)
    BY <1>2, <1>4 DEF Alike, w, K
  <2> QED
    BY <2>1, <2>2 DEF cmp
<1>5. CASE I # {}
  <2>1. I \in SUBSET Nat
    BY <1>3
  <2>2. first = Min(I)
    BY <1>5
  <2>3. first \in I /\ \A m \in I : first <= m
    <3> HIDE DEF I, first
    <3> QED
      BY <1>5, <2>1, <2>2, MinOf
  <2>4. /\ first \in 1..K /\ diff(first) # 0
        /\ \A m \in 1..(first - 1) : m \in 1..K /\ diff(m) = 0
    <3>1. first \in 1..K /\ diff(first) # 0
      BY <2>3
    <3> HIDE DEF first
    <3>2. ASSUME NEW m \in 1..(first - 1) PROVE m \in 1..K /\ ~(first <= m)
      BY <1>3, <3>1
    <3> QED
      BY <2>3, <3>1, <3>2
  <2> HIDE DEF I, first
  <2>5. /\ cmp = w(a, first) - w(b, first) /\ w(a, first) # w(b, first)
        /\ w(a, first) \in Int /\ w(b, first) \in Int
        /\ \A m \in 1..(first - 1) : w(a, m) = w(b, m)
    <3>1. first # 0
      BY <2>4
    <3> QED
      BY <1>1, <1>2, <2>4, <3>1
  <2>6. CASE w(a, first) < w(b, first)
    <3>1. cmp < 0 /\ cmp \in Int
      BY <2>5, <2>6
    <3>2. Before(rows, orderBy, a, b)
      BY <2>4, <2>5, <2>6 DEF Before, Less, w, K
    <3> QED
      BY <3>1, <3>2 DEF cmp
  <2>7. CASE w(b, first) < w(a, first)
    <3>1. cmp > 0 /\ cmp \in Int
      BY <2>5, <2>7
    <3>2. Before(rows, orderBy, b, a)
      BY <2>4, <2>5, <2>7 DEF Before, Less, w, K
    <3> QED
      BY <3>1, <3>2 DEF cmp
  <2> QED
    BY <2>5, <2>6, <2>7
<1> QED
  BY <1>4, <1>5

LEMMA BeforeOneWay ==
  ASSUME NEW n \in Nat, NEW rows, NEW orderBy, Near(rows, orderBy, n),
         NEW a \in 1..n, NEW b \in 1..n, Before(rows, orderBy, a, b)
  PROVE  ~Before(rows, orderBy, b, a) /\ ~Alike(rows, orderBy, a, b)
<1> DEFINE K == Len(orderBy)
           w(c, k) == Weight(rows, orderBy, c, k)
<1>1. \A k \in 1..K : w(a, k) \in Int /\ w(b, k) \in Int
  BY Weighted
<1>2. PICK i \in 1..K : Less(rows, orderBy, a, b, i)
  BY DEF Before
<1>3. (\A m \in 1..(i - 1) : w(a, m) = w(b, m)) /\ w(a, i) < w(b, i)
  BY <1>2 DEF Less
<1>4. K \in Nat
  BY DEF Near
<1>5. ~Alike(rows, orderBy, a, b)
  <2> HIDE DEF w
  <2>1. w(a, i) # w(b, i)
    BY <1>1, <1>3
  <2> QED
    BY <2>1 DEF Alike, w
<1>6. ASSUME NEW j \in 1..K, Less(rows, orderBy, b, a, j) PROVE FALSE
  <2>1. (\A m \in 1..(j - 1) : w(b, m) = w(a, m)) /\ w(b, j) < w(a, j)
    BY <1>6 DEF Less
  <2> HIDE DEF w, K
  <2>2. CASE i < j
    <3>1. i \in 1..(j - 1)
      BY <1>4, <2>2
    <3> QED
      BY <1>1, <1>3, <2>1, <3>1
  <2>3. CASE j < i
    <3>1. j \in 1..(i - 1)
      BY <1>4, <2>3
    <3> QED
      BY <1>1, <1>3, <2>1, <3>1
  <2>4. CASE i = j
    BY <1>1, <1>3, <2>1, <2>4
  <2> QED
    BY <1>4, <2>2, <2>3, <2>4
<1> QED
  BY <1>5, <1>6 DEF Before

\* Not greater is transitive.
LEMMA BeforeTransitive ==
  ASSUME NEW n \in Nat, NEW rows, NEW orderBy, Near(rows, orderBy, n),
         NEW a \in 1..n, NEW b \in 1..n, NEW c \in 1..n,
         ~Before(rows, orderBy, b, a), ~Before(rows, orderBy, c, b)
  PROVE  ~Before(rows, orderBy, c, a)
<1> DEFINE K == Len(orderBy)
           w(d, k) == Weight(rows, orderBy, d, k)
<1>1. \A k \in 1..K : w(a, k) \in Int /\ w(b, k) \in Int /\ w(c, k) \in Int
  BY Weighted
<1>2. K \in Nat
  BY DEF Near
<1>3. SUFFICES ASSUME NEW k \in 1..K, Less(rows, orderBy, c, a, k) PROVE FALSE
  BY DEF Before
<1>4. (\A m \in 1..(k - 1) : w(c, m) = w(a, m)) /\ w(c, k) < w(a, k)
  BY <1>3 DEF Less
\* The place up to which two fields are alike, and behind which all is as it may.
<1>5. \E i \in 1..(K + 1) : (\A m \in 1..(i - 1) : w(a, m) = w(b, m)) /\ (i <= K => w(a, i) < w(b, i))
  <2>1. CASE Alike(rows, orderBy, a, b)
    <3>1. K + 1 \in 1..(K + 1) /\ (K + 1) - 1 = K /\ ~(K + 1 <= K)
      BY <1>2
    <3> HIDE DEF K, w
    <3>2. \A m \in 1..K : w(a, m) = w(b, m)
      BY <2>1 DEF Alike, w, K
    <3> QED
      BY <3>1, <3>2
  <2>2. CASE Before(rows, orderBy, a, b)
    <3>1. PICK i \in 1..K : Less(rows, orderBy, a, b, i)
      BY <2>2 DEF Before
    <3>2. i \in 1..(K + 1)
      BY <1>2
    <3> QED
      BY <3>1, <3>2 DEF Less
  <2> QED
    BY <2>1, <2>2, CompareSign
<1>6. \E j \in 1..(K + 1) : (\A m \in 1..(j - 1) : w(b, m) = w(c, m)) /\ (j <= K => w(b, j) < w(c, j))
  <2>1. CASE Alike(rows, orderBy, b, c)
    <3>1. K + 1 \in 1..(K + 1) /\ (K + 1) - 1 = K /\ ~(K + 1 <= K)
      BY <1>2
    <3> HIDE DEF K, w
    <3>2. \A m \in 1..K : w(b, m) = w(c, m)
      BY <2>1 DEF Alike, w, K
    <3> QED
      BY <3>1, <3>2
  <2>2. CASE Before(rows, orderBy, b, c)
    <3>1. PICK i \in 1..K : Less(rows, orderBy, b, c, i)
      BY <2>2 DEF Before
    <3>2. i \in 1..(K + 1)
      BY <1>2
    <3> QED
      BY <3>1, <3>2 DEF Less
  <2> QED
    BY <2>1, <2>2, CompareSign
<1>7. PICK i \in 1..(K + 1) : (\A m \in 1..(i - 1) : w(a, m) = w(b, m)) /\ (i <= K => w(a, i) < w(b, i))
  BY <1>5
<1>8. PICK j \in 1..(K + 1) : (\A m \in 1..(j - 1) : w(b, m) = w(c, m)) /\ (j <= K => w(b, j) < w(c, j))
  BY <1>6
<1> HIDE DEF w, K
<1>9. CASE k <= i /\ k <= j
  <2>1. /\ k < i => k \in 1..(i - 1)
        /\ k < j => k \in 1..(j - 1)
    BY <1>2, <1>9
  <2>2. w(a, k) <= w(b, k)
    <3>1. k < i \/ k = i
      BY <1>2, <1>9
    <3> QED
      BY <1>1, <1>2, <1>7, <2>1, <3>1
  <2>3. w(b, k) <= w(c, k)
    <3>1. k < j \/ k = j
      BY <1>2, <1>9
    <3> QED
      BY <1>1, <1>2, <1>8, <2>1, <3>1
  <2> QED
    BY <1>1, <1>4, <2>2, <2>3
<1>10. CASE i < k /\ i <= j
  <2>1. i \in 1..(k - 1) /\ i \in 1..K /\ i <= K
    BY <1>2, <1>10
  <2>2. w(b, i) <= w(c, i)
    <3>1. i < j \/ i = j
      BY <1>2, <1>10
    <3>2. i < j => i \in 1..(j - 1)
      BY <1>2
    <3> QED
      BY <1>1, <1>2, <1>8, <2>1, <3>1, <3>2
  <2> QED
    BY <1>1, <1>4, <1>7, <2>1, <2>2
<1>11. CASE j < k /\ j < i
  <2>1. j \in 1..(k - 1) /\ j \in 1..K /\ j \in 1..(i - 1) /\ j <= K
    BY <1>2, <1>11
  <2> QED
    BY <1>1, <1>4, <1>7, <1>8, <2>1
<1> QED
  BY <1>2, <1>9, <1>10, <1>11

\* What sorting needs to know of a comparison.
Orders(rows, orderBy, n) ==
    /\ \A a, b \in 1..n : /\ Compare(rows, orderBy, a, b) \in Int
                          /\ Compare(rows, orderBy, a, b) >= 0 => Compare(rows, orderBy, b, a) <= 0
    /\ \A a, b, c \in 1..n :
           Compare(rows, orderBy, a, b) <= 0 /\ Compare(rows, orderBy, b, c) <= 0
               => Compare(rows, orderBy, a, c) <= 0

LEMMA CompareOrders ==
  ASSUME NEW n \in Nat, NEW rows, NEW orderBy, Near(rows, orderBy, n)
  PROVE  /\ Orders(rows, orderBy, n)
         /\ \A a, b \in 1..n : Compare(rows, orderBy, a, b) <= 0 <=> ~Before(rows, orderBy, b, a)
<1>1. ASSUME NEW a \in 1..n, NEW b \in 1..n
      PROVE  /\ Compare(rows, orderBy, a, b) \in Int
             /\ Compare(rows, orderBy, a, b) <= 0 <=> ~Before(rows, orderBy, b, a)
  <2>1. /\ Before(rows, orderBy, b, a) => ~Before(rows, orderBy, a, b) /\ ~Alike(rows, orderBy, b, a)
        /\ Before(rows, orderBy, a, b) => ~Before(rows, orderBy, b, a)
    BY BeforeOneWay
  <2>2. Alike(rows, orderBy, a, b) => Alike(rows, orderBy, b, a)
    BY DEF Alike
  <2>3. /\ Compare(rows, orderBy, a, b) \in Int
        /\ \/ Alike(rows, orderBy, a, b) /\ Compare(rows, orderBy, a, b) = 0
           \/ Before(rows, orderBy, a, b) /\ Compare(rows, orderBy, a, b) < 0
           \/ Before(rows, orderBy, b, a) /\ Compare(rows, orderBy, a, b) > 0
    BY CompareSign
  <2> DEFINE cmp == Compare(rows, orderBy, a, b)
  <2>4. cmp \in Int
    BY <2>3
  <2> HIDE DEF cmp
  <2>5. cmp = 0 \/ cmp < 0 => cmp <= 0
    BY <2>4
  <2>6. cmp > 0 => ~(cmp <= 0)
    BY <2>4
  <2> QED
    BY <2>1, <2>2, <2>3, <2>5, <2>6 DEF cmp
<1>2. ASSUME NEW a \in 1..n, NEW b \in 1..n, Compare(rows, orderBy, a, b) >= 0
      PROVE  Compare(rows, orderBy, b, a) <= 0
  <2>1. ~(Compare(rows, orderBy, a, b) < 0)
    BY <1>1, <1>2
  <2>2. ~Before(rows, orderBy, a, b)
    <3>1. Before(rows, orderBy, a, b) => ~Before(rows, orderBy, b, a) /\ ~Alike(rows, orderBy, a, b)
      BY BeforeOneWay
    <3> QED
      BY <2>1, <3>1, CompareSign
  <2> QED
    BY <1>1, <2>2
<1>3. ASSUME NEW a \in 1..n, NEW b \in 1..n, NEW c \in 1..n,
             Compare(rows, orderBy, a, b) <= 0, Compare(rows, orderBy, b, c) <= 0
      PROVE  Compare(rows, orderBy, a, c) <= 0
  BY <1>1, <1>3, BeforeTransitive
<1> QED
  BY <1>1, <1>2, <1>3 DEF Orders

-----------------------------------------------------------------------------
(* Exchanging places *)

\* q has the fields that p has, those of the places s to e in some other order.
Within(p, q, s, e, n) ==
    /\ q \in [1..n -> 1..n]
    /\ \A i \in 1..n : i \notin s..e => q[i] = p[i]
    /\ \A i \in s..e : \E j \in s..e : q[i] = p[j]
    /\ \A i \in s..e : \E j \in s..e : p[i] = q[j]

LEMMA WithinSame ==
  ASSUME NEW n \in Nat, NEW p \in [1..n -> 1..n], NEW s, NEW e
  PROVE  Within(p, p, s, e, n)
  BY DEF Within

LEMMA WithinAgain ==
  ASSUME NEW n \in Nat, NEW p, NEW q, NEW r, NEW s \in 1..n, NEW e \in 1..n,
         Within(p, q, s, e, n), Within(q, r, s, e, n)
  PROVE  Within(p, r, s, e, n)
<1>1. r \in [1..n -> 1..n] /\ \A i \in 1..n : i \notin s..e => r[i] = p[i]
  BY DEF Within
<1>2. ASSUME NEW i \in s..e PROVE \E j \in s..e : r[i] = p[j]
  <2>1. PICK k \in s..e : r[i] = q[k]
    BY DEF Within
  <2>2. PICK j \in s..e : q[k] = p[j]
    BY DEF Within
  <2> QED
    BY <2>1, <2>2
<1>3. ASSUME NEW i \in s..e PROVE \E j \in s..e : p[i] = r[j]
  <2>1. PICK k \in s..e : p[i] = q[k]
    BY DEF Within
  <2>2. PICK j \in s..e : q[k] = r[j]
    BY DEF Within
  <2> QED
    BY <2>1, <2>2
<1> QED
  BY <1>1, <1>2, <1>3 DEF Within

\* The places a and b have changed their fields.
Exchanged(p, q, a, b, s, e, n) ==
    /\ Within(p, q, s, e, n) /\ q[a] = p[b] /\ q[b] = p[a]
    /\ \A i \in 1..n : i # a /\ i # b => q[i] = p[i]

LEMMA Swapped ==
  ASSUME NEW n \in Nat, NEW p \in [1..n -> 1..n], NEW s \in 1..n, NEW e \in 1..n,
         NEW a \in s..e, NEW b \in s..e
  PROVE  Exchanged(p, Swap(p, a, b), a, b, s, e, n)
<1> DEFINE q == Swap(p, a, b)
<1>1. a \in 1..n /\ b \in 1..n
  OBVIOUS
<1>2. /\ q \in [1..n -> 1..n] /\ q[a] = p[b] /\ q[b] = p[a]
      /\ \A i \in 1..n : i # a /\ i # b => q[i] = p[i]
  BY <1>1 DEF Swap
<1> HIDE DEF q
<1>3. \A i \in s..e : i \in 1..n
  OBVIOUS
<1>4. \A i \in s..e : \E j \in s..e : q[i] = p[j]
  BY <1>2, <1>3
<1>5. \A i \in s..e : \E j \in s..e : p[i] = q[j]
  BY <1>2, <1>3
<1>6. \A i \in 1..n : i \notin s..e => q[i] = p[i]
  BY <1>2
<1> QED
  BY <1>2, <1>4, <1>5, <1>6 DEF Within, Exchanged, q

-----------------------------------------------------------------------------
(* The loop of the sort *)

\* What is before l is not greater than the field at the start, and what is
\* behind r not less. A turn brings l and r nearer, but for an exchange, which
\* makes the next one do it.
Partitioning(rows, orderBy, n, order, start, end, k, st) ==
    LET cmp(i) == Compare(rows, orderBy, st.order[i], order[start])
    IN  /\ st = [order |-> st.order, l |-> st.l, r |-> st.r]
        /\ Within(order, st.order, start, end, n) /\ st.order[start] = order[start]
        /\ st.l \in (start + 1)..end /\ st.r \in (start + 1)..end /\ st.l <= st.r
        /\ \A i \in start..(st.l - 1) : cmp(i) <= 0
        /\ \A i \in (st.r + 1)..end : cmp(i) >= 0
        /\ \/ st.l = st.r
           \/ k + 2 * (st.r - st.l) - (IF cmp(st.l) <= 0 THEN 1 ELSE 0) <= 2 * (end - start - 1)

LEMMA TurnParts ==
  ASSUME NEW st, st = [order |-> st.order, l |-> st.l, r |-> st.r]
  PROVE  /\ [st EXCEPT !.l = @ + 1] = [order |-> st.order, l |-> st.l + 1, r |-> st.r]
         /\ [st EXCEPT !.r = @ - 1] = [order |-> st.order, l |-> st.l, r |-> st.r - 1]
         /\ [st EXCEPT !.order = Swap(@, st.l, st.r)] =
                [order |-> Swap(st.order, st.l, st.r), l |-> st.l, r |-> st.r]
  OBVIOUS

LEMMA TurnKeeps ==
  ASSUME NEW n \in Nat, NEW rows, NEW orderBy, Orders(rows, orderBy, n), NEW order \in [1..n -> 1..n],
         NEW start \in 1..n, NEW end \in 1..n, start < end, NEW k \in Nat,
         NEW st, Partitioning(rows, orderBy, n, order, start, end, k, st)
  PROVE  Partitioning(rows, orderBy, n, order, start, end, k + 1, Turn(rows, orderBy, start, st))
<1> DEFINE after == Turn(rows, orderBy, start, st)
           C(x) == Compare(rows, orderBy, x, order[start])
           l == st.l
           r == st.r
           q == st.order
<1>1. /\ st = [order |-> q, l |-> l, r |-> r]
      /\ Within(order, q, start, end, n) /\ q[start] = order[start]
      /\ l \in (start + 1)..end /\ r \in (start + 1)..end /\ l <= r
      /\ \A i \in start..(l - 1) : C(q[i]) <= 0
      /\ \A i \in (r + 1)..end : C(q[i]) >= 0
      /\ l = r \/ k + 2 * (r - l) - (IF C(q[l]) <= 0 THEN 1 ELSE 0) <= 2 * (end - start - 1)
  BY DEF Partitioning
<1>2. after = IF l >= r THEN st
              ELSE IF C(q[l]) <= 0 THEN [order |-> q, l |-> l + 1, r |-> r]
              ELSE IF C(q[r]) >= 0 THEN [order |-> q, l |-> l, r |-> r - 1]
              ELSE [order |-> Swap(q, l, r), l |-> l, r |-> r]
  BY <1>1, TurnParts DEF Turn
<1>3. /\ q \in [1..n -> 1..n] /\ order[start] \in 1..n
      /\ \A i \in start..end : i \in 1..n /\ C(q[i]) \in Int
  <2>1. q \in [1..n -> 1..n]
    <3>1. Within(order, q, start, end, n)
      BY <1>1
    <3> HIDE DEF q
    <3> QED
      BY <3>1 DEF Within
  <2>3. order[start] \in 1..n /\ \A i \in start..end : i \in 1..n
    OBVIOUS
  <2>2. \A x \in 1..n : C(x) \in Int
    BY <2>3 DEF Orders
  <2> HIDE DEF q, C
  <2> QED
    BY <2>1, <2>2, <2>3
<1>4. /\ start \in Int /\ end \in Int /\ k \in Int /\ l \in Int /\ r \in Int
      /\ start + 1 <= l /\ l <= r /\ r <= end
      /\ l \in start..end /\ r \in start..end
  BY <1>1
<1> HIDE DEF after, C, l, r, q
<1> SUFFICES Partitioning(rows, orderBy, n, order, start, end, k + 1, after)
  BY DEF after
<1>5. CASE l >= r
  <2>1. after = st /\ l = r
    BY <1>2, <1>4, <1>5
  <2> QED
    BY <1>1, <2>1 DEF Partitioning, C, l, r, q
<1>6. CASE l < r /\ C(q[l]) <= 0
  <2>1. after = [order |-> q, l |-> l + 1, r |-> r]
    <3>1. ~(l >= r)
      BY <1>4, <1>6
    <3> QED
      BY <1>2, <1>6, <3>1
  <2>2. l + 1 \in (start + 1)..end /\ l + 1 <= r
    BY <1>4, <1>6
  <2>3. ASSUME NEW i \in start..((l + 1) - 1) PROVE C(q[i]) <= 0
    <3>1. i \in start..(l - 1) \/ i = l
      BY <1>4
    <3> QED
      BY <1>1, <1>6, <3>1
  <2>4. (k + 1) + 2 * (r - (l + 1)) - (IF C(q[l + 1]) <= 0 THEN 1 ELSE 0) <= 2 * (end - start - 1)
    <3>1. k + 2 * (r - l) - 1 <= 2 * (end - start - 1)
      BY <1>1, <1>4, <1>6
    <3>2. (k + 1) + 2 * (r - (l + 1)) <= 2 * (end - start - 1)
      BY <1>4, <3>1
    <3>3. (k + 1) + 2 * (r - (l + 1)) - 1 <= 2 * (end - start - 1)
      BY <1>4, <3>2
    <3> QED
      BY <1>4, <3>2, <3>3
  <2>5. after.order = q /\ after.l = l + 1 /\ after.r = r /\ after = [order |-> after.order, l |-> after.l, r |-> after.r]
    BY <2>1
  <2> HIDE DEF after
  <2> QED
    BY <1>1, <2>2, <2>3, <2>4, <2>5 DEF Partitioning, C
<1>7. CASE l < r /\ ~(C(q[l]) <= 0) /\ C(q[r]) >= 0
  <2>1. after = [order |-> q, l |-> l, r |-> r - 1]
    <3>1. ~(l >= r)
      BY <1>4, <1>7
    <3> QED
      BY <1>2, <1>7, <3>1
  <2>2. r - 1 \in (start + 1)..end /\ l <= r - 1
    BY <1>4, <1>7
  <2>3. ASSUME NEW i \in ((r - 1) + 1)..end PROVE C(q[i]) >= 0
    <3>1. i \in (r + 1)..end \/ i = r
      BY <1>4
    <3> QED
      BY <1>1, <1>7, <3>1
  <2>4. (k + 1) + 2 * ((r - 1) - l) - (IF C(q[l]) <= 0 THEN 1 ELSE 0) <= 2 * (end - start - 1)
    <3>1. k + 2 * (r - l) - 0 <= 2 * (end - start - 1)
      BY <1>1, <1>4, <1>7
    <3>2. (k + 1) + 2 * ((r - 1) - l) - 0 <= 2 * (end - start - 1)
      BY <1>4, <3>1
    <3> QED
      BY <1>7, <3>2
  <2>5. after.order = q /\ after.l = l /\ after.r = r - 1 /\ after = [order |-> after.order, l |-> after.l, r |-> after.r]
    BY <2>1
  <2> QED
    BY <1>1, <2>2, <2>3, <2>4, <2>5 DEF Partitioning, C
<1>8. CASE l < r /\ ~(C(q[l]) <= 0) /\ ~(C(q[r]) >= 0)
  <2>0. l < r
    BY <1>8
  <2> DEFINE other == Swap(q, l, r)
  <2>1. after = [order |-> other, l |-> l, r |-> r]
    <3>1. ~(l >= r)
      BY <1>4, <1>8
    <3> QED
      BY <1>2, <1>8, <3>1
  <2>2. /\ Within(q, other, start, end, n) /\ other[l] = q[r] /\ other[r] = q[l]
        /\ \A i \in 1..n : i # l /\ i # r => other[i] = q[i]
    <3>1. q \in [1..n -> 1..n] /\ l \in start..end /\ r \in start..end
      BY <1>3, <1>4
    <3>2. Exchanged(q, other, l, r, start, end, n)
      BY <3>1, Swapped
    <3> QED
      BY <3>2 DEF Exchanged
  <2> HIDE DEF other
  <2>3. Within(order, other, start, end, n) /\ other[start] = order[start]
    <3>1. start \in 1..n /\ start # l /\ start # r
      BY <1>4
    <3> QED
      BY <1>1, <2>2, <3>1, WithinAgain
  <2>4. ASSUME NEW i \in start..(l - 1) PROVE C(other[i]) <= 0
    <3>1. i \in start..end /\ i # l /\ i # r
      BY <1>4, <2>0
    <3>2. i \in 1..n
      BY <1>3, <3>1
    <3>3. other[i] = q[i]
      BY <2>2, <3>1, <3>2
    <3> QED
      BY <1>1, <3>3
  <2>5. ASSUME NEW i \in (r + 1)..end PROVE C(other[i]) >= 0
    <3>1. i \in start..end /\ i # l /\ i # r
      BY <1>4, <2>0
    <3>2. i \in 1..n
      BY <1>3, <3>1
    <3>3. other[i] = q[i]
      BY <2>2, <3>1, <3>2
    <3> QED
      BY <1>1, <3>3
  <2>6. (k + 1) + 2 * (r - l) - (IF C(other[l]) <= 0 THEN 1 ELSE 0) <= 2 * (end - start - 1)
    <3>1. k + 2 * (r - l) - 0 <= 2 * (end - start - 1)
      BY <1>1, <1>4, <1>8
    <3>2. (k + 1) + 2 * (r - l) - 1 <= 2 * (end - start - 1)
      BY <1>4, <3>1
    <3>3. C(other[l]) <= 0
      <4>1. C(q[r]) \in Int /\ other[l] = q[r]
        BY <1>3, <1>4, <2>2
      <4> DEFINE c == C(q[r])
      <4>2. c \in Int /\ ~(c >= 0)
        BY <1>8, <4>1
      <4> HIDE DEF c
      <4>3. c <= 0
        BY <4>2
      <4> QED
        BY <4>1, <4>3 DEF c
    <3> QED
      BY <3>2, <3>3
  <2>7. after.order = other /\ after.l = l /\ after.r = r /\ after = [order |-> after.order, l |-> after.l, r |-> after.r]
    BY <2>1
  <2> QED
    BY <1>1, <2>3, <2>4, <2>5, <2>6, <2>7 DEF Partitioning, C
<1> QED
  BY <1>4, <1>5, <1>6, <1>7, <1>8

\* The turns of the loop: H[k] is what k of them make.
Turning(rows, orderBy, order, start, end, turns, H) ==
    /\ H[0] = [order |-> order, l |-> start + 1, r |-> end]
    /\ \A k \in 1..turns : H[k] = Turn(rows, orderBy, start, H[k - 1])

\* What the loop makes is what its turns make.
Partitioned(rows, orderBy, order, start, end) ==
    \E H : /\ Turning(rows, orderBy, order, start, end, 2 * (end - start), H)
           /\ Partition(rows, orderBy, order, start, end) = H[2 * (end - start)]

LEMMA PartitionTurns ==
  ASSUME NEW rows, NEW orderBy, NEW order, NEW start \in Nat, NEW end \in Nat, start < end
  PROVE  Partitioned(rows, orderBy, order, start, end)
<1> DEFINE K == 2 * (end - start)
           first == [order |-> order, l |-> start + 1, r |-> end]
           Value(F, m) == IF m = 0 THEN first ELSE Turn(rows, orderBy, start, F[m - 1])
           Upto(k) == \E F : F = [m \in 0..k |-> Value(F, m)]
           known == {k \in Nat : Upto(k)}
           C == CHOOSE F : F = [m \in 0..K |-> Value(F, m)]
<1>1. Partition(rows, orderBy, order, start, end) = C[K]
  BY DEF Partition
<1>2. K \in Nat
  OBVIOUS
<1> HIDE DEF K, first
<1>3. 0 \in known
  <2> DEFINE F == [m \in 0..0 |-> first]
  <2>1. \A m \in 0..0 : F[m] = Value(F, m)
    OBVIOUS
  <2>2. F = [m \in 0..0 |-> Value(F, m)]
    BY <2>1
  <2> QED
    BY <2>2
<1>4. ASSUME NEW k \in 0..(K - 1), k \in known PROVE k + 1 \in known
  <2>1. PICK F : F = [m \in 0..k |-> Value(F, m)]
    BY <1>4
  <2> DEFINE G == [m \in 0..(k + 1) |-> IF m <= k THEN F[m] ELSE Turn(rows, orderBy, start, F[k])]
  <2>2. k \in Nat /\ k + 1 \in Nat
    BY <1>2
  <2>3. ASSUME NEW m \in 0..(k + 1) PROVE G[m] = Value(G, m)
    <3>1. CASE m = 0
      <4>1. G[0] = F[0] /\ F[0] = first
        BY <2>1, <2>2
      <4> QED
        BY <3>1, <4>1
    <3>2. CASE m # 0 /\ m <= k
      <4>1. m \in 0..k /\ m - 1 \in 0..(k + 1) /\ m - 1 <= k
        BY <2>2, <3>2
      <4>2. G[m] = F[m] /\ G[m - 1] = F[m - 1]
        BY <3>2, <4>1
      <4>3. F[m] = Turn(rows, orderBy, start, F[m - 1])
        BY <2>1, <3>2, <4>1
      <4> QED
        BY <3>2, <4>2, <4>3
    <3>3. CASE m # 0 /\ ~(m <= k)
      <4>1. m = k + 1 /\ m - 1 = k /\ k \in 0..(k + 1) /\ k <= k
        BY <2>2, <3>3
      <4>2. G[m] = Turn(rows, orderBy, start, F[k]) /\ G[k] = F[k]
        BY <3>3, <4>1
      <4> QED
        BY <3>3, <4>1, <4>2
    <3> QED
      BY <3>1, <3>2, <3>3
  <2>4. G = [m \in 0..(k + 1) |-> Value(G, m)]
    BY <2>3
  <2> QED
    BY <2>2, <2>4
<1> HIDE DEF known
<1>5. K \in known
  <2>1. \A k \in 0..K : k \in known
    BY <1>2, <1>3, <1>4, Induction
  <2> QED
    BY <1>2, <2>1
<1>6. C = [m \in 0..K |-> Value(C, m)]
  BY <1>5 DEF known
<1> HIDE DEF C
<1>7. C[0] = first
  BY <1>2, <1>6
<1>8. ASSUME NEW k \in 1..K PROVE C[k] = Turn(rows, orderBy, start, C[k - 1])
  <2>1. k \in 0..K /\ k # 0
    BY <1>2
  <2> QED
    BY <1>6, <2>1
<1> QED
  BY <1>1, <1>7, <1>8 DEF Partitioned, Turning, K, first

\* At the end of the loop l and r have met.
LEMMA PartitionDone ==
  ASSUME NEW n \in Nat, NEW rows, NEW orderBy, Orders(rows, orderBy, n), NEW order \in [1..n -> 1..n],
         NEW start \in 1..n, NEW end \in 1..n, start < end
  PROVE  LET p == Partition(rows, orderBy, order, start, end)
         IN  /\ Within(order, p.order, start, end, n) /\ p.order[start] = order[start]
             /\ p.l \in (start + 1)..end
             /\ \A i \in start..(p.l - 1) : Compare(rows, orderBy, p.order[i], order[start]) <= 0
             /\ \A i \in (p.l + 1)..end : Compare(rows, orderBy, p.order[i], order[start]) >= 0
<1> DEFINE K == 2 * (end - start)
           p == Partition(rows, orderBy, order, start, end)
<1>1. PICK H : Turning(rows, orderBy, order, start, end, K, H) /\ p = H[K]
  <2>1. start \in Nat /\ end \in Nat
    OBVIOUS
  <2>2. Partitioned(rows, orderBy, order, start, end)
    BY <2>1, PartitionTurns
  <2> QED
    BY <2>2 DEF Partitioned
<1> DEFINE good == {k \in Nat : Partitioning(rows, orderBy, n, order, start, end, k, H[k])}
<1>2. K \in Nat
  OBVIOUS
<1> HIDE DEF p
<1>3. 0 \in good
  <2> DEFINE st == [order |-> order, l |-> start + 1, r |-> end]
             C(x) == Compare(rows, orderBy, x, order[start])
  <2>1. H[0] = st
    BY <1>1 DEF Turning
  <2>2. Within(order, order, start, end, n)
    BY WithinSame
  <2>3. ASSUME NEW x \in 1..n PROVE C(x) \in Int
    BY DEF Orders
  <2>4. C(order[start]) <= 0
    <3>1. C(order[start]) \in Int /\ (C(order[start]) >= 0 => C(order[start]) <= 0)
      BY DEF Orders
    <3> DEFINE c == C(order[start])
    <3> HIDE DEF c
    <3>2. c \in Int /\ (c >= 0 => c <= 0)
      BY <3>1 DEF c
    <3>3. c <= 0
      BY <3>2
    <3> QED
      BY <3>3 DEF c
  <2> HIDE DEF C
  <2>5. \A i \in start..((start + 1) - 1) : C(order[i]) <= 0
    BY <2>4
  <2>6. 0 + 2 * (end - (start + 1)) - (IF C(order[start + 1]) <= 0 THEN 1 ELSE 0) <= 2 * (end - start - 1)
    OBVIOUS
  <2>7. start + 1 \in (start + 1)..end /\ end \in (start + 1)..end /\ start + 1 <= end
    OBVIOUS
  <2>8. (end + 1)..end = {}
    OBVIOUS
  <2>9. st.order = order /\ st.l = start + 1 /\ st.r = end /\ st = [order |-> st.order, l |-> st.l, r |-> st.r]
    OBVIOUS
  <2> HIDE DEF st
  <2>10. Partitioning(rows, orderBy, n, order, start, end, 0, st)
    BY <2>2, <2>5, <2>6, <2>7, <2>8, <2>9 DEF Partitioning, C
  <2> QED
    BY <2>1, <2>10
<1>4. ASSUME NEW k \in 0..(K - 1), k \in good PROVE k + 1 \in good
  <2>1. k + 1 \in 1..K /\ k + 1 \in Nat /\ k \in Nat /\ (k + 1) - 1 = k
    OBVIOUS
  <2>2. H[k + 1] = Turn(rows, orderBy, start, H[k])
    BY <1>1, <2>1 DEF Turning
  <2>3. Partitioning(rows, orderBy, n, order, start, end, k, H[k])
    BY <1>4
  <2> HIDE DEF good, K
  <2>4. Partitioning(rows, orderBy, n, order, start, end, k + 1, H[k + 1])
    BY <2>1, <2>2, <2>3, TurnKeeps
  <2> QED
    BY <2>1, <2>4 DEF good
<1>5. Partitioning(rows, orderBy, n, order, start, end, K, p)
  <2> HIDE DEF good, K
  <2>1. \A k \in 0..K : k \in good
    BY <1>2, <1>3, <1>4, Induction
  <2>2. K \in good
    BY <1>2, <2>1
  <2> QED
    BY <1>1, <2>2 DEF good
<1>6. p.l = p.r
  <2> DEFINE bit == IF Compare(rows, orderBy, p.order[p.l], order[start]) <= 0 THEN 1 ELSE 0
  <2>1. /\ p.l \in Int /\ p.r \in Int /\ p.l <= p.r
        /\ p.l = p.r \/ K + 2 * (p.r - p.l) - bit <= 2 * (end - start - 1)
    BY <1>5 DEF Partitioning
  <2>2. bit \in {0, 1}
    OBVIOUS
  <2> DEFINE l == p.l
             r == p.r
  <2>3. start \in Int /\ end \in Int /\ K = 2 * (end - start)
    OBVIOUS
  <2>4. l \in Int /\ r \in Int /\ l <= r /\ (l = r \/ K + 2 * (r - l) - bit <= 2 * (end - start - 1))
    BY <2>1
  <2> HIDE DEF bit, K, l, r
  <2>5. l = r
    BY <2>2, <2>3, <2>4
  <2> QED
    BY <2>5 DEF l, r
<1> QED
  BY <1>5, <1>6 DEF Partitioning, p

-----------------------------------------------------------------------------
(* One call of the sort *)

\* The fields from start to end are parted behind the cut.
Split(rows, orderBy, n, order, after, start, cut, end) ==
    /\ Within(order, after, start, end, n)
    /\ cut \in start..(end - 1)
    /\ \A i \in start..cut, j \in (cut + 1)..end : Compare(rows, orderBy, after[i], after[j]) <= 0

LEMMA Parted ==
  ASSUME NEW n \in Nat, NEW rows, NEW orderBy, Orders(rows, orderBy, n), NEW order \in [1..n -> 1..n],
         NEW start \in 1..n, NEW end \in 1..n, start < end
  PROVE  LET p     == Partition(rows, orderBy, order, start, end)
             pivot == IF Compare(rows, orderBy, p.order[p.l], p.order[start]) < 0 THEN p.l ELSE p.l - 1
         IN  Split(rows, orderBy, n, order, Swap(p.order, pivot, start), start, p.l - 1, end)
<1> DEFINE p     == Partition(rows, orderBy, order, start, end)
           C(x)  == Compare(rows, orderBy, x, order[start])
           pivot == IF C(p.order[p.l]) < 0 THEN p.l ELSE p.l - 1
           q     == p.order
           at    == p.l
           after == Swap(q, pivot, start)
           v     == order[start]
<1>1. /\ Within(order, q, start, end, n) /\ q[start] = v
      /\ at \in (start + 1)..end
      /\ \A i \in start..(at - 1) : C(q[i]) <= 0
      /\ \A i \in (at + 1)..end : C(q[i]) >= 0
  BY PartitionDone
<1> SUFFICES Split(rows, orderBy, n, order, after, start, at - 1, end)
  BY <1>1
<1> HIDE DEF p, q, at
<1>2. q \in [1..n -> 1..n] /\ v \in 1..n
  BY <1>1 DEF Within
<1>3. /\ start \in Int /\ end \in Int /\ at \in Int /\ start + 1 <= at /\ at <= end
      /\ \A i \in start..end : i \in 1..n
  BY <1>1
<1>4. pivot = IF C(q[at]) < 0 THEN at ELSE at - 1
  BY DEF q, at
<1> HIDE DEF pivot
<1>5. pivot \in start..end /\ start \in start..end /\ pivot \in {at, at - 1}
  BY <1>3, <1>4
<1>6. Exchanged(q, after, pivot, start, start, end, n)
  BY <1>2, <1>5, Swapped
<1> HIDE DEF after
<1>7. /\ Within(q, after, start, end, n) /\ after[pivot] = v /\ after[start] = q[pivot]
      /\ \A i \in 1..n : i # pivot /\ i # start => after[i] = q[i]
  BY <1>1, <1>6 DEF Exchanged
<1>8. Within(order, after, start, end, n)
  BY <1>1, <1>7, WithinAgain
<1>9. \A x \in 1..n : C(x) \in Int
  BY <1>2 DEF Orders, v
<1>10. C(v) <= 0
  <2> DEFINE c == C(v)
  <2>1. c \in Int /\ (c >= 0 => c <= 0)
    BY <1>2 DEF Orders
  <2> HIDE DEF c
  <2>2. c <= 0
    BY <2>1
  <2> QED
    BY <2>2 DEF c
<1> DEFINE D(x) == Compare(rows, orderBy, v, x)
<1>11. D(v) <= 0 /\ \A x \in 1..n : C(x) >= 0 => D(x) <= 0
  BY <1>2, <1>10 DEF Orders
<1>12. \A x, y \in 1..n : C(x) <= 0 /\ D(y) <= 0 => Compare(rows, orderBy, x, y) <= 0
  BY <1>2 DEF Orders
<1>13. q[at] \in 1..n /\ C(q[at]) \in Int
  <2>1. at \in start..end
    BY <1>3
  <2>2. q[at] \in 1..n
    BY <1>2, <1>3, <2>1
  <2> HIDE DEF C
  <2> QED
    BY <1>9, <2>2
<1> HIDE DEF C, D, v
<1>14. ASSUME NEW i \in start..(at - 1) PROVE C(after[i]) <= 0
  <2>1. i \in start..end /\ i \in 1..n
    BY <1>3
  <2>2. CASE i = pivot
    BY <1>7, <1>10, <2>2
  <2>3. CASE i # pivot /\ i = start
    <3>1. CASE pivot = at /\ C(q[at]) < 0
      <4>1. C(q[at]) <= 0
        BY <1>13, <3>1
      <4> QED
        BY <1>7, <2>3, <3>1, <4>1
    <3>2. CASE pivot = at - 1
      <4>1. pivot \in start..(at - 1)
        BY <1>3, <3>2
      <4> QED
        BY <1>1, <1>7, <2>3, <4>1
    <3> QED
      BY <1>4, <3>1, <3>2
  <2>4. CASE i # pivot /\ i # start
    BY <1>1, <1>7, <2>1, <2>4
  <2> QED
    BY <2>2, <2>3, <2>4
<1>15. ASSUME NEW j \in at..end PROVE D(after[j]) <= 0
  <2>1. j \in start..end /\ j \in 1..n /\ j # start
    BY <1>3
  <2>2. CASE j = pivot
    BY <1>7, <1>11, <2>2
  <2>3. CASE j # pivot
    <3>1. after[j] = q[j] /\ q[j] \in 1..n
      BY <1>2, <1>7, <2>1, <2>3
    <3>2. C(q[j]) >= 0
      <4>1. CASE j = at
        <5>1. ~(C(q[at]) < 0)
          BY <1>4, <2>3, <4>1
        <5> DEFINE c == C(q[at])
        <5>2. c \in Int /\ ~(c < 0)
          BY <1>13, <5>1
        <5> HIDE DEF c
        <5>3. c >= 0
          BY <5>2
        <5> QED
          BY <4>1, <5>3 DEF c
      <4>2. CASE j # at
        <5>1. j \in (at + 1)..end
          BY <1>3, <4>2
        <5> QED
          BY <1>1, <5>1
      <4> QED
        BY <4>1, <4>2
    <3> QED
      BY <1>11, <3>1, <3>2
  <2> QED
    BY <2>2, <2>3
<1>16. ASSUME NEW i \in start..(at - 1), NEW j \in at..end
       PROVE  Compare(rows, orderBy, after[i], after[j]) <= 0
  <2>1. i \in 1..n /\ j \in 1..n /\ after[i] \in 1..n /\ after[j] \in 1..n
    <3>1. i \in start..end /\ j \in start..end
      BY <1>3
    <3> QED
      BY <1>3, <1>7, <3>1 DEF Within
  <2> QED
    BY <1>12, <1>14, <1>15, <2>1
<1>17. at - 1 \in start..(end - 1) /\ (at - 1) + 1 = at
  BY <1>3
<1> QED
  BY <1>8, <1>16, <1>17 DEF Split

\* Two fields are in order unless both are in a part to come.
Apart(rows, orderBy, n, order, from, ends) ==
    \A i, j \in 1..n : i < j =>
        \/ Compare(rows, orderBy, order[i], order[j]) <= 0
        \/ i >= from /\ \A e \in ends : ~(i <= e /\ e < j)

\* After k calls: what is before the first place to come is where it belongs, and
\* so are two fields if a part ends between them. Each call ends a part or is
\* the last about one.
Sorting(rows, orderBy, n, order, k, st) ==
    /\ st = [order |-> st.order, from |-> st.from, ends |-> st.ends]
    /\ Within(order, st.order, 1, n, n)
    /\ st.from \in 1..(n + 1) /\ st.ends \in SUBSET (1..n) /\ n \in st.ends
    /\ Apart(rows, orderBy, n, st.order, st.from, st.ends)
    /\ st.from > n \/ k <= st.from + Cardinality(st.ends) - 2

LEMMA PartParts ==
  ASSUME NEW st, st = [order |-> st.order, from |-> st.from, ends |-> st.ends], NEW f
  PROVE  [st EXCEPT !.from = f] = [order |-> st.order, from |-> f, ends |-> st.ends]
  OBVIOUS

\* What a call makes: nothing, a step to the next part, or two parts of one.
Called(rows, orderBy, n, st, after, end) ==
    /\ end \in st.ends /\ end >= st.from
    /\ \A e \in st.ends : e >= st.from => end <= e
    /\ \/ end = st.from /\ after = [order |-> st.order, from |-> st.from + 1, ends |-> st.ends]
       \/ /\ st.from < end
          /\ \E q, cut : /\ Split(rows, orderBy, n, st.order, q, st.from, cut, end)
                         /\ after = [order |-> q, from |-> st.from, ends |-> st.ends \cup {cut}]

LEMMA CallMakes ==
  ASSUME NEW n \in Nat \ {0}, NEW rows, NEW orderBy, Orders(rows, orderBy, n),
         NEW order, NEW k, NEW st, Sorting(rows, orderBy, n, order, k, st), st.from <= n
  PROVE  \E end : Called(rows, orderBy, n, st, SortPart(rows, orderBy, st), end)
<1> DEFINE start == st.from
           E     == {e \in st.ends : e >= start}
           end   == Min(E)
           p     == Partition(rows, orderBy, st.order, start, end)
           pivot == IF Compare(rows, orderBy, p.order[p.l], p.order[start]) < 0 THEN p.l ELSE p.l - 1
           q     == Swap(p.order, pivot, start)
           after == SortPart(rows, orderBy, st)
<1>1. /\ st = [order |-> st.order, from |-> start, ends |-> st.ends]
      /\ st.order \in [1..n -> 1..n] /\ start \in 1..n
      /\ st.ends \in SUBSET (1..n) /\ n \in st.ends
  <2>1. /\ st = [order |-> st.order, from |-> start, ends |-> st.ends]
        /\ Within(order, st.order, 1, n, n)
        /\ start \in 1..(n + 1) /\ st.ends \in SUBSET (1..n) /\ n \in st.ends
    BY DEF Sorting
  <2>2. st.order \in [1..n -> 1..n]
    BY <2>1 DEF Within
  <2>3. start \in 1..n
    BY <2>1
  <2> QED
    BY <2>1, <2>2, <2>3
<1>2. Len(st.order) = n
  BY <1>1
<1>3. after = IF start > Len(st.order) THEN st
              ELSE IF end <= start THEN [st EXCEPT !.from = end + 1]
              ELSE [order |-> q, from |-> start, ends |-> st.ends \cup {p.l - 1}]
  BY DEF SortPart
<1>4. E \in SUBSET Nat /\ E # {}
  BY <1>1
<1>5. end \in E /\ \A e \in E : end <= e
  <2> HIDE DEF E
  <2> QED
    BY <1>4, MinOf
<1> HIDE DEF end
<1>6. end \in st.ends /\ end >= start /\ (\A e \in st.ends : e >= start => end <= e) /\ end \in 1..n
  BY <1>1, <1>5
<1> HIDE DEF E, after
<1>7. ~(start > Len(st.order))
  BY <1>1, <1>2
<1>8. CASE end <= start
  <2>1. end = start
    BY <1>1, <1>6, <1>8
  <2>2. after = [order |-> st.order, from |-> start + 1, ends |-> st.ends]
    BY <1>1, <1>3, <1>7, <1>8, <2>1, PartParts
  <2> HIDE DEF start
  <2>3. Called(rows, orderBy, n, st, after, end)
    BY <1>6, <2>1, <2>2 DEF Called, start
  <2> QED
    BY <2>3 DEF after
<1>9. CASE ~(end <= start)
  <2>1. start < end
    BY <1>1, <1>6, <1>9
  <2>2. Split(rows, orderBy, n, st.order, q, start, p.l - 1, end)
    <3> DEFINE o == st.order
    <3>1. o \in [1..n -> 1..n] /\ start \in 1..n /\ end \in 1..n
      BY <1>1, <1>6
    <3> HIDE DEF start, o
    <3> QED
      BY <2>1, <3>1, Parted DEF o
  <2> HIDE DEF q, p
  <2> DEFINE cut == p.l - 1
  <2>3. after = [order |-> q, from |-> start, ends |-> st.ends \cup {cut}]
    BY <1>3, <1>7, <1>9
  <2>4. Split(rows, orderBy, n, st.order, q, start, cut, end)
    BY <2>2
  <2> HIDE DEF cut
  <2>5. Called(rows, orderBy, n, st, after, end)
    BY <1>6, <2>1, <2>3, <2>4 DEF Called
  <2> QED
    BY <2>5 DEF after
<1> QED
  BY <1>8, <1>9

\* Fields of a part that are moved within it stay right towards the others.
LEMMA SplitKeeps ==
  ASSUME NEW n \in Nat \ {0}, NEW rows, NEW orderBy, NEW order \in [1..n -> 1..n],
         NEW from \in 1..n, NEW ends \in SUBSET (1..n), NEW end \in ends, from < end,
         \A e \in ends : e >= from => end <= e, Apart(rows, orderBy, n, order, from, ends),
         NEW q, NEW cut, Split(rows, orderBy, n, order, q, from, cut, end)
  PROVE  Apart(rows, orderBy, n, q, from, ends \cup {cut})
<1> SUFFICES ASSUME NEW i \in 1..n, NEW j \in 1..n, i < j
             PROVE  \/ Compare(rows, orderBy, q[i], q[j]) <= 0
                    \/ i >= from /\ \A e \in ends \cup {cut} : ~(i <= e /\ e < j)
  BY DEF Apart
<1> DEFINE Right(a, b) == Compare(rows, orderBy, a, b) <= 0
           Part == from..end
<1>1. \A a, b \in 1..n : a < b =>
          Right(order[a], order[b]) \/ (a >= from /\ \A e \in ends : ~(a <= e /\ e < b))
  BY DEF Apart
<1>2. /\ q \in [1..n -> 1..n]
      /\ \A a \in 1..n : a \notin Part => q[a] = order[a]
      /\ \A a \in Part : \E b \in Part : q[a] = order[b]
      /\ cut \in from..(end - 1)
      /\ \A a \in from..cut, b \in (cut + 1)..end : Right(q[a], q[b])
  BY DEF Split, Within
<1>3. end \in 1..n /\ from \in Int /\ end \in Int /\ cut \in Int /\ i \in Int /\ j \in Int /\ cut < end /\ from <= cut
  BY <1>2
<1> HIDE DEF Right
<1> SUFFICES Right(q[i], q[j]) \/ (i >= from /\ \A e \in ends \cup {cut} : ~(i <= e /\ e < j))
  BY DEF Right
<1>4. CASE i \in Part /\ j \in Part
  <2>1. CASE i <= cut /\ cut < j
    <3>1. i \in from..cut /\ j \in (cut + 1)..end
      BY <1>3, <1>4, <2>1
    <3> QED
      BY <1>2, <3>1
  <2>2. CASE ~(i <= cut /\ cut < j)
    <3>1. ASSUME NEW e \in ends, i <= e, e < j PROVE FALSE
      <4>1. e \in Int
        <5>1. e \in 1..n
          OBVIOUS
        <5> QED
          BY <5>1
      <4>3. from <= i /\ j <= end
        BY <1>3, <1>4
      <4>4. i <= e /\ e < j
        BY <3>1
      <4>5. e >= from
        BY <1>3, <4>1, <4>3, <4>4
      <4>6. e < end
        BY <1>3, <4>1, <4>3, <4>4
      <4>2. ~(end <= e)
        BY <1>3, <4>1, <4>6
      <4> QED
        BY <4>2, <4>5
    <3>2. i >= from
      BY <1>3, <1>4
    <3> QED
      BY <2>2, <3>1, <3>2
  <2> QED
    BY <2>1, <2>2
<1>5. CASE i \in Part /\ j \notin Part
  <2>1. j > end
    BY <1>3, <1>5
  <2>2. PICK b \in Part : q[i] = order[b]
    BY <1>2, <1>5
  <2>3. b \in 1..n /\ b < j /\ b <= end /\ end < j
    <3>1. b \in Int /\ from <= b /\ b <= end
      BY <1>3
    <3>2. from >= 1 /\ end <= n
      BY <1>3
    <3> HIDE DEF Part
    <3>3. b \in 1..n
      BY <1>3, <3>1, <3>2
    <3>4. b < j
      BY <1>3, <2>1, <3>1
    <3> QED
      BY <2>1, <3>1, <3>3, <3>4
  <2>4. Right(order[b], order[j])
    BY <1>1, <2>3
  <2> QED
    BY <1>2, <1>5, <2>2, <2>4
<1>6. CASE i \notin Part /\ j \in Part
  <2>1. i < from
    BY <1>3, <1>6
  <2>2. PICK b \in Part : q[j] = order[b]
    BY <1>2, <1>6
  <2>3. b \in 1..n /\ i < b
    BY <1>3, <2>1
  <2>4. ~(i >= from)
    BY <1>3, <2>1
  <2>5. Right(order[i], order[b])
    BY <1>1, <2>3, <2>4
  <2> QED
    BY <1>2, <1>6, <2>2, <2>5
<1>7. CASE i \notin Part /\ j \notin Part
  <2>1. q[i] = order[i] /\ q[j] = order[j]
    BY <1>2, <1>7
  <2>2. CASE Right(order[i], order[j])
    BY <2>1, <2>2
  <2>3. CASE i >= from /\ \A e \in ends : ~(i <= e /\ e < j)
    <3>1. ~(i <= cut /\ cut < j)
      BY <1>3, <1>7, <2>3
    <3> QED
      BY <2>3, <3>1
  <2> QED
    BY <1>1, <2>2, <2>3
<1> QED
  BY <1>4, <1>5, <1>6, <1>7

LEMMA CallKeeps ==
  ASSUME NEW n \in Nat \ {0}, NEW rows, NEW orderBy, Orders(rows, orderBy, n),
         NEW order \in [1..n -> 1..n], NEW k \in Nat, NEW st, Sorting(rows, orderBy, n, order, k, st)
  PROVE  Sorting(rows, orderBy, n, order, k + 1, SortPart(rows, orderBy, st))
<1> DEFINE after == SortPart(rows, orderBy, st)
<1>1. /\ st = [order |-> st.order, from |-> st.from, ends |-> st.ends]
      /\ Within(order, st.order, 1, n, n) /\ st.order \in [1..n -> 1..n]
      /\ st.from \in 1..(n + 1) /\ st.ends \in SUBSET (1..n) /\ n \in st.ends
      /\ Apart(rows, orderBy, n, st.order, st.from, st.ends)
      /\ st.from > n \/ k <= st.from + Cardinality(st.ends) - 2
  BY DEF Sorting, Within
<1>2. IsFiniteSet(st.ends) /\ Cardinality(st.ends) \in Nat
  <2>1. IsFiniteSet(1..n)
    BY FS_Interval
  <2>2. IsFiniteSet(st.ends)
    BY <1>1, <2>1, FS_Subset
  <2> QED
    BY <2>2, FS_CardinalityType
<1>3. CASE st.from > n
  <2>1. Len(st.order) = n
    BY <1>1
  <2>2. after = st
    BY <1>3, <2>1 DEF SortPart
  <2> HIDE DEF after
  <2>3. Sorting(rows, orderBy, n, order, k + 1, after)
    BY <1>1, <1>3, <2>2 DEF Sorting
  <2> QED
    BY <2>3 DEF after
<1>4. CASE st.from <= n
  <2>1. PICK end : Called(rows, orderBy, n, st, after, end)
    BY <1>4, CallMakes
  <2> DEFINE start == st.from
             size == Cardinality(st.ends)
  <2>2. /\ end \in st.ends /\ end >= start /\ end \in 1..n /\ start \in 1..n
        /\ \A e \in st.ends : e >= start => end <= e
    BY <1>1, <1>4, <2>1 DEF Called
  <2>3. k <= start + size - 2 /\ start \in Int /\ size \in Int
    BY <1>1, <1>2, <1>4
  <2> HIDE DEF after, size
  <2>4. CASE end = start /\ after = [order |-> st.order, from |-> start + 1, ends |-> st.ends]
    <3>1. /\ after.order = st.order /\ after.from = start + 1 /\ after.ends = st.ends
          /\ after = [order |-> after.order, from |-> after.from, ends |-> after.ends]
      BY <2>4
    <3>2. Apart(rows, orderBy, n, st.order, start + 1, st.ends)
      <4> SUFFICES ASSUME NEW i \in 1..n, NEW j \in 1..n, i < j
                   PROVE  \/ Compare(rows, orderBy, st.order[i], st.order[j]) <= 0
                          \/ i >= start + 1 /\ \A e \in st.ends : ~(i <= e /\ e < j)
        BY DEF Apart
      <4>1. CASE Compare(rows, orderBy, st.order[i], st.order[j]) <= 0
        BY <4>1
      <4>2. CASE i >= start /\ \A e \in st.ends : ~(i <= e /\ e < j)
        <5>1. i # start
          BY <2>2, <2>4, <4>2
        <5>2. i >= start + 1
          BY <2>2, <4>2, <5>1
        <5> QED
          BY <4>2, <5>2
      <4> QED
        BY <1>1, <4>1, <4>2 DEF Apart
    <3>3. k + 1 <= (start + 1) + size - 2
      <4> HIDE DEF start
      <4> QED
        BY <2>3
    <3>4. start + 1 \in 1..(n + 1)
      <4>1. start \in 1..n
        BY <2>2
      <4> HIDE DEF start
      <4> QED
        BY <4>1
    <3> HIDE DEF start
    <3>5. Sorting(rows, orderBy, n, order, k + 1, after)
      BY <1>1, <3>1, <3>2, <3>3, <3>4 DEF Sorting, size
    <3> QED
      BY <3>5 DEF after
  <2>5. ASSUME start < end, NEW q, NEW cut, Split(rows, orderBy, n, st.order, q, start, cut, end),
               after = [order |-> q, from |-> start, ends |-> st.ends \cup {cut}]
        PROVE  Sorting(rows, orderBy, n, order, k + 1, after)
    <3> DEFINE more == st.ends \cup {cut}
    <3>1. /\ after.order = q /\ after.from = start /\ after.ends = more
          /\ after = [order |-> after.order, from |-> after.from, ends |-> after.ends]
      BY <2>5
    <3>2. cut \in 1..n /\ cut \notin st.ends /\ Within(st.order, q, start, end, n)
      <4>1. cut \in start..(end - 1) /\ Within(st.order, q, start, end, n)
        BY <2>5 DEF Split
      <4>2. cut \in 1..n /\ cut >= start /\ ~(end <= cut)
        <5>1. cut \in Int /\ start <= cut /\ cut <= end - 1
          BY <2>2, <4>1
        <5>2. 1 <= start /\ end <= n /\ start \in Int /\ end \in Int
          BY <2>2
        <5> HIDE DEF start
        <5> QED
          BY <5>1, <5>2
      <4> QED
        BY <2>2, <4>1, <4>2
    <3>3. Cardinality(more) = size + 1
      BY <1>2, <3>2, FS_AddElement DEF size
    <3>4. k + 1 <= start + Cardinality(more) - 2
      <4> DEFINE total == Cardinality(more)
      <4>1. total = size + 1
        BY <3>3
      <4> HIDE DEF total, start, more
      <4>2. k + 1 <= start + total - 2
        BY <2>3, <4>1
      <4> QED
        BY <4>2 DEF total, more
    <3>5. Within(order, q, 1, n, n)
      <4>1. Within(st.order, q, 1, n, n)
        <5>1. q \in [1..n -> 1..n]
          BY <3>2 DEF Within
        <5>2. \A i \in start..end : i \in 1..n
          BY <2>2
        <5>3. ASSUME NEW i \in 1..n PROVE \E j \in 1..n : q[i] = st.order[j]
          BY <3>2, <5>2 DEF Within
        <5>4. ASSUME NEW i \in 1..n PROVE \E j \in 1..n : st.order[i] = q[j]
          BY <3>2, <5>2 DEF Within
        <5> QED
          BY <5>1, <5>3, <5>4 DEF Within
      <4>2. 1 \in 1..n /\ n \in 1..n
        OBVIOUS
      <4> QED
        BY <1>1, <4>1, <4>2, WithinAgain
    <3>6. Apart(rows, orderBy, n, q, start, more)
      <4> DEFINE o == st.order
                 ends == st.ends
      <4>1. /\ o \in [1..n -> 1..n] /\ ends \in SUBSET (1..n) /\ end \in ends /\ start \in 1..n /\ start < end
            /\ \A e \in ends : e >= start => end <= e
            /\ Apart(rows, orderBy, n, o, start, ends)
            /\ Split(rows, orderBy, n, o, q, start, cut, end)
        BY <1>1, <2>2, <2>5
      <4> HIDE DEF o, ends, start
      <4> QED
        BY <4>1, SplitKeeps DEF ends
    <3>7. more \in SUBSET (1..n) /\ n \in more
      BY <1>1, <3>2
    <3> HIDE DEF more, start
    <3> QED
      BY <1>1, <3>1, <3>4, <3>5, <3>6, <3>7 DEF Sorting, start
  <2> HIDE DEF start
  <2>6. \/ end = start /\ after = [order |-> st.order, from |-> start + 1, ends |-> st.ends]
        \/ /\ start < end
           /\ \E q, cut : /\ Split(rows, orderBy, n, st.order, q, start, cut, end)
                          /\ after = [order |-> q, from |-> start, ends |-> st.ends \cup {cut}]
    BY <2>1 DEF Called, start
  <2>7. Sorting(rows, orderBy, n, order, k + 1, after)
    BY <2>4, <2>5, <2>6 DEF after
  <2> QED
    BY <2>7 DEF after
<1>5. st.from > n \/ st.from <= n
  BY <1>1
<1> QED
  BY <1>3, <1>4, <1>5

\* The calls of the sort: H[k] is what k of them make.
Calling(rows, orderBy, order, calls, H) ==
    /\ H[0] = [order |-> order, from |-> 1, ends |-> {Len(order)}]
    /\ \A k \in 1..calls : H[k] = SortPart(rows, orderBy, H[k - 1])

Finished(rows, orderBy, order) ==
    \E H : /\ Calling(rows, orderBy, order, 2 * Len(order), H)
           /\ Sorted(rows, orderBy, order) = H[2 * Len(order)].order

LEMMA SortCalls ==
  ASSUME NEW rows, NEW orderBy, NEW order, Len(order) \in Nat
  PROVE  Finished(rows, orderBy, order)
<1> DEFINE K == 2 * Len(order)
           first == [order |-> order, from |-> 1, ends |-> {Len(order)}]
           Value(F, m) == IF m = 0 THEN first ELSE SortPart(rows, orderBy, F[m - 1])
           Upto(k) == \E F : F = [m \in 0..k |-> Value(F, m)]
           known == {k \in Nat : Upto(k)}
           C == CHOOSE F : F = [m \in 0..K |-> Value(F, m)]
<1>1. Sorted(rows, orderBy, order) = C[K].order
  BY DEF Sorted
<1>2. K \in Nat
  OBVIOUS
<1> HIDE DEF K, first
<1>3. 0 \in known
  <2> DEFINE F == [m \in 0..0 |-> first]
  <2>1. \A m \in 0..0 : F[m] = Value(F, m)
    OBVIOUS
  <2>2. F = [m \in 0..0 |-> Value(F, m)]
    BY <2>1
  <2> QED
    BY <2>2
<1>4. ASSUME NEW k \in 0..(K - 1), k \in known PROVE k + 1 \in known
  <2>1. PICK F : F = [m \in 0..k |-> Value(F, m)]
    BY <1>4
  <2> DEFINE G == [m \in 0..(k + 1) |-> IF m <= k THEN F[m] ELSE SortPart(rows, orderBy, F[k])]
  <2>2. k \in Nat /\ k + 1 \in Nat
    BY <1>2
  <2>3. ASSUME NEW m \in 0..(k + 1) PROVE G[m] = Value(G, m)
    <3>1. CASE m = 0
      <4>1. G[0] = F[0] /\ F[0] = first
        BY <2>1, <2>2
      <4> QED
        BY <3>1, <4>1
    <3>2. CASE m # 0 /\ m <= k
      <4>1. m \in 0..k /\ m - 1 \in 0..(k + 1) /\ m - 1 <= k
        BY <2>2, <3>2
      <4>2. G[m] = F[m] /\ G[m - 1] = F[m - 1]
        BY <3>2, <4>1
      <4>3. F[m] = SortPart(rows, orderBy, F[m - 1])
        BY <2>1, <3>2, <4>1
      <4> QED
        BY <3>2, <4>2, <4>3
    <3>3. CASE m # 0 /\ ~(m <= k)
      <4>1. m = k + 1 /\ m - 1 = k /\ k \in 0..(k + 1) /\ k <= k
        BY <2>2, <3>3
      <4>2. G[m] = SortPart(rows, orderBy, F[k]) /\ G[k] = F[k]
        BY <3>3, <4>1
      <4> QED
        BY <3>3, <4>1, <4>2
    <3> QED
      BY <3>1, <3>2, <3>3
  <2>4. G = [m \in 0..(k + 1) |-> Value(G, m)]
    BY <2>3
  <2> QED
    BY <2>2, <2>4
<1> HIDE DEF known
<1>5. K \in known
  <2>1. \A k \in 0..K : k \in known
    BY <1>2, <1>3, <1>4, Induction
  <2> QED
    BY <1>2, <2>1
<1>6. C = [m \in 0..K |-> Value(C, m)]
  BY <1>5 DEF known
<1> HIDE DEF C
<1>7. C[0] = first
  BY <1>2, <1>6
<1>8. ASSUME NEW k \in 1..K PROVE C[k] = SortPart(rows, orderBy, C[k - 1])
  <2>1. k \in 0..K /\ k # 0
    BY <1>2
  <2> QED
    BY <1>6, <2>1
<1> QED
  BY <1>1, <1>7, <1>8 DEF Finished, Calling, K, first

\* grib_fieldset_sort keeps the fields and puts them in order.
InPlace(rows, orderBy, n, order) ==
    \A i, j \in 1..n : i < j => Compare(rows, orderBy, order[i], order[j]) <= 0

LEMMA SortDone ==
  ASSUME NEW n \in Nat, NEW rows, NEW orderBy, Orders(rows, orderBy, n), NEW order \in [1..n -> 1..n]
  PROVE  /\ Within(order, Sorted(rows, orderBy, order), 1, n, n)
         /\ InPlace(rows, orderBy, n, Sorted(rows, orderBy, order))
<1> DEFINE K == 2 * n
           sorted == Sorted(rows, orderBy, order)
<1>1. Len(order) = n
  OBVIOUS
<1>2. PICK H : Calling(rows, orderBy, order, K, H) /\ sorted = H[K].order
  <2>1. Finished(rows, orderBy, order)
    BY <1>1, SortCalls
  <2> QED
    BY <1>1, <2>1 DEF Finished
<1>3. H[0] = [order |-> order, from |-> 1, ends |-> {n}]
  BY <1>1, <1>2 DEF Calling
<1>4. Within(order, order, 1, n, n)
  BY WithinSame
<1> HIDE DEF sorted
<1>5. CASE n = 0
  <2>1. sorted = order
    BY <1>2, <1>3, <1>5
  <2> QED
    BY <1>4, <1>5, <2>1 DEF InPlace, sorted
<1>6. CASE n # 0
  <2> DEFINE good == {k \in Nat : Sorting(rows, orderBy, n, order, k, H[k])}
  <2>1. n \in Nat \ {0} /\ K \in Nat
    BY <1>6
  <2>2. 0 \in good
    <3> DEFINE st == [order |-> order, from |-> 1, ends |-> {n}]
    <3>1. /\ st.order = order /\ st.from = 1 /\ st.ends = {n}
          /\ st = [order |-> st.order, from |-> st.from, ends |-> st.ends]
      OBVIOUS
    <3>2. Cardinality({n}) = 1
      BY FS_Singleton
    <3>3. Apart(rows, orderBy, n, order, 1, {n})
      <4> SUFFICES ASSUME NEW i \in 1..n, NEW j \in 1..n, i < j
                   PROVE  i >= 1 /\ \A e \in {n} : ~(i <= e /\ e < j)
        BY DEF Apart
      <4> QED
        OBVIOUS
    <3>4. 1 \in 1..(n + 1) /\ {n} \in SUBSET (1..n) /\ n \in {n} /\ 0 <= 1 + 1 - 2
      BY <2>1
    <3> HIDE DEF st
    <3>5. Sorting(rows, orderBy, n, order, 0, st)
      BY <1>4, <3>1, <3>2, <3>3, <3>4 DEF Sorting
    <3> QED
      BY <1>3, <3>5 DEF st
  <2>3. ASSUME NEW k \in 0..(K - 1), k \in good PROVE k + 1 \in good
    <3>1. k + 1 \in 1..K /\ k + 1 \in Nat /\ k \in Nat /\ (k + 1) - 1 = k
      BY <2>1
    <3>2. H[k + 1] = SortPart(rows, orderBy, H[k])
      BY <1>2, <3>1 DEF Calling
    <3>3. Sorting(rows, orderBy, n, order, k, H[k])
      BY <2>3
    <3> HIDE DEF good, K
    <3>4. Sorting(rows, orderBy, n, order, k + 1, H[k + 1])
      BY <2>1, <3>1, <3>2, <3>3, CallKeeps
    <3> QED
      BY <3>1, <3>4 DEF good
  <2>4. Sorting(rows, orderBy, n, order, K, H[K])
    <3> HIDE DEF good, K
    <3>1. \A k \in 0..K : k \in good
      BY <2>1, <2>2, <2>3, Induction
    <3>2. K \in good
      BY <2>1, <3>1
    <3> QED
      BY <3>2 DEF good
  <2> DEFINE st == H[K]
             from == st.from
             size == Cardinality(st.ends)
  <2>5. /\ Within(order, st.order, 1, n, n) /\ from \in 1..(n + 1) /\ st.ends \in SUBSET (1..n)
        /\ Apart(rows, orderBy, n, st.order, from, st.ends)
        /\ from > n \/ K <= from + size - 2
    BY <2>4 DEF Sorting
  <2>6. size \in Nat /\ size <= n
    <3>1. IsFiniteSet(1..n) /\ Cardinality(1..n) = n
      BY <2>1, FS_Interval
    <3>2. IsFiniteSet(st.ends) /\ size <= Cardinality(1..n)
      BY <2>5, <3>1, FS_Subset
    <3> QED
      BY <3>1, <3>2, FS_CardinalityType
  <2>7. from > n
    <3>1. from \in Int /\ from <= n + 1 /\ n \in Int /\ n >= 1 /\ K = 2 * n
      BY <2>1, <2>5
    <3> HIDE DEF from, size, K
    <3> QED
      BY <2>5, <2>6, <3>1
  <2>8. InPlace(rows, orderBy, n, st.order)
    <3> SUFFICES ASSUME NEW i \in 1..n, NEW j \in 1..n, i < j
                 PROVE  Compare(rows, orderBy, st.order[i], st.order[j]) <= 0
      BY DEF InPlace
    <3>1. ~(i >= from)
      <4>1. from \in Int
        BY <2>5
      <4> HIDE DEF from
      <4> QED
        BY <2>7, <4>1
    <3> HIDE DEF st, from
    <3> QED
      BY <2>5, <3>1 DEF Apart
  <2> QED
    BY <1>2, <2>5, <2>8 DEF sorted
<1> QED
  BY <1>5, <1>6

-----------------------------------------------------------------------------
(* The invariant *)

Attributes == {"cols", "rows", "fields", "order", "current", "orderBy"}

Shaped(set) ==
    /\ set = [x \in Attributes |-> set[x]]
    /\ set.fields \in Seq(Refs \cup {Null})
    /\ Described(set)
    /\ set.current \in -1..(Len(set.fields) + 1)

\* All that can be read of the files, if no one had them open.
Whole(set, files) == files # Null => Shown(set) = KeptOf(set.cols, References(files))

Count(set) == IF set.current > Len(set.fields) THEN Len(set.fields) ELSE set.current

Returned(set, handles) == handles = [i \in 1..Count(set) |-> set.fields[set.order[i]]]

Right(set, handles, files) == Shaped(set) /\ Whole(set, files) /\ Returned(set, handles)

SetsInv ==
    /\ position \in [File -> Nat]
    /\ sets = [s \in Set |-> sets[s]]
    /\ got = [s \in Set |-> got[s]]
    /\ fresh = [s \in Set |-> fresh[s]]
    /\ \A s \in Set : sets[s] # Null => Right(sets[s], got[s], fresh[s])

\* The offset of a reference is a number, and a file read up to the next
\* reference stands at a number.
LEMMA ReferenceOffset ==
  ASSUME NEW ref \in Refs
  PROVE  ref[1] \in File /\ ref[2] \in Nat
<1>1. ref[1] \in File /\ ref[2] \in DOMAIN Contents[ref[1]]
  BY ReferenceParts
<1> DEFINE f == ref[1]
           n == ref[2]
<1>2. f \in File /\ n \in DOMAIN Contents[f]
  BY <1>1
<1> HIDE DEF f, n
<1>3. n \in 1..Len(Contents[f]) /\ Len(Contents[f]) \in Nat
  BY <1>2, FieldsetAssumption, SMTT(30)
<1>4. f \in File /\ n \in Nat
  BY <1>2, <1>3
<1> QED
  BY <1>4 DEF f, n

LEMMA Advanced ==
  ASSUME NEW p \in [File -> Nat], NEW f \in File, NEW n \in Nat
  PROVE  [p EXCEPT ![f] = n + 1] \in [File -> Nat]
  OBVIOUS

LEMMA Start == ASSUME Init PROVE SetsInv
  BY DEF Init, SetsInv, Closed

\* A new fieldset.
LEMMA NewFilled ==
  ASSUME NEW cols
  PROVE  NewSet(cols) \in Fillings(cols) /\ Shown(NewSet(cols)) = {}
<1>1. /\ NewSet(cols).fields = <<>> /\ NewSet(cols).rows = <<>> /\ NewSet(cols).cols = cols
      /\ NewSet(cols) \in Filling(cols)
  BY DEF NewSet, Filling
<1>2. Len(<<>>) = 0 /\ ToSet(<<>>) = {}
  BY DEF ToSet
<1>3. NewSet(cols).order = [i \in 1..0 |-> i]
  BY DEF NewSet
<1> QED
  BY <1>1, <1>2, <1>3 DEF Fillings, Described, Listed, Shown

\* A row is what the columns got for a message, with some string in each gap.
Copy(row, cols, m) ==
    \A c \in ToSet(cols) :
        IF RowOf(cols, m)[c] \in Missing THEN row[c] \in Strings ELSE row[c] = RowOf(cols, m)[c]

Copies(set) ==
    /\ Len(set.rows) \in Nat
    /\ \A i \in 1..Len(set.rows) :
           \E ref \in Undamaged : Copy(set.rows[i], set.cols, MessageOf(ref))

\* The buffers that no string was read into (grib_fieldset_column_copy_from_handle)
\* fill the gaps and change nothing else.
LEMMA GapsFilled ==
  ASSUME NEW cols, NEW set \in Fillings(cols), NEW sval \in [Gaps(set) -> Strings],
         NEW after, after = Filled(set, sval)
  PROVE  /\ after = [x \in Attributes |-> after[x]]
         /\ after.cols = cols /\ after.fields = set.fields /\ after.order = set.order
         /\ after.current \in {-1, 0} /\ after.orderBy = <<>>
         /\ Described(after) /\ Copies(after)
<1> DEFINE n == Len(set.rows)
           at(i, c) == IF <<i, c>> \in Gaps(set) THEN sval[<<i, c>>] ELSE set.rows[i][c]
           rows == [i \in 1..n |-> [c \in ToSet(cols) |-> at(i, c)]]
<1>1. /\ set \in Filling(cols) /\ Described(set)
      /\ set.rows \in Seq(Rows(cols)) /\ set.cols = cols /\ DOMAIN set = Attributes
      /\ set.current \in {-1, 0} /\ set.orderBy = <<>>
  BY DEF Fillings, Filling, Attributes
<1>2. n \in Nat /\ DOMAIN set.rows = 1..n
  BY <1>1
<1>3. after = [set EXCEPT !.rows = rows]
  BY <1>1, <1>2 DEF Filled
<1>4. Len(rows) = n
  BY <1>2
<1>5. \A i \in 1..n, c \in ToSet(cols) : rows[i][c] = at(i, c)
  OBVIOUS
<1>6. \A i \in 1..n, c \in ToSet(cols) : <<i, c>> \in Gaps(set) <=> set.rows[i][c] \in Missing
  BY <1>1, <1>2 DEF Gaps
<1> HIDE DEF rows
<1>7. /\ after = [x \in Attributes |-> after[x]]
      /\ after.cols = cols /\ after.fields = set.fields /\ after.order = set.order
      /\ after.current \in {-1, 0} /\ after.orderBy = <<>> /\ after.rows = rows
  BY <1>1, <1>3 DEF Attributes
<1>8. ASSUME NEW i \in 1..n
      PROVE  \E ref \in Undamaged : Copy(rows[i], cols, MessageOf(ref))
  <2>1. set.rows[i] \in Rows(cols)
    BY <1>1
  <2>2. PICK ref \in Undamaged : set.rows[i] = RowOf(cols, MessageOf(ref))
    BY <2>1 DEF Rows
  <2>3. ASSUME NEW c \in ToSet(cols)
        PROVE  IF set.rows[i][c] \in Missing THEN rows[i][c] \in Strings
               ELSE rows[i][c] = set.rows[i][c]
    <3> DEFINE g == <<i, c>>
    <3>1. g \in Gaps(set) <=> set.rows[i][c] \in Missing
      BY <1>6
    <3>2. rows[i][c] = IF g \in Gaps(set) THEN sval[g] ELSE set.rows[i][c]
      BY <1>5
    <3> HIDE DEF g, n, at
    <3>3. g \in Gaps(set) => sval[g] \in Strings
      OBVIOUS
    <3> QED
      BY <3>1, <3>2, <3>3
  <2> QED
    BY <2>2, <2>3 DEF Copy
<1>9. ASSUME NEW i \in 1..n, NEW m, Describes(set.rows[i], cols, m)
      PROVE  Describes(rows[i], cols, m)
  <2>1. 0 \notin Missing
    BY FieldsetAssumption DEF Missing
  <2>2. ASSUME NEW c \in ToSet(cols), set.rows[i][c] \notin Missing
        PROVE  rows[i][c] = set.rows[i][c]
    BY <1>5, <1>6, <2>2
  <2> QED
    BY <1>9, <2>1, <2>2 DEF Describes
<1>10. Described(after)
  BY <1>1, <1>2, <1>4, <1>7, <1>9 DEF Described
<1>11. Copies(after)
  BY <1>2, <1>4, <1>7, <1>8 DEF Copies
<1> QED
  BY <1>7, <1>10, <1>11

\* The order does not matter to what is in a fieldset; no handle has been
\* returned after it.
LEMMA SortedRight ==
  ASSUME NEW set, Shaped(set), NEW orderBy, NEW files, Whole(set, files)
  PROVE  Right(SortBy(set, orderBy), <<>>, files)
<1> DEFINE after == SortBy(set, orderBy)
<1>1. /\ after = [x \in Attributes |-> after[x]]
      /\ after.cols = set.cols /\ after.rows = set.rows /\ after.fields = set.fields /\ after.current = 0
  BY DEF SortBy, Shaped, Attributes
<1> HIDE DEF after
<1>2. Len(set.fields) \in Nat
  BY DEF Shaped
<1>3. Shaped(after)
  <2>1. Described(after)
    BY <1>1 DEF Shaped, Described
  <2>2. after.fields \in Seq(Refs \cup {Null}) /\ after.current \in -1..(Len(after.fields) + 1)
    BY <1>1, <1>2 DEF Shaped
  <2> QED
    BY <1>1, <2>1, <2>2 DEF Shaped
<1>4. Whole(after, files)
  BY <1>1 DEF Whole, Shown
<1>5. Returned(after, <<>>)
  BY <1>1, <1>2 DEF Returned, Count
<1> QED
  BY <1>3, <1>4, <1>5 DEF Right, after

\* Nothing has been returned of a fieldset that was just made.
LEMMA Unread ==
  ASSUME NEW set, Shaped(set), set.current \in {-1, 0}
  PROVE  Returned(set, <<>>)
<1>1. Count(set) \in {-1, 0}
  BY DEF Count, Shaped
<1>2. 1..Count(set) = {}
  BY <1>1
<1> QED
  BY <1>2 DEF Returned

\* What a new fieldset is, whatever strings it holds for those it misses.
NewIs(added, all) ==
    \A sval \in [Gaps(added.set) -> Strings] :
        LET set == Filled(added.set, sval)
        IN  /\ Shaped(set) /\ (added.ok => Whole(set, all)) /\ Returned(set, <<>>)
            /\ Copies(set) /\ Listed(set) /\ set.orderBy = <<>>
            /\ set.cols = added.set.cols

\* That is what the files added to an empty fieldset make of it.
LEMMA NewRight ==
  ASSUME NEW cols, NEW pos \in [File -> Nat], NEW files \in FileLists,
         NEW added, added = FoldLeft(AddFile, [set |-> NewSet(cols), pos |-> pos, ok |-> TRUE], files),
         NEW all, all = IF \A f \in ToSet(files) : pos[f] = Closed THEN ToSet(files) ELSE Null
  PROVE  added.pos \in [File -> Nat] /\ NewIs(added, all)
<1> DEFINE st == [set |-> NewSet(cols), pos |-> pos, ok |-> TRUE]
           n  == Len(files)
<1>1. files \in [1..n -> File] /\ n \in Nat
  BY FieldsetAssumption
<1>2. st \in States(cols) /\ Shown(st.set) = {} /\ st.pos = pos
  BY NewFilled DEF States
<1>3. ToSet(files) = {files[i] : i \in 1..n}
  BY <1>1 DEF ToSet
<1> HIDE DEF st, n
<1>4. added \in States(cols) /\ AllAdded(cols, st, files, n, added)
  <2>1. added = FoldLeft(AddFile, st, files)
    BY DEF st
  <2> QED
    BY <1>1, <1>2, <2>1, FilesAdded
<1>5. added.set \in Fillings(cols) /\ added.pos \in [File -> Nat]
  BY <1>4 DEF States
<1>6. added.set.cols = cols /\ Listed(added.set) /\ added.set.fields \in Seq(Refs \cup {Null})
  BY <1>5 DEF Fillings, Filling
<1>7. ASSUME added.ok, \A f \in ToSet(files) : pos[f] = Closed
      PROVE  Shown(added.set) = KeptOf(cols, References(ToSet(files)))
  BY <1>2, <1>3, <1>4, <1>7 DEF AllAdded
<1>8. ASSUME NEW sval \in [Gaps(added.set) -> Strings], NEW set, set = Filled(added.set, sval)
      PROVE  /\ Shaped(set) /\ (added.ok => Whole(set, all)) /\ Returned(set, <<>>)
             /\ Copies(set) /\ Listed(set) /\ set.orderBy = <<>>
             /\ set.cols = added.set.cols
  <2>1. /\ set = [x \in Attributes |-> set[x]]
        /\ set.cols = cols /\ set.fields = added.set.fields /\ set.order = added.set.order
        /\ set.current \in {-1, 0} /\ set.orderBy = <<>>
        /\ Described(set) /\ Copies(set)
    <3> DEFINE old == added.set
    <3>1. old \in Fillings(cols) /\ sval \in [Gaps(old) -> Strings] /\ set = Filled(old, sval)
      BY <1>5, <1>8
    <3> HIDE DEF old
    <3>2. /\ set = [x \in Attributes |-> set[x]]
          /\ set.cols = cols /\ set.fields = old.fields /\ set.order = old.order
          /\ set.current \in {-1, 0} /\ set.orderBy = <<>>
          /\ Described(set) /\ Copies(set)
      BY <3>1, GapsFilled
    <3> QED
      BY <3>2 DEF old
  <2>2. Shaped(set)
    <3>1. Len(set.fields) \in Nat
      BY <1>6, <2>1
    <3>2. set.current \in -1..(Len(set.fields) + 1)
      BY <2>1, <3>1
    <3> QED
      BY <1>6, <2>1, <3>2 DEF Shaped
  <2>3. added.ok => Whole(set, all)
    BY <1>7, <2>1 DEF Whole, Shown
  <2>4. Listed(set)
    BY <1>6, <2>1 DEF Listed
  <2> QED
    BY <1>6, <2>1, <2>2, <2>3, <2>4, Unread
<1> QED
  BY <1>5, <1>8 DEF NewIs

-----------------------------------------------------------------------------
(* The calls *)

\* A call about one fieldset keeps the others.
LEMMA OneSet ==
  ASSUME SetsInv, NEW s \in Set, position' \in [File -> Nat], NEW set, NEW handles, NEW files,
         sets' = [sets EXCEPT ![s] = set], got' = [got EXCEPT ![s] = handles],
         fresh' = [fresh EXCEPT ![s] = files],
         set # Null => Right(set, handles, files)
  PROVE  SetsInv'
<1>1. /\ sets' = [t \in Set |-> sets'[t]] /\ got' = [t \in Set |-> got'[t]]
      /\ fresh' = [t \in Set |-> fresh'[t]]
  BY DEF SetsInv
<1>2. /\ sets'[s] = set /\ got'[s] = handles /\ fresh'[s] = files
      /\ \A t \in Set \ {s} : sets'[t] = sets[t] /\ got'[t] = got[t] /\ fresh'[t] = fresh[t]
  BY DEF SetsInv
<1>3. ASSUME NEW t \in Set
      PROVE  sets'[t] # Null => Right(sets'[t], got'[t], fresh'[t])
  BY <1>2 DEF SetsInv
<1> QED
  BY <1>1, <1>3 DEF SetsInv

LEMMA NewKeeps ==
  ASSUME SetsInv, NEW s \in Set, NEW files \in FileLists, NEW keys \in KeyLists,
         NEW orderBy \in OrderBys, New(s, files, keys, orderBy)
  PROVE  SetsInv'
<1> DEFINE cols  == IF keys = <<>> THEN [i \in DOMAIN orderBy |-> orderBy[i][1]] ELSE keys
           added == FoldLeft(AddFile, [set |-> NewSet(cols), pos |-> position, ok |-> TRUE], files)
           ok    == added.ok /\ KnownKeys(added.set, orderBy)
           all   == IF \A f \in ToSet(files) : position[f] = Closed THEN ToSet(files) ELSE Null
<1>1. PICK sval \in [Gaps(added.set) -> Strings] :
          sets' = IF ok THEN [sets EXCEPT ![s] = Made(added.set, sval, orderBy)] ELSE sets
  BY DEF New
<1>2. /\ position' = added.pos
      /\ got' = IF ok THEN [got EXCEPT ![s] = <<>>] ELSE got
      /\ fresh' = IF ok THEN [fresh EXCEPT ![s] = all] ELSE fresh
  BY DEF New
<1> DEFINE filled == Filled(added.set, sval)
           set    == Made(added.set, sval, orderBy)
<1>3. /\ added.pos \in [File -> Nat]
      /\ Shaped(filled) /\ (added.ok => Whole(filled, all)) /\ Returned(filled, <<>>)
  <2> HIDE DEF cols, added, all
  <2>1. added = FoldLeft(AddFile, [set |-> NewSet(cols), pos |-> position, ok |-> TRUE], files)
    BY DEF added
  <2>2. all = IF \A f \in ToSet(files) : position[f] = Closed THEN ToSet(files) ELSE Null
    BY DEF all
  <2>3. position \in [File -> Nat]
    BY DEF SetsInv
  <2>4. added.pos \in [File -> Nat] /\ NewIs(added, all)
    BY <2>1, <2>2, <2>3, NewRight
  <2> QED
    BY <1>1, <2>4 DEF NewIs
<1>4. set = IF orderBy = <<>> THEN filled ELSE SortBy(filled, orderBy)
  BY DEF Made
<1> HIDE DEF cols, added, all, filled, set
<1>5. CASE ok
  <2>1. Right(set, <<>>, all)
    BY <1>3, <1>4, <1>5, SortedRight DEF Right
  <2>2. /\ position' \in [File -> Nat] /\ sets' = [sets EXCEPT ![s] = set]
        /\ fresh' = [fresh EXCEPT ![s] = all] /\ got' = [got EXCEPT ![s] = <<>>]
    BY <1>1, <1>2, <1>3, <1>5 DEF set
  <2> QED
    BY <2>1, <2>2, OneSet
<1>6. CASE ~ok
  BY <1>1, <1>2, <1>3, <1>6 DEF SetsInv
<1> QED
  BY <1>5, <1>6

LEMMA OrderKeeps ==
  ASSUME SetsInv, NEW s \in Set, NEW orderBy \in OrderBys, ApplyOrderBy(s, orderBy)
  PROVE  SetsInv'
<1>1. /\ sets[s] # Null /\ Right(sets[s], got[s], fresh[s]) /\ position' = position
      /\ fresh' = fresh /\ position \in [File -> Nat]
  BY DEF SetsInv, ApplyOrderBy, Exists
<1>2. fresh' = [fresh EXCEPT ![s] = fresh[s]]
  BY <1>1 DEF SetsInv
<1>3. CASE KnownKeys(sets[s], orderBy)
  <2> DEFINE set == SortBy(sets[s], orderBy)
  <2>1. sets' = [sets EXCEPT ![s] = set] /\ got' = [got EXCEPT ![s] = <<>>]
    BY <1>3 DEF ApplyOrderBy, SetsInv
  <2>2. Right(set, <<>>, fresh[s])
    BY <1>1, SortedRight DEF Right
  <2> HIDE DEF set
  <2> QED
    BY <1>1, <1>2, <2>1, <2>2, OneSet
<1>4. CASE ~KnownKeys(sets[s], orderBy)
  <2> DEFINE set == [sets[s] EXCEPT !.orderBy = <<>>]
  <2>1. sets' = [sets EXCEPT ![s] = set] /\ got' = [got EXCEPT ![s] = got[s]]
    BY <1>4 DEF ApplyOrderBy, SetsInv
  <2>2. Right(set, got[s], fresh[s])
    <3>1. /\ set = [x \in Attributes |-> set[x]] /\ set.cols = sets[s].cols /\ set.rows = sets[s].rows
          /\ set.fields = sets[s].fields /\ set.order = sets[s].order /\ set.current = sets[s].current
      BY <1>1 DEF Right, Shaped, Attributes
    <3> HIDE DEF set
    <3>2. Described(set)
      BY <1>1, <3>1 DEF Right, Shaped, Described
    <3>3. Shaped(set)
      BY <1>1, <3>1, <3>2 DEF Right, Shaped
    <3>4. Whole(set, fresh[s]) /\ Returned(set, got[s])
      BY <1>1, <3>1 DEF Right, Whole, Shown, Returned, Count
    <3> QED
      BY <3>3, <3>4 DEF Right
  <2> HIDE DEF set
  <2> QED
    BY <1>1, <1>2, <2>1, <2>2, OneSet
<1> QED
  BY <1>3, <1>4

\* Moving on in a fieldset.
LEMMA Moved ==
  ASSUME NEW set, Shaped(set), NEW files, Whole(set, files), NEW c \in -1..(Len(set.fields) + 1)
  PROVE  LET after == [set EXCEPT !.current = c]
         IN  /\ Shaped(after) /\ Whole(after, files) /\ after.current = c
             /\ after.fields = set.fields /\ after.order = set.order
<1> DEFINE after == [set EXCEPT !.current = c]
<1>1. /\ after = [x \in Attributes |-> after[x]] /\ after.cols = set.cols /\ after.rows = set.rows
      /\ after.fields = set.fields /\ after.order = set.order /\ after.current = c
  BY DEF Shaped, Attributes
<1> HIDE DEF after
<1>2. Described(after)
  BY <1>1 DEF Shaped, Described
<1>3. Shaped(after)
  BY <1>1, <1>2 DEF Shaped
<1>4. Whole(after, files)
  BY <1>1 DEF Whole, Shown
<1> QED
  BY <1>1, <1>3, <1>4 DEF after


LEMMA RewindKeeps == ASSUME SetsInv, NEW s \in Set, Rewind(s) PROVE SetsInv'
<1> DEFINE set == [sets[s] EXCEPT !.current = 0]
<1>1. Right(sets[s], got[s], fresh[s])
  BY DEF SetsInv, Rewind, Exists
<1>2. /\ position' \in [File -> Nat] /\ sets' = [sets EXCEPT ![s] = set]
      /\ got' = [got EXCEPT ![s] = <<>>] /\ fresh' = [fresh EXCEPT ![s] = fresh[s]]
  BY DEF SetsInv, Rewind
<1>3. 0 \in -1..(Len(sets[s].fields) + 1) /\ Len(sets[s].fields) \in Nat
  BY <1>1 DEF Right, Shaped
<1>4. /\ Shaped(set) /\ Whole(set, fresh[s]) /\ set.current = 0 /\ set.fields = sets[s].fields
  BY <1>1, <1>3, Moved DEF Right
<1>5. Right(set, <<>>, fresh[s])
  BY <1>3, <1>4 DEF Right, Returned, Count
<1> HIDE DEF set
<1> QED
  BY <1>2, <1>5, OneSet

LEMMA HandleKeeps == ASSUME SetsInv, NEW s \in Set, NextHandle(s) PROVE SetsInv'
<1> DEFINE old == sets[s]
           c   == old.current
           set == [old EXCEPT !.current = c + 1]
           ref == old.fields[old.order[c + 1]]
           handles == Append(got[s], ref)
<1>1. /\ Right(old, got[s], fresh[s]) /\ c \in 0..(Len(old.fields) - 1)
      /\ ref \in Refs
      /\ got' = [got EXCEPT ![s] = handles]
      /\ position' = AfterClose([position EXCEPT ![ref[1]] = ref[2] + 1], ref[1])
      /\ sets' = [sets EXCEPT ![s] = set]
      /\ fresh' = [fresh EXCEPT ![s] = fresh[s]]
  BY DEF SetsInv, NextHandle, Exists, Size, Seek, Refs
<1>2. position' \in [File -> Nat]
  <2>1. ref[1] \in File /\ ref[2] \in Nat
    BY <1>1, ReferenceOffset
  <2> DEFINE pos == [position EXCEPT ![ref[1]] = ref[2] + 1]
  <2>2. pos \in [File -> Nat]
    BY <2>1, Advanced DEF SetsInv
  <2> HIDE DEF ref, pos
  <2>3. position' = AfterClose(pos, ref[1])
    BY <1>1 DEF pos
  <2> QED
    BY <2>1, <2>2, <2>3 DEF AfterClose, Closed
<1>3. c \in Nat /\ c + 1 \in -1..(Len(old.fields) + 1) /\ Len(old.fields) \in Nat /\ c < Len(old.fields)
  <2>1. Len(old.fields) \in Nat
    <3>1. Shaped(old)
      BY <1>1 DEF Right
    <3> HIDE DEF old, set, ref
    <3> QED
      BY <3>1 DEF Shaped
  <2>2. c \in 0..(Len(old.fields) - 1)
    BY <1>1
  <2> HIDE DEF old, c
  <2> QED
    BY <2>1, <2>2
<1>4. /\ Shaped(set) /\ Whole(set, fresh[s]) /\ set.current = c + 1
      /\ set.fields = old.fields /\ set.order = old.order
  <2> HIDE DEF old, c
  <2> QED
    BY <1>1, <1>3, Moved DEF Right
<1>5. got[s] = [i \in 1..c |-> old.fields[old.order[i]]]
  <2>1. Count(old) = c
    <3>1. ~(c > Len(old.fields))
      <4> HIDE DEF old, c, ref, set
      <4> QED
        BY <1>1, <1>3
    <3> QED
      BY <3>1 DEF Count
  <2> HIDE DEF old, c, set, ref
  <2> QED
    BY <1>1, <2>1 DEF Right, Returned
<1>6. handles = [i \in 1..(c + 1) |-> old.fields[old.order[i]]]
  <2> DEFINE at(i) == old.fields[old.order[i]]
  <2>1. ref = at(c + 1)
    OBVIOUS
  <2> HIDE DEF at, old, c, ref
  <2>2. got[s] = [i \in 1..c |-> at(i)]
    BY <1>5 DEF at
  <2>3. Append([i \in 1..c |-> at(i)], at(c + 1)) = [i \in 1..(c + 1) |-> at(i)]
    <3> DEFINE V == {at(i) : i \in 1..(c + 1)}
               q == [i \in 1..c |-> at(i)]
    <3>1. q \in Seq(V) /\ Len(q) = c /\ at(c + 1) \in V
      BY <1>3
    <3> HIDE DEF V
    <3> QED
      BY <1>3, <3>1
  <2> QED
    BY <2>1, <2>2, <2>3 DEF at
<1>7. Right(set, handles, fresh[s])
  <2>1. Count(set) = c + 1
    <3>1. ~(c + 1 > Len(old.fields))
      <4> HIDE DEF old, c, ref, set
      <4> QED
        BY <1>1, <1>3
    <3> HIDE DEF old, c, ref, set
    <3> QED
      BY <3>1, <1>4 DEF Count
  <2> HIDE DEF set, handles, old, c
  <2> QED
    BY <1>4, <1>6, <2>1 DEF Right, Returned
<1> HIDE DEF set, handles
<1> QED
  BY <1>1, <1>2, <1>7, OneSet

LEMMA EndKeeps == ASSUME SetsInv, NEW s \in Set, NextAtEnd(s) PROVE SetsInv'
<1> DEFINE old == sets[s]
           set == [old EXCEPT !.current = old.current + 1]
<1>1. /\ Right(old, got[s], fresh[s]) /\ old.current \in {-1, Len(old.fields)}
      /\ position' \in [File -> Nat] /\ sets' = [sets EXCEPT ![s] = set]
      /\ got' = [got EXCEPT ![s] = got[s]] /\ fresh' = [fresh EXCEPT ![s] = fresh[s]]
  BY DEF SetsInv, NextAtEnd, Exists, Size
<1>2. Len(old.fields) \in Nat /\ old.current + 1 \in -1..(Len(old.fields) + 1)
  BY <1>1 DEF Right, Shaped
<1>3. /\ Shaped(set) /\ Whole(set, fresh[s]) /\ set.current = old.current + 1
      /\ set.fields = old.fields /\ set.order = old.order
  <2> HIDE DEF old
  <2> QED
    BY <1>1, <1>2, Moved DEF Right
<1>4. 1..Count(set) = 1..Count(old)
  <2>1. CASE old.current = -1
    <3>1. Count(old) = -1 /\ Count(set) = 0
      BY <1>2, <1>3, <2>1 DEF Count
    <3> QED
      BY <3>1
  <2>2. CASE old.current = Len(old.fields)
    <3>1. Count(set) = Count(old)
      BY <1>2, <1>3, <2>2 DEF Count
    <3> QED
      BY <3>1
  <2> QED
    BY <1>1, <2>1, <2>2
<1> HIDE DEF set, old
<1>5. Right(set, got[s], fresh[s])
  BY <1>1, <1>3, <1>4 DEF Right, Returned
<1> QED
  BY <1>1, <1>5, OneSet

LEMMA DeleteKeeps == ASSUME SetsInv, NEW s \in Set, Delete(s) PROVE SetsInv'
  BY OneSet DEF SetsInv, Delete

LEMMA Step == ASSUME SetsInv, [Next]_vars PROVE SetsInv'
<1>1. CASE UNCHANGED vars
  BY <1>1 DEF SetsInv, vars
<1>2. CASE Next
  BY <1>2, NewKeeps, OrderKeeps, RewindKeeps, HandleKeeps, EndKeeps, DeleteKeeps DEF Next
<1> QED
  BY <1>1, <1>2

\* Every fieldset has a row for each field and its own one while no message was
\* left out, has all that could be read, and has returned its fields in order.
THEOREM Invariance == Spec => []SetsInv
<1>1. Init => SetsInv
  BY Start
<1>2. SetsInv /\ [Next]_vars => SetsInv'
  BY Step
<1> QED
  BY <1>1, <1>2, PTL DEF Spec

\* The values that a field is sorted by are those of its message, for the keys
\* that it has, and 0 for a number that it has not, while no message was left
\* out; and a fieldset of files that no one had open (grib_fieldset_add) holds all
\* of their messages whose keys can be read.
THEOREM RowsCorrect == Spec => []RowsDescribeFields
<1>1. SetsInv => RowsDescribeFields
  <2> SUFFICES ASSUME SetsInv, NEW s \in Set, sets[s] # Null
               PROVE  /\ Len(sets[s].rows) = Size(s) /\ Null \notin ToSet(sets[s].fields) =>
                           \A i \in 1..Size(s) :
                               Describes(sets[s].rows[i], sets[s].cols, MessageOf(sets[s].fields[i]))
                      /\ fresh[s] # Null =>
                           ToSet(sets[s].fields) \ {Null} =
                               {ref \in References(fresh[s]) : Kept(sets[s].cols, MessageOf(ref))}
    BY DEF RowsDescribeFields, Existing, Exists
  <2>1. Shaped(sets[s]) /\ Whole(sets[s], fresh[s])
    BY DEF SetsInv, Right
  <2> QED
    BY <2>1 DEF Shaped, Described, Whole, Shown, KeptOf, Size
<1> QED
  BY <1>1, Invariance, PTL

\* The handles that next_handle has returned since the last rewind are those of
\* the fields in order, whatever other fieldsets read of the same files and the
\* pool closes in between.
THEOREM HandlesCorrect == Spec => []HandlesInOrder
<1>1. SetsInv => HandlesInOrder
  <2> SUFFICES ASSUME SetsInv, NEW s \in Set, sets[s] # Null
               PROVE  LET n == IF sets[s].current > Size(s) THEN Size(s) ELSE sets[s].current
                      IN  got[s] = [i \in 1..n |-> sets[s].fields[sets[s].order[i]]]
    BY DEF HandlesInOrder, Existing, Exists
  <2> QED
    BY DEF SetsInv, Right, Returned, Count, Size
<1> QED
  BY <1>1, Invariance, PTL

-----------------------------------------------------------------------------
(* In order *)

\* Every place has a field, every field a place, and none comes after one that
\* it precedes.
Ordered(set) ==
    /\ Copies(set)
    /\ set.order \in [1..Len(set.fields) -> 1..Len(set.fields)]
    /\ \A i \in 1..Len(set.fields) : \E j \in 1..Len(set.fields) : set.order[j] = i
    /\ \A i, j \in 1..Len(set.fields) : i < j =>
           ~Precedes(set.rows[set.order[j]], set.rows[set.order[i]], set.orderBy)

OrderInv == \A s \in Set : sets[s] # Null => Ordered(sets[s])

\* What the order compares are values that are near.
LEMMA RowsNear ==
  ASSUME ValuesNear, NEW set, Copies(set), NEW n \in Nat, n <= Len(set.rows),
         NEW orderBy \in OrderBys, KnownKeys(set, orderBy)
  PROVE  Near(set.rows, orderBy, n)
<1> DEFINE rows == set.rows
           cols == set.cols
<1>1. orderBy \in Seq(Key \X {1, -1})
  BY FieldsetAssumption
<1>2. ASSUME NEW a \in 1..n, NEW b \in 1..n, NEW k \in 1..Len(orderBy)
      PROVE  /\ rows[a][orderBy[k][1]] \in Int
             /\ orderBy[k][1] \in Long => rows[a][orderBy[k][1]] - rows[b][orderBy[k][1]] < IntHalf
  <2> DEFINE c == orderBy[k][1]
             value(ref) == RowOf(<<c>>, MessageOf(ref))[c]
  <2>1. c \in Key
    BY <1>1
  <2>2. c \in ToSet(cols)
    BY <1>1 DEF KnownKeys
  <2>3. a \in 1..Len(rows) /\ b \in 1..Len(rows)
    BY DEF Copies
  <2> HIDE DEF c, rows, cols
  <2>4. PICK r1 \in Undamaged : Copy(rows[a], cols, MessageOf(r1))
    BY <2>3 DEF Copies, rows, cols
  <2>5. PICK r2 \in Undamaged : Copy(rows[b], cols, MessageOf(r2))
    BY <2>3 DEF Copies, rows, cols
  <2>6. c \in ToSet(<<c>>)
    BY DEF ToSet
  <2>7. /\ IF value(r1) \in Missing THEN rows[a][c] \in Strings ELSE rows[a][c] = value(r1)
        /\ IF value(r2) \in Missing THEN rows[b][c] \in Strings ELSE rows[b][c] = value(r2)
    BY <2>2, <2>4, <2>5, <2>6 DEF Copy, RowOf
  <2>8. /\ value(r1) \in Int \cup Missing
        /\ c \in Long => value(r1) - value(r2) < IntHalf
    <3>1. r1 \in References(File) /\ r2 \in References(File) /\ Damaged \notin {MessageOf(r1), MessageOf(r2)}
      BY DEF Undamaged, Refs
    <3> HIDE DEF value
    <3> QED
      BY <2>1, <3>1 DEF ValuesNear, value
  <2>9. c \in Long => value(r1) \notin Missing /\ value(r2) \notin Missing
    <3>1. 0 \notin Missing
      BY FieldsetAssumption DEF Missing
    <3> QED
      BY <2>6, <3>1 DEF RowOf, Number
  <2> HIDE DEF value
  <2> QED
    BY <2>7, <2>8, <2>9, FieldsetAssumption DEF c, rows
<1> QED
  BY <1>1, <1>2 DEF Near, rows

\* Which of two fields the order has first, by their weights and by their values.
LEMMA PrecedesBefore ==
  ASSUME NEW n \in Nat, NEW rows, NEW orderBy, Near(rows, orderBy, n),
         NEW a \in 1..n, NEW b \in 1..n, Precedes(rows[a], rows[b], orderBy)
  PROVE  Before(rows, orderBy, a, b)
<1>1. orderBy \in Seq(Key \X {1, -1})
  BY DEF Near
<1>2. PICK k \in 1..Len(orderBy) :
          /\ \A m \in 1..(k - 1) : rows[a][orderBy[m][1]] = rows[b][orderBy[m][1]]
          /\ rows[a][orderBy[k][1]] * orderBy[k][2] < rows[b][orderBy[k][1]] * orderBy[k][2]
  BY <1>1 DEF Precedes
<1>3. ASSUME NEW m \in 1..(k - 1) PROVE Weight(rows, orderBy, a, m) = Weight(rows, orderBy, b, m)
  <2>1. rows[a][orderBy[m][1]] = rows[b][orderBy[m][1]]
    BY <1>2
  <2> QED
    BY <2>1 DEF Weight
<1>4. Weight(rows, orderBy, a, k) < Weight(rows, orderBy, b, k)
  BY <1>2 DEF Weight
<1> QED
  BY <1>3, <1>4 DEF Before, Less

\* grib_fieldset_apply_order_by: sorting makes a fieldset ordered.
LEMMA SortOrders ==
  ASSUME ValuesNear, NEW set, Shaped(set), Copies(set),
         set.order \in [1..Len(set.fields) -> 1..Len(set.fields)],
         \A i \in 1..Len(set.fields) : \E j \in 1..Len(set.fields) : set.order[j] = i,
         NEW orderBy \in OrderBys, KnownKeys(set, orderBy)
  PROVE  Ordered(SortBy(set, orderBy))
<1> DEFINE after == SortBy(set, orderBy)
           n     == Len(set.fields)
           order == IF orderBy = <<>> THEN set.order ELSE Sorted(set.rows, orderBy, set.order)
<1>1. /\ after.cols = set.cols /\ after.rows = set.rows /\ after.fields = set.fields
      /\ after.order = order /\ after.orderBy = orderBy
  BY DEF SortBy, Shaped, Attributes
<1>2. n \in Nat /\ n <= Len(set.rows)
  BY DEF Shaped, Described
<1>3. set.order \in [1..n -> 1..n] /\ \A i \in 1..n : \E j \in 1..n : set.order[j] = i
  OBVIOUS
<1> HIDE DEF after, n
<1> DEFINE right == /\ order \in [1..n -> 1..n]
                    /\ \A i \in 1..n : \E j \in 1..n : order[j] = i
                    /\ \A i, j \in 1..n : i < j => ~Precedes(set.rows[order[j]], set.rows[order[i]], orderBy)
<1>4. CASE orderBy = <<>>
  <2>1. DOMAIN orderBy = {}
    BY <1>4
  <2>2. right
    BY <1>3, <1>4, <2>1 DEF Precedes
  <2> HIDE DEF order
  <2> QED
    BY <1>1, <2>2 DEF Ordered, Copies, after, n
<1>5. CASE orderBy # <<>>
  <2>1. Near(set.rows, orderBy, n)
    BY <1>2, RowsNear
  <2>2. order = Sorted(set.rows, orderBy, set.order)
    BY <1>5
  <2> HIDE DEF order
  <2>3. /\ Orders(set.rows, orderBy, n)
        /\ \A a, b \in 1..n : Compare(set.rows, orderBy, a, b) <= 0 <=> ~Before(set.rows, orderBy, b, a)
    <3> DEFINE rows == set.rows
    <3> HIDE DEF rows
    <3>1. Near(rows, orderBy, n)
      BY <2>1 DEF rows
    <3>2. /\ Orders(rows, orderBy, n)
          /\ \A a, b \in 1..n : Compare(rows, orderBy, a, b) <= 0 <=> ~Before(rows, orderBy, b, a)
      BY <1>2, <3>1, CompareOrders
    <3> QED
      BY <3>2 DEF rows
  <2>4. Within(set.order, order, 1, n, n) /\ InPlace(set.rows, orderBy, n, order)
    BY <1>2, <1>3, <2>2, <2>3, SortDone
  <2>5. order \in [1..n -> 1..n] /\ \A i \in 1..n : \E j \in 1..n : order[j] = i
    <3>1. order \in [1..n -> 1..n] /\ \A i \in 1..n : \E j \in 1..n : set.order[i] = order[j]
      BY <2>4 DEF Within
    <3>2. ASSUME NEW i \in 1..n PROVE \E j \in 1..n : order[j] = i
      <4>1. PICK k \in 1..n : set.order[k] = i
        BY <1>3
      <4>2. PICK j \in 1..n : set.order[k] = order[j]
        BY <3>1
      <4> QED
        BY <4>1, <4>2
    <3> QED
      BY <3>1, <3>2
  <2>6. ASSUME NEW i \in 1..n, NEW j \in 1..n, i < j
        PROVE  ~Precedes(set.rows[order[j]], set.rows[order[i]], orderBy)
    <3>1. Compare(set.rows, orderBy, order[i], order[j]) <= 0
      BY <2>4, <2>6 DEF InPlace
    <3>2. order[i] \in 1..n /\ order[j] \in 1..n
      BY <2>5
    <3>3. ~Before(set.rows, orderBy, order[j], order[i])
      BY <2>3, <3>1, <3>2
    <3> QED
      BY <1>2, <2>1, <3>2, <3>3, PrecedesBefore
  <2> QED
    BY <1>1, <2>5, <2>6 DEF Ordered, Copies, after, n
<1> QED
  BY <1>4, <1>5

\* What a fieldset is in order by.
LEMMA SameOrder ==
  ASSUME NEW set, NEW after, Ordered(set), after.cols = set.cols, after.rows = set.rows,
         after.fields = set.fields, after.order = set.order, after.orderBy \in {set.orderBy, <<>>}
  PROVE  Ordered(after)
<1>1. \A r1, r2 : ~Precedes(r1, r2, <<>>)
  BY DEF Precedes
<1> QED
  BY <1>1 DEF Ordered, Copies

\* A call about one fieldset keeps the others in order.
LEMMA OneOrder ==
  ASSUME SetsInv, OrderInv, NEW s \in Set, NEW set, sets' = [sets EXCEPT ![s] = set],
         set # Null => Ordered(set)
  PROVE  OrderInv'
<1>1. sets'[s] = set /\ \A t \in Set \ {s} : sets'[t] = sets[t]
  BY DEF SetsInv
<1>2. ASSUME NEW t \in Set, sets'[t] # Null PROVE Ordered(sets'[t])
  BY <1>1, <1>2 DEF OrderInv
<1> QED
  BY <1>2 DEF OrderInv

LEMMA NewOrders ==
  ASSUME ValuesNear, SetsInv, OrderInv, NEW s \in Set, NEW files \in FileLists, NEW keys \in KeyLists,
         NEW orderBy \in OrderBys, New(s, files, keys, orderBy)
  PROVE  OrderInv'
<1> DEFINE cols  == IF keys = <<>> THEN [i \in DOMAIN orderBy |-> orderBy[i][1]] ELSE keys
           added == FoldLeft(AddFile, [set |-> NewSet(cols), pos |-> position, ok |-> TRUE], files)
           ok    == added.ok /\ KnownKeys(added.set, orderBy)
           all   == IF \A f \in ToSet(files) : position[f] = Closed THEN ToSet(files) ELSE Null
<1>1. PICK sval \in [Gaps(added.set) -> Strings] :
          sets' = IF ok THEN [sets EXCEPT ![s] = Made(added.set, sval, orderBy)] ELSE sets
  BY DEF New
<1>2. position \in [File -> Nat]
  BY DEF SetsInv
<1> DEFINE filled == Filled(added.set, sval)
           set    == Made(added.set, sval, orderBy)
<1>3. /\ Shaped(filled) /\ Copies(filled) /\ Listed(filled) /\ filled.orderBy = <<>>
      /\ filled.cols = added.set.cols
  <2> HIDE DEF cols, added, all, ok, set
  <2>1. added = FoldLeft(AddFile, [set |-> NewSet(cols), pos |-> position, ok |-> TRUE], files)
    BY DEF added
  <2>2. all = IF \A f \in ToSet(files) : position[f] = Closed THEN ToSet(files) ELSE Null
    BY DEF all
  <2>3. NewIs(added, all)
    BY <1>2, <2>1, <2>2, NewRight
  <2> QED
    BY <1>1, <2>3 DEF NewIs
<1>6. set = IF orderBy = <<>> THEN filled ELSE SortBy(filled, orderBy)
  BY DEF Made
<1> HIDE DEF cols, added, filled, set
<1>4. CASE ok
  <2> DEFINE n == Len(filled.fields)
  <2>1. n \in Nat
    BY <1>3 DEF Shaped
  <2>2. filled.order = [i \in 1..n |-> i]
    BY <1>3 DEF Listed
  <2>3. /\ filled.order \in [1..n -> 1..n]
        /\ \A i \in 1..n : \E j \in 1..n : filled.order[j] = i
    BY <2>2
  <2>4. CASE orderBy = <<>>
    <3>1. \A r1, r2 : ~Precedes(r1, r2, filled.orderBy)
      BY <1>3 DEF Precedes
    <3>2. Ordered(filled)
      BY <1>3, <2>3, <3>1 DEF Ordered
    <3> QED
      BY <1>1, <1>4, <1>6, <2>4, <3>2, OneOrder DEF set
  <2>5. CASE orderBy # <<>>
    <3>1. KnownKeys(filled, orderBy)
      BY <1>3, <1>4 DEF KnownKeys
    <3>2. Ordered(SortBy(filled, orderBy))
      BY <1>3, <2>3, <3>1, SortOrders
    <3> QED
      BY <1>1, <1>4, <1>6, <2>5, <3>2, OneOrder DEF set
  <2> QED
    BY <2>4, <2>5
<1>5. CASE ~ok
  BY <1>1, <1>5 DEF OrderInv
<1> QED
  BY <1>4, <1>5

LEMMA ApplyOrders ==
  ASSUME ValuesNear, SetsInv, OrderInv, NEW s \in Set, NEW orderBy \in OrderBys, ApplyOrderBy(s, orderBy)
  PROVE  OrderInv'
<1>1. sets[s] # Null /\ Shaped(sets[s]) /\ Ordered(sets[s])
  BY DEF SetsInv, OrderInv, Right, ApplyOrderBy, Exists
<1>2. CASE KnownKeys(sets[s], orderBy)
  <2> DEFINE set == SortBy(sets[s], orderBy)
  <2>1. sets' = [sets EXCEPT ![s] = set]
    BY <1>2 DEF ApplyOrderBy
  <2>2. Ordered(set)
    BY <1>1, <1>2, SortOrders DEF Ordered
  <2> HIDE DEF set
  <2> QED
    BY <2>1, <2>2, OneOrder
<1>3. CASE ~KnownKeys(sets[s], orderBy)
  <2> DEFINE set == [sets[s] EXCEPT !.orderBy = <<>>]
  <2>1. sets' = [sets EXCEPT ![s] = set]
    BY <1>3 DEF ApplyOrderBy
  <2>2. /\ set.cols = sets[s].cols /\ set.rows = sets[s].rows /\ set.fields = sets[s].fields
        /\ set.order = sets[s].order /\ set.orderBy = <<>>
    BY <1>1 DEF Shaped, Attributes
  <2> HIDE DEF set
  <2>3. Ordered(set)
    BY <1>1, <2>2, SameOrder
  <2> QED
    BY <2>1, <2>3, OneOrder
<1> QED
  BY <1>2, <1>3

\* Reading moves on and changes no order.
LEMMA MoveOrders ==
  ASSUME SetsInv, OrderInv, NEW s \in Set, sets[s] # Null, NEW c, sets' = [sets EXCEPT ![s].current = c]
  PROVE  OrderInv'
<1> DEFINE set == [sets[s] EXCEPT !.current = c]
<1>1. sets' = [sets EXCEPT ![s] = set]
  OBVIOUS
<1>2. Shaped(sets[s]) /\ Ordered(sets[s])
  BY DEF SetsInv, OrderInv, Right
<1>3. /\ set.cols = sets[s].cols /\ set.rows = sets[s].rows /\ set.fields = sets[s].fields
      /\ set.order = sets[s].order /\ set.orderBy = sets[s].orderBy
  BY <1>2 DEF Shaped, Attributes
<1> HIDE DEF set
<1>4. Ordered(set)
  BY <1>2, <1>3, SameOrder
<1> QED
  BY <1>1, <1>4, OneOrder

LEMMA OrderStep == ASSUME ValuesNear, SetsInv, OrderInv, [Next]_vars PROVE OrderInv'
<1>1. CASE UNCHANGED vars
  BY <1>1 DEF OrderInv, vars
<1>2. ASSUME NEW s \in Set, NEW files \in FileLists, NEW keys \in KeyLists, NEW orderBy \in OrderBys,
             New(s, files, keys, orderBy)
      PROVE  OrderInv'
  BY <1>2, NewOrders
<1>3. ASSUME NEW s \in Set, NEW orderBy \in OrderBys, ApplyOrderBy(s, orderBy) PROVE OrderInv'
  BY <1>3, ApplyOrders
<1>4. ASSUME NEW s \in Set, Rewind(s) PROVE OrderInv'
  BY <1>4, MoveOrders DEF Rewind, Exists
<1>5. ASSUME NEW s \in Set, NextHandle(s) PROVE OrderInv'
  BY <1>5, MoveOrders DEF NextHandle, Exists
<1>6. ASSUME NEW s \in Set, NextAtEnd(s) PROVE OrderInv'
  BY <1>6, MoveOrders DEF NextAtEnd, Exists
<1>7. ASSUME NEW s \in Set, Delete(s) PROVE OrderInv'
  BY <1>7, OneOrder DEF Delete
<1> QED
  BY <1>1, <1>2, <1>3, <1>4, <1>5, <1>6, <1>7 DEF Next

\* Sorting with grib_fieldset_sort, again and by other keys, and refusing an order
\* keeps every field once, and a fieldset that has an order is in it: where the
\* differences of values fit in the int the code keeps them in.
THEOREM InOrderCorrect == ASSUME ValuesNear PROVE Spec => []InOrder
<1>1. Init => OrderInv
  BY DEF Init, OrderInv
<1>2. SetsInv /\ OrderInv /\ [Next]_vars => OrderInv'
  BY OrderStep
<1>3. SetsInv /\ OrderInv => InOrder
  <2> SUFFICES ASSUME OrderInv, SetsInv, NEW s \in Set, sets[s] # Null
               PROVE  LET row(i) == sets[s].rows[sets[s].order[i]]
                      IN  /\ Len(sets[s].order) = Size(s) /\ ToSet(sets[s].order) = 1..Size(s)
                          /\ \A i, j \in 1..Size(s) : i < j => ~Precedes(row(j), row(i), sets[s].orderBy)
    BY DEF InOrder, Existing, Exists
  <2> DEFINE n == Len(sets[s].fields)
             order == sets[s].order
  <2>1. n \in Nat /\ Ordered(sets[s])
    BY DEF SetsInv, OrderInv, Right, Shaped
  <2>2. /\ order \in [1..n -> 1..n] /\ \A i \in 1..n : \E j \in 1..n : order[j] = i
        /\ \A i, j \in 1..n : i < j =>
               ~Precedes(sets[s].rows[order[j]], sets[s].rows[order[i]], sets[s].orderBy)
    BY <2>1 DEF Ordered
  <2> HIDE DEF n, order
  <2>3. Len(order) = n
    BY <2>1, <2>2
  <2>4. ToSet(order) = 1..n
    BY <2>1, <2>2, <2>3 DEF ToSet
  <2> QED
    BY <2>2, <2>3, <2>4 DEF Size, n, order
<1> QED
  BY <1>1, <1>2, <1>3, Invariance, PTL DEF Spec

=============================================================================
