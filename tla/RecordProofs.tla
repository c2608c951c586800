------------------------------ MODULE RecordProofs ------------------------------
(***************************************************************************)
(* Theorems about what the harness records: what AgentHarness persists        *)
(* through runs, branches, compactions and crashes, in either repository, and *)
(* what a plan says became of its tasks, for any sessions, plans and bounds,  *)
(* and the shape of the state of all parts.                                   *)
(***************************************************************************)
EXTENDS HarnessProofs

-------------------------------------------------------------------------------
(* Helpers *)

LEMMA SameSelection ==
  /\ \A s, at : H!ElementsAt(s, at) = ElementsAt(s, at)
  /\ \A at, k : H!Nth(at, k) = Nth(at, k)
  /\ \A s : H!ToSet(s) = ToSet(s)
  /\ \A S : H!Cardinality(S) = Cardinality(S)
BY DEF H!ToSet, ToSet, H!ElementsAt, ElementsAt, H!Nth, Nth, H!Cardinality, Cardinality,
       H!IsInjective, IsInjective

\* What is picked at an interval is what stands there.
LEMMA NthOfInterval ==
  ASSUME NEW a \in Nat, NEW b \in Nat, a <= b
  PROVE  /\ Cardinality(a + 1 .. b) = b - a
         /\ \A k \in 1 .. b - a : Nth(a + 1 .. b, k) = a + k
<1> DEFINE low == a + 1
<1>0. low \in Int /\ \A i \in Int : Cardinality(low .. i) = IF low > i THEN 0 ELSE i - low + 1
  BY FS_Interval
<1>1. \A i \in a + 1 .. b : Cardinality(a + 1 .. i) = i - a
  <2> SUFFICES ASSUME NEW i \in a + 1 .. b PROVE Cardinality(low .. i) = i - a
    OBVIOUS
  <2>1. i \in Int /\ ~ (low > i) /\ i - low + 1 = i - a
    OBVIOUS
  <2> QED
    BY <1>0, <2>1
<1>2. Cardinality(a + 1 .. b) = b - a
  <2>1. b \in Int /\ (low > b => b - a = 0) /\ b - low + 1 = b - a
    OBVIOUS
  <2> QED
    BY <1>0, <2>1
<1>3. ASSUME NEW i \in a + 1 .. b PROVE {j \in a + 1 .. b : j <= i} = a + 1 .. i
  OBVIOUS
<1>4. ASSUME NEW k \in 1 .. b - a PROVE Nth(a + 1 .. b, k) = a + k
  <2>1. a + k \in a + 1 .. b
    OBVIOUS
  <2>2. \A i \in a + 1 .. b : Cardinality({j \in a + 1 .. b : j <= i}) = i - a
    BY <1>1, <1>3
  <2>3. \A i \in a + 1 .. b : i - a = k <=> i = a + k
    OBVIOUS
  <2> QED
    BY <2>1, <2>2, <2>3 DEF Nth
<1> QED
  BY <1>2, <1>4

LEMMA ElementsAtInterval ==
  ASSUME NEW S, NEW s \in Seq(S), NEW a \in Nat, NEW b \in Nat, a <= b, b <= Len(s)
  PROVE  /\ ElementsAt(s, a + 1 .. b) \in Seq(S) /\ Len(ElementsAt(s, a + 1 .. b)) = b - a
         /\ \A k \in 1 .. b - a : ElementsAt(s, a + 1 .. b)[k] = s[a + k]
<1>1. a + 1 .. b \in SUBSET DOMAIN s
  <2>1. DOMAIN s = 1 .. Len(s) /\ Len(s) \in Nat
    BY LenProperties
  <2> QED
    BY <2>1
<1>2. /\ Cardinality(a + 1 .. b) = b - a
      /\ \A k \in 1 .. b - a : Nth(a + 1 .. b, k) = a + k
  BY NthOfInterval
<1>3. /\ ElementsAt(s, a + 1 .. b) \in Seq(S)
      /\ Len(ElementsAt(s, a + 1 .. b)) = Cardinality(a + 1 .. b)
      /\ \A k \in 1 .. Cardinality(a + 1 .. b) :
           ElementsAt(s, a + 1 .. b)[k] = s[Nth(a + 1 .. b, k)]
  BY <1>1, ElementsAtProperties
<1> QED
  BY <1>2, <1>3

\* A finite set of numbers has a greatest.
LEMMA GreatestNatural ==
  ASSUME NEW n \in Nat, NEW T \in SUBSET (1 .. n), T # {}
  PROVE  \E m \in T : \A k \in T : k <= m
<1>1. PICK turned : turned = {n - k : k \in T}
  OBVIOUS
<1>2. turned \in SUBSET Nat /\ turned # {}
  <2>1. \A k \in T : n - k \in Nat
    OBVIOUS
  <2> QED
    BY <1>1, <2>1
<1>3. PICK x \in turned : \A y \in turned : x <= y
  BY <1>2, LeastNatural
<1>4. PICK m \in T : x = n - m
  BY <1>1
<1>5. \A k \in T : k <= m
  <2> SUFFICES ASSUME NEW k \in T PROVE k <= m
    OBVIOUS
  <2>1. n - m <= n - k
    BY <1>1, <1>3, <1>4
  <2> QED
    BY <2>1
<1> QED
  BY <1>5

-------------------------------------------------------------------------------
(* Messages and entries *)

TextMessage == [kind : {"user", "assistant", "toolResult"}, text : {<< n >> : n \in Nat}, calls : Seq(Nat)]

\* An entry holds a message or is context.
Row == [seq : Nat, parent : Nat, kind : {"message"}, wire : {H!ToWire(m) : m \in TextMessage}]
       \cup [seq : Nat, parent : Nat, kind : {"compaction", "branch_summary"}, wire : {H!NoWire}]
IsMessage(e) == e.kind = "message"
Heard(e) == H!FromWire(e.wire)
Time(m) == m.text[1]

\* An assistant message is read back from its parts.
LEMMA PartsRead ==
  ASSUME NEW a \in Seq(Nat), NEW b \in Seq(Nat)
  PROVE  LET parts == [i \in DOMAIN a |-> H!Part("text", a[i])]
                      \o [i \in DOMAIN b |-> H!Part("toolCall", b[i])]
         IN H!OfType(parts, "text") = a /\ H!OfType(parts, "toolCall") = b
<1>1. PICK p \in Nat, q \in Nat : p = Len(a) /\ q = Len(b)
  BY LenProperties
<1>2. DOMAIN a = 1 .. p /\ DOMAIN b = 1 .. q /\ p <= p + q /\ p + q \in Nat
  BY <1>1, LenProperties
<1>3. PICK Parts : Parts = [type : {"text", "toolCall"}, v : Nat]
  OBVIOUS
<1>4. PICK texts, calls : /\ texts = [i \in DOMAIN a |-> H!Part("text", a[i])]
                          /\ calls = [i \in DOMAIN b |-> H!Part("toolCall", b[i])]
  OBVIOUS
<1>5. /\ texts \in Seq(Parts) /\ Len(texts) = p
      /\ \A i \in 1 .. p : texts[i].type = "text" /\ texts[i].v = a[i]
  <2>1. \A i \in 1 .. p : H!Part("text", a[i]) \in Parts
    BY <1>2, <1>3 DEF H!Part
  <2>2. \A i \in 1 .. p : texts[i] = H!Part("text", a[i])
    BY <1>2, <1>4
  <2> QED
    BY <1>2, <1>4, <2>1, <2>2 DEF H!Part
<1>6. /\ calls \in Seq(Parts) /\ Len(calls) = q
      /\ \A i \in 1 .. q : calls[i].type = "toolCall" /\ calls[i].v = b[i]
  <2>1. \A i \in 1 .. q : H!Part("toolCall", b[i]) \in Parts
    BY <1>2, <1>3 DEF H!Part
  <2>2. \A i \in 1 .. q : calls[i] = H!Part("toolCall", b[i])
    BY <1>2, <1>4
  <2> QED
    BY <1>2, <1>4, <2>1, <2>2 DEF H!Part
<1>7. PICK parts : parts = texts \o calls
  OBVIOUS
<1>8. /\ parts \in Seq(Parts) /\ Len(parts) = p + q /\ DOMAIN parts = 1 .. p + q
      /\ \A i \in 1 .. p : parts[i] = texts[i]
      /\ \A i \in 1 .. q : parts[p + i] = calls[i]
  <2>1. /\ texts \o calls \in Seq(Parts) /\ Len(texts \o calls) = Len(texts) + Len(calls)
        /\ \A i \in 1 .. Len(texts) + Len(calls) :
             (texts \o calls)[i] = IF i <= Len(texts) THEN texts[i] ELSE calls[i - Len(texts)]
    <3>1. texts \in Seq(Parts) /\ calls \in Seq(Parts)
      BY <1>5, <1>6
    <3> QED
      BY <3>1, ConcatProperties, ZenonT(40)
  <2>2. \A i \in 1 .. p + q : parts[i] = IF i <= p THEN texts[i] ELSE calls[i - p]
    BY <1>5, <1>6, <1>7, <2>1
  <2>3. \A i \in 1 .. p : i \in 1 .. p + q /\ i <= p
    OBVIOUS
  <2>4. \A i \in 1 .. q : p + i \in 1 .. p + q /\ ~ (p + i <= p) /\ (p + i) - p = i
    OBVIOUS
  <2>5. parts \in Seq(Parts) /\ Len(parts) = p + q
    BY <1>5, <1>6, <1>7, <2>1
  <2> QED
    BY <2>2, <2>3, <2>4, <2>5, LenProperties
<1>9. \A i \in 1 .. p + q : \/ i \in 1 .. p
                            \/ \E j \in 1 .. q : i = p + j
  <2> SUFFICES ASSUME NEW i \in 1 .. p + q, ~ (i \in 1 .. p) PROVE i - p \in 1 .. q /\ i = p + (i - p)
    OBVIOUS
  <2> QED
    OBVIOUS
<1>99. PICK z \in Nat : z = 0
  OBVIOUS
<1>10. {i \in DOMAIN parts : parts[i].type = "text"} = z + 1 .. p
  <2>1. \A i \in 1 .. p : i \in 1 .. p + q /\ parts[i].type = "text"
    BY <1>5, <1>8
  <2>2. \A j \in 1 .. q : parts[p + j].type # "text"
    BY <1>6, <1>8
  <2>3. z + 1 .. p = 1 .. p /\ 1 .. p \subseteq 1 .. p + q
    BY <1>99
  <2>4. \A i \in 1 .. p + q : parts[i].type = "text" => i \in 1 .. p
    BY <1>9, <2>2
  <2> QED
    BY <1>8, <2>1, <2>3, <2>4
<1>11. {i \in DOMAIN parts : parts[i].type = "toolCall"} = p + 1 .. p + q
  <2>1. \A i \in 1 .. p : parts[i].type # "toolCall"
    BY <1>5, <1>8
  <2>2. \A j \in 1 .. q : parts[p + j].type = "toolCall"
    BY <1>6, <1>8
  <2>3. \A i \in 1 .. p : i \notin p + 1 .. p + q
    OBVIOUS
  <2>4. \A j \in 1 .. q : p + j \in p + 1 .. p + q
    OBVIOUS
  <2>5. p + 1 .. p + q \subseteq 1 .. p + q
    OBVIOUS
  <2>6. \A i \in p + 1 .. p + q : parts[i].type = "toolCall"
    BY <1>9, <2>2, <2>3, <2>5
  <2> QED
    BY <1>8, <1>9, <2>1, <2>2, <2>3, <2>4, <2>5, <2>6
<1>12. PICK first : first = ElementsAt(parts, z + 1 .. p)
  OBVIOUS
<1>13. first \in Seq(Parts) /\ Len(first) = p /\ \A k \in 1 .. p : first[k] = parts[z + k] /\ z + k = k
  <2>1. /\ z <= p /\ p <= Len(parts) /\ p - z = p /\ \A k \in 1 .. p : z + k = k
        /\ parts \in Seq(Parts)
    BY <1>8, <1>99
  <2>2. /\ ElementsAt(parts, z + 1 .. p) \in Seq(Parts) /\ Len(ElementsAt(parts, z + 1 .. p)) = p - z
        /\ \A k \in 1 .. p - z : ElementsAt(parts, z + 1 .. p)[k] = parts[z + k]
    <3>1. z <= p /\ p <= Len(parts)
      BY <2>1
    <3> QED
      BY <2>1, <3>1, ElementsAtInterval, ZenonT(30)
  <2>3. PICK d : d = p - z
    OBVIOUS
  <2>4. d = p
    BY <2>1, <2>3
  <2>5. first \in Seq(Parts) /\ Len(first) = d /\ \A k \in 1 .. d : first[k] = parts[z + k]
    BY <1>12, <2>2, <2>3, Zenon
  <2> QED
    BY <2>1, <2>4, <2>5, Zenon
<1>14. PICK rest : rest = ElementsAt(parts, p + 1 .. p + q)
  OBVIOUS
<1>15. rest \in Seq(Parts) /\ Len(rest) = q /\ \A k \in 1 .. q : rest[k] = parts[p + k]
  <2>1. p + q <= Len(parts) /\ (p + q) - p = q
    BY <1>8
  <2>2. /\ ElementsAt(parts, p + 1 .. p + q) \in Seq(Parts)
        /\ Len(ElementsAt(parts, p + 1 .. p + q)) = (p + q) - p
        /\ \A k \in 1 .. (p + q) - p : ElementsAt(parts, p + 1 .. p + q)[k] = parts[p + k]
    BY <1>2, <1>8, <2>1, ElementsAtInterval
  <2> QED
    BY <1>14, <2>1, <2>2
<1>16. H!OfType(parts, "text") = a
  <2>1. H!OfType(parts, "text") = [i \in DOMAIN first |-> first[i].v]
    BY <1>10, <1>12, SameSelection DEF H!OfType
  <2>2. DOMAIN first = 1 .. p
    BY <1>13, LenProperties
  <2>3. \A i \in 1 .. p : first[i].v = a[i]
    BY <1>5, <1>8, <1>13
  <2>4. [i \in DOMAIN first |-> first[i].v] = [i \in 1 .. p |-> a[i]]
    BY <2>2, <2>3
  <2>5. a = [i \in 1 .. p |-> a[i]]
    BY <1>2
  <2> QED
    BY <2>1, <2>4, <2>5
<1>17. H!OfType(parts, "toolCall") = b
  <2>1. H!OfType(parts, "toolCall") = [i \in DOMAIN rest |-> rest[i].v]
    BY <1>11, <1>14, SameSelection DEF H!OfType
  <2>2. DOMAIN rest = 1 .. q
    BY <1>15, LenProperties
  <2>3. \A i \in 1 .. q : rest[i].v = b[i]
    BY <1>6, <1>8, <1>15
  <2>4. [i \in DOMAIN rest |-> rest[i].v] = [i \in 1 .. q |-> b[i]]
    BY <2>2, <2>3
  <2>5. b = [i \in 1 .. q |-> b[i]]
    BY <1>2
  <2> QED
    BY <2>1, <2>4, <2>5
<1>18. parts = [i \in DOMAIN a |-> H!Part("text", a[i])] \o [i \in DOMAIN b |-> H!Part("toolCall", b[i])]
  BY <1>4, <1>7
<1> QED
  BY <1>16, <1>17, <1>18

LEMMA RoundTrip ==
  ASSUME NEW m \in TextMessage
  PROVE  H!FromWire(H!ToWire(m)) = m
<1>1. m.text \in Seq(Nat) /\ m.calls \in Seq(Nat)
  <2>1. PICK n \in Nat : m.text = << n >>
    BY DEF TextMessage
  <2> QED
    BY <2>1 DEF TextMessage
<1>2. PICK w : w = H!ToWire(m)
  OBVIOUS
<1>3. w.role = m.kind /\ H!OfType(w.parts, "text") = m.text /\ H!OfType(w.parts, "toolCall") = m.calls
  BY <1>1, <1>2, PartsRead DEF H!ToWire
<1>4. H!FromWire(w) = [kind |-> m.kind, text |-> m.text, calls |-> m.calls]
  BY <1>3 DEF H!FromWire
<1> QED
  BY <1>2, <1>4 DEF TextMessage

LEMMA RowsHeard ==
  ASSUME NEW e \in Row, IsMessage(e)
  PROVE  Heard(e) \in TextMessage /\ Time(Heard(e)) \in Nat
<1>1. PICK m \in TextMessage : e.wire = H!ToWire(m)
  BY DEF Row, IsMessage
<1>2. Heard(e) = m
  BY <1>1, RoundTrip DEF Heard
<1> QED
  BY <1>2 DEF TextMessage, Time

-------------------------------------------------------------------------------
(* What a list of entries says *)

SeqNumbered(entries) == \A i \in DOMAIN entries : entries[i].seq = i
Ordered(entries) ==
  \A i, j \in DOMAIN entries : i < j /\ IsMessage(entries[i]) /\ IsMessage(entries[j]) =>
    Time(Heard(entries[i])) < Time(Heard(entries[j]))
Until(entries, n) == \A i \in DOMAIN entries : IsMessage(entries[i]) => Time(Heard(entries[i])) <= n
Heards(entries) == {Heard(entries[i]) : i \in {k \in DOMAIN entries : IsMessage(entries[k])}}

\* The transcript has the messages of the entries, in their order.
LEMMA TranscriptReads ==
  ASSUME NEW list \in Seq(Row)
  PROVE  /\ H!Transcript(list) \in Seq(TextMessage) /\ Len(H!Transcript(list)) <= Len(list)
         /\ ToSet(H!Transcript(list)) = Heards(list)
         /\ Ordered(list) => \A k, l \in 1 .. Len(H!Transcript(list)) :
              k < l => Time(H!Transcript(list)[k]) < Time(H!Transcript(list)[l])
         /\ (\A i \in DOMAIN list : IsMessage(list[i])) =>
              /\ Len(H!Transcript(list)) = Len(list)
              /\ \A k \in 1 .. Len(list) : H!Transcript(list)[k] = Heard(list[k])
<1>1. PICK at : at = {i \in DOMAIN list : IsMessage(list[i])}
  OBVIOUS
<1>2. PICK picked : picked = ElementsAt(list, at)
  OBVIOUS
<1>3. at \in SUBSET DOMAIN list /\ \A i \in DOMAIN list : list[i] \in Row
  BY <1>1
<1>4. PICK size \in Nat, n \in Nat : size = Cardinality(at) /\ n = Len(list)
  BY <1>3, ElementsAtProperties, LenProperties
<1>5. /\ picked \in Seq(Row) /\ Len(picked) = size
      /\ \A k \in 1 .. size : Nth(at, k) \in at /\ picked[k] = list[Nth(at, k)]
      /\ \A k, l \in 1 .. size : k < l => Nth(at, k) < Nth(at, l)
      /\ \A i \in at : \E k \in 1 .. size : picked[k] = list[i]
  <2>1. /\ ElementsAt(list, at) \in Seq(Row) /\ Len(ElementsAt(list, at)) = Cardinality(at)
        /\ \A k \in 1 .. Cardinality(at) : Nth(at, k) \in at /\ ElementsAt(list, at)[k] = list[Nth(at, k)]
        /\ \A k, l \in 1 .. Cardinality(at) : k < l => Nth(at, k) < Nth(at, l)
        /\ \A i \in at : \E k \in 1 .. Cardinality(at) : ElementsAt(list, at)[k] = list[i]
    BY <1>3, ElementsAtProperties
  <2> QED
    BY <1>2, <1>4, <2>1
<1>6. DOMAIN picked = 1 .. size /\ DOMAIN list = 1 .. n
  BY <1>4, <1>5, LenProperties
<1>7. PICK read : read = [k \in 1 .. size |-> Heard(picked[k])]
  OBVIOUS
<1>8. H!Transcript(list) = read
  <2>1. H!Messages(list) = picked
    BY <1>1, <1>2, SameSelection DEF H!Messages, IsMessage
  <2>2. H!Transcript(list) = [k \in DOMAIN picked |-> H!FromWire(picked[k].wire)]
    BY <2>1 DEF H!Transcript
  <2> QED
    BY <1>6, <1>7, <2>2 DEF Heard
<1>9. \A k \in 1 .. size : IsMessage(picked[k]) /\ Heard(picked[k]) \in TextMessage
  <2> SUFFICES ASSUME NEW k \in 1 .. size PROVE IsMessage(picked[k]) /\ Heard(picked[k]) \in TextMessage
    OBVIOUS
  <2>1. Nth(at, k) \in at /\ picked[k] = list[Nth(at, k)]
    BY <1>5
  <2>2. picked[k] \in Row /\ IsMessage(picked[k])
    BY <1>1, <1>3, <2>1
  <2> QED
    BY <2>2, RowsHeard
<1>10. read \in Seq(TextMessage) /\ Len(read) = size /\ DOMAIN read = 1 .. size
       /\ \A k \in 1 .. size : read[k] = Heard(picked[k])
  BY <1>7, <1>9
<1>11. size <= n
  <2>1. IsFiniteSet(1 .. n) /\ Cardinality(1 .. n) = n
    BY FS_Interval
  <2> QED
    BY <1>3, <1>4, <1>6, <2>1, FS_Subset
<1>12. ToSet(read) = Heards(list)
  <2>1. ToSet(read) = {Heard(picked[k]) : k \in 1 .. size}
    BY <1>10 DEF ToSet
  <2>2. Heards(list) = {Heard(list[i]) : i \in at}
    BY <1>1 DEF Heards
  <2>3. \A k \in 1 .. size : Heard(picked[k]) \in {Heard(list[i]) : i \in at}
    BY <1>5
  <2>4. ASSUME NEW i \in at PROVE Heard(list[i]) \in {Heard(picked[k]) : k \in 1 .. size}
    <3>1. PICK k \in 1 .. size : picked[k] = list[i]
      BY <1>5
    <3> QED
      BY <3>1
  <2> QED
    BY <2>1, <2>2, <2>3, <2>4
<1>13. ASSUME Ordered(list), NEW k \in 1 .. size, NEW l \in 1 .. size, k < l
       PROVE  Time(read[k]) < Time(read[l])
  <2>1. Nth(at, k) \in at /\ Nth(at, l) \in at /\ Nth(at, k) < Nth(at, l)
    BY <1>5, <1>13
  <2>2. Time(Heard(list[Nth(at, k)])) < Time(Heard(list[Nth(at, l)]))
    BY <1>1, <1>13, <2>1 DEF Ordered
  <2> QED
    BY <1>5, <1>10, <2>2
<1>14. ASSUME \A i \in DOMAIN list : IsMessage(list[i])
       PROVE  size = n /\ \A k \in 1 .. n : read[k] = Heard(list[k])
  <2>1. PICK z \in Nat : z = 0
    OBVIOUS
  <2>2. at = z + 1 .. n /\ z <= n /\ n - z = n /\ \A k \in 1 .. n : z + k = k
    BY <1>1, <1>6, <1>14, <2>1
  <2>3. Cardinality(z + 1 .. n) = n - z /\ \A k \in 1 .. n - z : Nth(z + 1 .. n, k) = z + k
    BY <2>2, NthOfInterval
  <2>4. size = n /\ \A k \in 1 .. n : Nth(at, k) = k
    BY <1>4, <2>2, <2>3
  <2> QED
    BY <1>5, <1>10, <2>4
<1> QED
  BY <1>4, <1>8, <1>10, <1>11, <1>12, <1>13, <1>14

\* What a repository keeps of a list are entries of it, and all of them unless SQLite
\* finds a seq twice.
LEMMA StoredKeeps ==
  ASSUME NEW list \in Seq(Row)
  PROVE  /\ H!Stored(list) \in Seq(Row)
         /\ \A k \in DOMAIN H!Stored(list) : \E i \in DOMAIN list : H!Stored(list)[k] = list[i]
         /\ backend = "jsonl" \/ SeqNumbered(list) => H!Stored(list) = list
<1>1. PICK n \in Nat : n = Len(list)
  BY LenProperties
<1>2. DOMAIN list = 1 .. n /\ \A i \in 1 .. n : list[i] \in Row /\ list[i].seq \in Nat
  BY <1>1, LenProperties DEF Row
<1>3. PICK seqs : seqs = {list[i].seq : i \in DOMAIN list}
  OBVIOUS
<1>4. ASSUME NEW q \in seqs
      PROVE  \E i \in 1 .. n : /\ list[i].seq = q /\ H!RowOf(list, q) = list[i]
                               /\ \A j \in 1 .. n : list[j].seq = q => j <= i
  <2>1. PICK rows : rows = {i \in DOMAIN list : list[i].seq = q}
    OBVIOUS
  <2>2. rows \in SUBSET (1 .. n) /\ rows # {}
    BY <1>2, <1>3, <2>1
  <2>3. \E i \in rows : \A j \in rows : j <= i
    BY <2>2, GreatestNatural
  <2>4. PICK last : last = CHOOSE i \in rows : \A j \in rows : j <= i
    OBVIOUS
  <2>5. last \in rows /\ \A j \in rows : j <= last
    BY <2>3, <2>4
  <2>6. H!RowOf(list, q) = list[last]
    BY <2>1, <2>4 DEF H!RowOf
  <2> QED
    BY <1>2, <2>1, <2>5, <2>6
<1>5. CASE backend = "jsonl"
  BY <1>5 DEF H!Stored
<1>6. CASE backend # "jsonl"
  <2>1. IsFiniteSet(seqs) /\ seqs \in SUBSET Nat
    <3>1. IsFiniteSet(DOMAIN list)
      BY <1>2, FS_Interval
    <3>2. seqs = {list[i].seq : i \in 1 .. n}
      BY <1>2, <1>3
    <3>3. PICK number : number = [i \in 1 .. n |-> list[i].seq]
      OBVIOUS
    <3>4. number \in Surjection(1 .. n, seqs)
      BY <3>2, <3>3 DEF Surjection
    <3>5. IsFiniteSet(seqs)
      BY <1>2, <3>1, <3>4, FS_Surjection
    <3> QED
      BY <1>2, <3>2, <3>5
  <2>2. PICK size \in Nat : size = Cardinality(seqs)
    BY <2>1, FS_CardinalityType
  <2>3. \A k \in 1 .. size : Nth(seqs, k) \in seqs
    BY <2>1, <2>2, NthEnumerates
  <2>4. PICK kept : kept = [k \in 1 .. size |-> H!RowOf(list, Nth(seqs, k))]
    OBVIOUS
  <2>5. H!Stored(list) = kept
    BY <1>3, <1>6, <2>2, <2>4, SameSelection DEF H!Stored
  <2>6. \A k \in 1 .. size : \E i \in 1 .. n : kept[k] = list[i]
    BY <1>4, <2>3, <2>4
  <2>7. kept \in Seq(Row) /\ DOMAIN kept = 1 .. size /\ Len(kept) = size
    BY <1>2, <2>4, <2>6
  <2>8. ASSUME SeqNumbered(list) PROVE kept = list
    <3>1. PICK z \in Nat : z = 0
      OBVIOUS
    <3>2. seqs = z + 1 .. n /\ z <= n /\ n - z = n /\ \A k \in 1 .. n : z + k = k
      <4>1. seqs = {i : i \in 1 .. n}
        BY <1>2, <1>3, <2>8 DEF SeqNumbered
      <4> QED
        BY <3>1, <4>1
    <3>3. Cardinality(z + 1 .. n) = n - z /\ \A k \in 1 .. n - z : Nth(z + 1 .. n, k) = z + k
      BY <3>2, NthOfInterval
    <3>4. size = n /\ \A k \in 1 .. n : Nth(seqs, k) = k /\ k \in seqs
      BY <2>2, <3>2, <3>3
    <3>5. \A k \in 1 .. n : H!RowOf(list, k) = list[k]
      <4> SUFFICES ASSUME NEW k \in 1 .. n PROVE H!RowOf(list, k) = list[k]
        OBVIOUS
      <4>1. PICK i \in 1 .. n : list[i].seq = k /\ H!RowOf(list, k) = list[i]
        BY <1>4, <3>4
      <4>2. i = k
        BY <1>2, <2>8, <4>1 DEF SeqNumbered
      <4> QED
        BY <4>1, <4>2
    <3>6. \A k \in 1 .. n : kept[k] = list[k]
      BY <2>4, <3>4, <3>5
    <3> QED
      BY <1>1, <2>7, <3>4, <3>6, SeqEqual
  <2> QED
    BY <1>2, <1>6, <2>5, <2>6, <2>7, <2>8
<1> QED
  BY <1>5, <1>6

-------------------------------------------------------------------------------
(* What appending and picking leave sound *)

Sound(list, n) == SeqNumbered(list) /\ Ordered(list) /\ Until(list, n)

LEMMA SoundLasts ==
  ASSUME NEW list \in Seq(Row), NEW n \in Nat, NEW m \in Nat, n <= m, Sound(list, n)
  PROVE  Sound(list, m)
<1>1. \A i \in DOMAIN list : IsMessage(list[i]) => Time(Heard(list[i])) \in Nat
  BY RowsHeard
<1>2. Until(list, m)
  <2> SUFFICES ASSUME NEW i \in DOMAIN list, IsMessage(list[i]) PROVE Time(Heard(list[i])) <= m
    BY DEF Until
  <2>1. PICK t : t = Time(Heard(list[i]))
    OBVIOUS
  <2>2. t \in Nat /\ t <= n
    BY <1>1, <2>1 DEF Sound, Until
  <2> QED
    BY <2>1, <2>2
<1> QED
  BY <1>2 DEF Sound

Fits(list, e, n) ==
  /\ e.seq = Len(list) + 1
  /\ IsMessage(e) =>
       /\ Time(Heard(e)) <= n
       /\ \A i \in DOMAIN list : IsMessage(list[i]) => Time(Heard(list[i])) < Time(Heard(e))

LEMMA AppendKeeps ==
  ASSUME NEW list \in Seq(Row), NEW e \in Row
  PROVE  /\ Append(list, e) \in Seq(Row)
         /\ Heards(list) \subseteq Heards(Append(list, e))
         /\ IsMessage(e) => Heard(e) \in Heards(Append(list, e))
         /\ \A n \in Nat : Sound(list, n) /\ Fits(list, e, n) => Sound(Append(list, e), n)
<1>1. PICK size \in Nat : size = Len(list)
  BY LenProperties
<1>2. PICK more : more = Append(list, e)
  OBVIOUS
<1>3. /\ more \in Seq(Row) /\ Len(more) = size + 1 /\ more[size + 1] = e
      /\ \A i \in 1 .. size : more[i] = list[i]
  BY <1>1, <1>2, AppendProperties
<1>4. DOMAIN list = 1 .. size /\ DOMAIN more = 1 .. size + 1
  BY <1>1, <1>3, LenProperties
<1>5. \A i \in 1 .. size + 1 : i \in 1 .. size \/ i = size + 1
  OBVIOUS
<1>6. 1 .. size \subseteq 1 .. size + 1 /\ size + 1 \in 1 .. size + 1
  OBVIOUS
<1>7. Heards(list) \subseteq Heards(more)
  BY <1>3, <1>4, <1>6 DEF Heards
<1>8. IsMessage(e) => Heard(e) \in Heards(more)
  BY <1>3, <1>4, <1>6 DEF Heards
<1>9. ASSUME NEW n \in Nat, Sound(list, n), Fits(list, e, n)
      PROVE  Sound(more, n)
  <2>1. SeqNumbered(more)
    BY <1>1, <1>3, <1>4, <1>5, <1>9 DEF Sound, SeqNumbered, Fits
  <2>2. Until(more, n)
    BY <1>3, <1>4, <1>5, <1>9 DEF Sound, Until, Fits
  <2>3. Ordered(more)
    <3> SUFFICES ASSUME NEW i \in 1 .. size + 1, NEW j \in 1 .. size + 1, i < j,
                        IsMessage(more[i]), IsMessage(more[j])
                 PROVE  Time(Heard(more[i])) < Time(Heard(more[j]))
      BY <1>4 DEF Ordered
    <3>1. i \in 1 .. size
      OBVIOUS
    <3>2. CASE j \in 1 .. size
      BY <1>3, <1>4, <1>9, <3>1, <3>2 DEF Sound, Ordered
    <3>3. CASE j = size + 1
      BY <1>3, <1>4, <1>9, <3>1, <3>3 DEF Fits
    <3> QED
      BY <1>5, <3>2, <3>3
  <2> QED
    BY <2>1, <2>2, <2>3 DEF Sound
<1> QED
  BY <1>2, <1>3, <1>7, <1>8, <1>9

\* The entries up to a seq are the first ones.
LEMMA HeadReads ==
  ASSUME NEW list \in Seq(Row), NEW n \in Nat, Sound(list, n), NEW from \in 0 .. Len(list)
  PROVE  LET head == ElementsAt(list, {i \in DOMAIN list : list[i].seq <= from})
         IN head \in Seq(Row) /\ Sound(head, n)
<1>1. PICK size \in Nat, f \in Nat : size = Len(list) /\ f = from /\ f <= size
  BY LenProperties
<1>2. DOMAIN list = 1 .. size
  BY <1>1, LenProperties
<1>3. PICK z \in Nat : z = 0
  OBVIOUS
<1>4. PICK head : head = ElementsAt(list, z + 1 .. f)
  OBVIOUS
<1>5. {i \in DOMAIN list : list[i].seq <= from} = z + 1 .. f
  <2>1. \A i \in 1 .. size : list[i].seq = i
    BY <1>2 DEF Sound, SeqNumbered
  <2>2. {i \in DOMAIN list : list[i].seq <= from} = {i \in 1 .. size : i <= f}
    BY <1>1, <1>2, <2>1
  <2> QED
    BY <1>1, <1>3, <2>2
<1>6. head \in Seq(Row) /\ Len(head) = f /\ \A k \in 1 .. f : head[k] = list[k]
  <2>1. z <= f /\ f <= Len(list) /\ z \in Nat /\ f \in Nat
    BY <1>1, <1>3
  <2>2. /\ ElementsAt(list, z + 1 .. f) \in Seq(Row) /\ Len(ElementsAt(list, z + 1 .. f)) = f - z
        /\ \A k \in 1 .. f - z : ElementsAt(list, z + 1 .. f)[k] = list[z + k]
    BY <2>1, ElementsAtInterval, ZenonT(30)
  <2>3. PICK d : d = f - z
    OBVIOUS
  <2>4. head \in Seq(Row) /\ Len(head) = d /\ \A k \in 1 .. d : head[k] = list[z + k]
    BY <1>4, <2>2, <2>3, Zenon
  <2>5. d = f /\ \A k \in 1 .. f : z + k = k
    BY <1>3, <2>3
  <2> QED
    BY <2>4, <2>5
<1>7. DOMAIN head = 1 .. f /\ 1 .. f \subseteq 1 .. size
  BY <1>1, <1>6, LenProperties
<1>8. SeqNumbered(head)
  BY <1>2, <1>6, <1>7 DEF Sound, SeqNumbered
<1>9. Until(head, n)
  BY <1>2, <1>6, <1>7 DEF Sound, Until
<1>10. Ordered(head)
  BY <1>2, <1>6, <1>7 DEF Sound, Ordered
<1> QED
  BY <1>4, <1>5, <1>6, <1>8, <1>9, <1>10 DEF Sound

LEMMA Prefixed ==
  ASSUME NEW S, NEW s \in Seq(S), NEW t \in Seq(S), Len(s) <= Len(t),
         \A i \in 1 .. Len(s) : s[i] = t[i]
  PROVE  H!IsPrefix(s, t)
<1>1. SubSeq(s, 1, Len(s)) = SubSeq(t, 1, Len(s))
  OBVIOUS
<1> QED
  BY <1>1 DEF H!IsPrefix

-------------------------------------------------------------------------------
(* What a run adds *)

\* The messages still to be written come after every entry, in their order.
Pending(list, messages, next, n) ==
  /\ \A k \in DOMAIN messages : Time(messages[k]) <= n
  /\ \A k, l \in DOMAIN messages : k < l => Time(messages[k]) < Time(messages[l])
  /\ \A i \in DOMAIN list, k \in DOMAIN messages :
       IsMessage(list[i]) /\ next < k => Time(Heard(list[i])) < Time(messages[k])

\* The others have been.
Saved(list, messages, next) == \A k \in DOMAIN messages : k <= next => messages[k] \in Heards(list)

LEMMA NewsProperties ==
  ASSUME NEW n \in Nat, NEW news \in H!News(n + 1)
  PROVE  /\ news \in Seq(TextMessage)
         /\ \A k \in DOMAIN news : Time(news[k]) = n + k
<1>1. PICK q \in Nat : q = n + 1
  OBVIOUS
<1>2. PICK one, two, call, result, last :
        /\ one = H!User(q) /\ two = H!Assistant(q + 1, << >>) /\ call = H!Assistant(q + 1, << q >>)
        /\ result = H!ToolResult(q + 2, q) /\ last = H!Assistant(q + 3, << >>)
  OBVIOUS
<1>3. news \in {<< one >>, << one, two >>, << one, call, result, last >>}
  BY <1>1, <1>2 DEF H!News
<1>4. {one, two, call, result, last} \subseteq TextMessage
  <2>1. << >> \in Seq(Nat) /\ << q >> \in Seq(Nat)
    OBVIOUS
  <2>2. q + 1 \in Nat /\ q + 2 \in Nat /\ q + 3 \in Nat
    OBVIOUS
  <2> QED
    BY <1>2, <2>1, <2>2 DEF H!User, H!Assistant, H!ToolResult, TextMessage
<1>5. /\ Time(one) = q /\ Time(two) = q + 1 /\ Time(call) = q + 1
      /\ Time(result) = q + 2 /\ Time(last) = q + 3
  BY <1>2 DEF H!User, H!Assistant, H!ToolResult, Time
<1>6. q = n + 1 /\ q + 1 = n + 2 /\ q + 2 = n + 3 /\ q + 3 = n + 4
  BY <1>1
<1>7. CASE news = << one >>
  BY <1>4, <1>5, <1>6, <1>7
<1>8. CASE news = << one, two >>
  BY <1>4, <1>5, <1>6, <1>8
<1>9. CASE news = << one, call, result, last >>
  <2>1. DOMAIN news = 1 .. 4
    BY <1>9
  <2>2. news[1] = one /\ news[2] = call /\ news[3] = result /\ news[4] = last
    BY <1>9
  <2>3. \A k \in 1 .. 4 : k = 1 \/ k = 2 \/ k = 3 \/ k = 4
    OBVIOUS
  <2> QED
    BY <1>4, <1>5, <1>6, <1>9, <2>1, <2>2, <2>3
<1> QED
  BY <1>3, <1>7, <1>8, <1>9

LEMMA RunAdds ==
  ASSUME NEW list \in Seq(Row), NEW n \in Nat, NEW news \in H!News(n + 1)
  PROVE  /\ Len(news) \in Nat /\ n + Len(news) \in Nat
         /\ H!Transcript(list) \o news \in Seq(TextMessage)
         /\ Sound(list, n) => Pending(list, H!Transcript(list) \o news, Len(list), n + Len(news))
         /\ (\A i \in DOMAIN list : IsMessage(list[i])) =>
              Saved(list, H!Transcript(list) \o news, Len(list))
<1>1. news \in Seq(TextMessage) /\ \A k \in DOMAIN news : Time(news[k]) = n + k
  BY NewsProperties
<1>2. PICK size \in Nat, a \in Nat, b \in Nat :
        size = Len(list) /\ a = Len(H!Transcript(list)) /\ b = Len(news)
  BY <1>1, TranscriptReads, LenProperties
<1>3. PICK read, all : read = H!Transcript(list) /\ all = read \o news
  OBVIOUS
<1>4. /\ read \in Seq(TextMessage) /\ a <= size /\ ToSet(read) = Heards(list)
      /\ Ordered(list) => \A k, l \in 1 .. a : k < l => Time(read[k]) < Time(read[l])
      /\ (\A i \in DOMAIN list : IsMessage(list[i])) =>
           a = size /\ \A k \in 1 .. size : read[k] = Heard(list[k])
  BY <1>2, <1>3, TranscriptReads
<1>5. DOMAIN list = 1 .. size /\ DOMAIN read = 1 .. a /\ DOMAIN news = 1 .. b
      /\ Len(read) = a
  BY <1>1, <1>2, <1>3, <1>4, LenProperties
<1>6. /\ all \in Seq(TextMessage) /\ DOMAIN all = 1 .. a + b
      /\ \A k \in 1 .. a + b : all[k] = IF k <= a THEN read[k] ELSE news[k - a]
  <2>1. /\ read \o news \in Seq(TextMessage) /\ Len(read \o news) = Len(read) + Len(news)
        /\ \A k \in 1 .. Len(read) + Len(news) :
             (read \o news)[k] = IF k <= Len(read) THEN read[k] ELSE news[k - Len(read)]
    BY <1>1, <1>4, ConcatProperties
  <2>2. Len(read \o news) = a + b
    BY <1>2, <1>5, <2>1
  <2>3. DOMAIN (read \o news) = 1 .. Len(read \o news)
    BY <2>1, LenProperties
  <2> QED
    BY <1>2, <1>3, <1>5, <2>1, <2>2, <2>3
<1>7. \A k \in 1 .. a : k \in 1 .. a + b /\ all[k] = read[k]
  <2>1. \A k \in 1 .. a : k \in 1 .. a + b /\ k <= a
    BY <1>2
  <2> QED
    BY <1>6, <2>1
<1>8. \A k \in a + 1 .. a + b : Time(all[k]) = n + (k - a)
  <2> SUFFICES ASSUME NEW k \in a + 1 .. a + b PROVE Time(all[k]) = n + (k - a)
    OBVIOUS
  <2>1. k \in 1 .. a + b /\ ~ (k <= a) /\ k - a \in 1 .. b
    BY <1>2
  <2> QED
    BY <1>1, <1>5, <1>6, <2>1
<1>9. \A k \in 1 .. a + b : k \in 1 .. a \/ k \in a + 1 .. a + b
  BY <1>2
<1>10. ASSUME Sound(list, n) PROVE Pending(list, all, size, n + b)
  <2>1. ASSUME NEW k \in 1 .. a PROVE Time(all[k]) \in Nat /\ Time(all[k]) <= n
    <3>1. read[k] \in Heards(list)
      BY <1>4, <1>5 DEF ToSet
    <3>2. PICK i \in DOMAIN list : IsMessage(list[i]) /\ read[k] = Heard(list[i])
      BY <3>1 DEF Heards
    <3>3. Time(read[k]) \in Nat /\ Time(read[k]) <= n
      BY <1>10, <3>2, RowsHeard DEF Sound, Until
    <3> QED
      BY <1>7, <3>3
  <2>2. ASSUME NEW k \in 1 .. a + b PROVE Time(all[k]) <= n + b
    <3>1. CASE k \in 1 .. a
      <4>1. PICK t : t = Time(all[k])
        OBVIOUS
      <4>2. t \in Nat /\ t <= n
        BY <2>1, <3>1, <4>1
      <4> QED
        BY <1>2, <4>1, <4>2
    <3>2. CASE k \in a + 1 .. a + b
      <4>1. n + (k - a) <= n + b
        BY <1>2, <3>2
      <4> QED
        BY <1>8, <3>2, <4>1
    <3> QED
      BY <1>9, <3>1, <3>2
  <2>3. ASSUME NEW k \in 1 .. a + b, NEW l \in 1 .. a + b, k < l PROVE Time(all[k]) < Time(all[l])
    <3>1. CASE l \in 1 .. a
      <4>1. k \in 1 .. a
        BY <1>2, <2>3, <3>1
      <4> QED
        BY <1>4, <1>7, <1>10, <2>3, <3>1, <4>1 DEF Sound
    <3>2. CASE l \in a + 1 .. a + b /\ k \in 1 .. a
      <4>1. PICK t : t = Time(all[k])
        OBVIOUS
      <4>2. t \in Nat /\ t <= n
        BY <2>1, <3>2, <4>1
      <4>3. t < n + (l - a)
        BY <1>2, <3>2, <4>2
      <4> QED
        BY <1>8, <3>2, <4>1, <4>3
    <3>3. CASE l \in a + 1 .. a + b /\ k \in a + 1 .. a + b
      <4>1. n + (k - a) < n + (l - a)
        BY <1>2, <2>3, <3>3
      <4> QED
        BY <1>8, <3>3, <4>1
    <3> QED
      BY <1>9, <3>1, <3>2, <3>3
  <2>4. ASSUME NEW i \in DOMAIN list, NEW k \in 1 .. a + b, IsMessage(list[i]), size < k
        PROVE  Time(Heard(list[i])) < Time(all[k])
    <3>1. k \in a + 1 .. a + b
      BY <1>2, <1>4, <2>4
    <3>2. PICK t : t = Time(Heard(list[i]))
      OBVIOUS
    <3>3. t \in Nat /\ t <= n
      BY <1>10, <2>4, <3>2, RowsHeard DEF Sound, Until
    <3>4. t < n + (k - a)
      BY <1>2, <3>1, <3>3
    <3> QED
      BY <1>8, <3>1, <3>2, <3>4
  <2> QED
    BY <1>6, <2>2, <2>3, <2>4 DEF Pending
<1>11. ASSUME \A i \in DOMAIN list : IsMessage(list[i]) PROVE Saved(list, all, size)
  <2> SUFFICES ASSUME NEW k \in DOMAIN all, k <= size PROVE all[k] \in Heards(list)
    BY DEF Saved
  <2>1. k \in 1 .. a
    BY <1>2, <1>4, <1>6, <1>11
  <2> QED
    BY <1>4, <1>5, <1>7, <2>1 DEF ToSet
<1> QED
  BY <1>2, <1>3, <1>6, <1>10, <1>11

LEMMA MessageStored ==
  ASSUME NEW list \in Seq(Row), NEW messages \in Seq(TextMessage), Len(list) < Len(messages)
  PROVE  LET e == H!Entry(Len(list) + 1, Len(list), "message", H!ToWire(messages[Len(list) + 1]))
             more == Append(list, e)
         IN /\ e \in Row /\ IsMessage(e) /\ more \in Seq(Row) /\ Len(more) = Len(list) + 1
            /\ \A n \in Nat : Sound(list, n) /\ Pending(list, messages, Len(list), n) =>
                 Sound(more, n) /\ Pending(more, messages, Len(more), n)
            /\ Saved(list, messages, Len(list)) => Saved(more, messages, Len(more))
<1>1. PICK size \in Nat, top \in Nat : size = Len(list) /\ top = Len(messages)
  BY LenProperties
<1>2. size < top /\ size + 1 \in 1 .. top /\ DOMAIN messages = 1 .. top /\ DOMAIN list = 1 .. size
  BY <1>1, LenProperties
<1>3. PICK m \in TextMessage : m = messages[size + 1]
  BY <1>2
<1>4. PICK e, more : e = H!Entry(size + 1, size, "message", H!ToWire(m)) /\ more = Append(list, e)
  OBVIOUS
<1>5. e \in Row /\ IsMessage(e) /\ e.seq = size + 1 /\ e.wire = H!ToWire(m)
  BY <1>4 DEF H!Entry, Row, IsMessage
<1>6. Heard(e) = m
  BY <1>5, RoundTrip DEF Heard
<1>7. /\ more \in Seq(Row) /\ Len(more) = size + 1 /\ more[size + 1] = e /\ DOMAIN more = 1 .. size + 1
      /\ \A i \in 1 .. size : more[i] = list[i]
  BY <1>1, <1>4, <1>5, AppendProperties, LenProperties
<1>8. ASSUME NEW n \in Nat, Sound(list, n), Pending(list, messages, size, n)
      PROVE  Sound(more, n) /\ Pending(more, messages, size + 1, n)
  <2>1. Fits(list, e, n)
    <3>1. size < size + 1
      BY <1>1
    <3> QED
      BY <1>1, <1>2, <1>3, <1>5, <1>6, <1>8, <3>1 DEF Fits, Pending
  <2>2. Sound(more, n)
    BY <1>4, <1>5, <1>8, <2>1, AppendKeeps
  <2>3. ASSUME NEW i \in 1 .. size + 1, NEW k \in 1 .. top, IsMessage(more[i]), size + 1 < k
        PROVE  Time(Heard(more[i])) < Time(messages[k])
    <3>1. CASE i \in 1 .. size
      <4>1. size < k
        BY <2>3
      <4> QED
        BY <1>2, <1>7, <1>8, <2>3, <3>1, <4>1 DEF Pending
    <3>2. CASE i = size + 1
      BY <1>2, <1>3, <1>6, <1>7, <1>8, <2>3, <3>2 DEF Pending
    <3> QED
      BY <3>1, <3>2
  <2> QED
    BY <1>2, <1>7, <1>8, <2>2, <2>3 DEF Pending
<1>9. ASSUME Saved(list, messages, size) PROVE Saved(more, messages, size + 1)
  <2> SUFFICES ASSUME NEW k \in 1 .. top, k <= size + 1 PROVE messages[k] \in Heards(more)
    BY <1>2 DEF Saved
  <2>1. Heards(list) \subseteq Heards(more) /\ m \in Heards(more)
    BY <1>4, <1>5, <1>6, AppendKeeps
  <2>2. CASE k <= size
    BY <1>2, <1>9, <2>1, <2>2 DEF Saved
  <2>3. CASE k = size + 1
    BY <1>3, <2>1, <2>3
  <2> QED
    BY <2>2, <2>3
<1> QED
  BY <1>1, <1>3, <1>4, <1>5, <1>7, <1>8, <1>9

-------------------------------------------------------------------------------
(* The invariant *)

Listed(kinds, s, list) == \A i \in DOMAIN list : IsMessage(list[i]) \/ << s, list[i].kind >> \in kinds
Unsummarized(s) == << s, "branch_summary" >> \notin mixed
Plain(s) == Unsummarized(s) /\ << s, "compaction" >> \notin mixed

Operation == [at : {"idle", "running", "persisting", "summarizing"}, session : H!Sessions,
              entries : Seq(Row), next : Nat, summary : Seq(Row)]
Counters == [news : Nat, compactions : Nat, crashes : Nat]

SessionTyped ==
  /\ backend \in {"none", "jsonl", "sqlite"}
  /\ disk \in [H!Sessions -> Seq(Row)] /\ agents \in [H!Sessions -> Seq(TextMessage)]
  /\ told \in [H!Sessions -> SUBSET TextMessage] /\ op \in Operation /\ used \in Counters

\* What is on disk is numbered and in order while no branch summary may share a
\* seq with it, and holds all that was promised while no entry is context.
Kept(s) ==
  /\ Listed(mixed, s, disk[s])
  /\ Unsummarized(s) => Sound(disk[s], used.news)
  /\ Plain(s) => told[s] \subseteq Heards(disk[s])
DisksKept == Unsummarized(Main) /\ \A s \in H!Sessions : Kept(s)

\* An operation's handle holds what is on disk, and persistTranscript() has written
\* the messages before its index.
OpKept ==
  op.at # "idle" =>
    /\ backend # "none"
    /\ Listed(mixed, op.session, op.entries) /\ Listed(mixed, op.session, op.summary)
    /\ backend = "jsonl" \/ Unsummarized(op.session) => op.entries = disk[op.session]
    /\ op.at = "summarizing" => ~ Unsummarized(op.session)
    /\ op.at = "running" => agents[op.session] = H!Transcript(op.entries)
    /\ op.at = "persisting" =>
         /\ op.next = Len(op.entries)
         /\ Unsummarized(op.session) => Pending(op.entries, agents[op.session], op.next, used.news)
         /\ Plain(op.session) => Saved(op.entries, agents[op.session], op.next)

SessionInv == SessionTyped /\ DisksKept /\ OpKept

Grown ==
  \A s \in H!Sessions :
    backend = "jsonl" \/ ~ H!Given(s, "branch_summary") => H!IsPrefix(disk[s], disk'[s])

LEMMA IdleTyped ==
  H!Idle \in Operation /\ H!Idle.at = "idle" /\ H!Idle.summary = << >> /\ Main \in H!Sessions
BY DEF H!Idle, Operation, H!Sessions

LEMMA StoredListed ==
  ASSUME NEW list \in Seq(Row), NEW kinds, NEW s, Listed(kinds, s, list)
  PROVE  Listed(kinds, s, H!Stored(list))
BY StoredKeeps DEF Listed

LEMMA KeptLasts ==
  ASSUME SessionTyped, SessionTyped', NEW s \in H!Sessions, Kept(s),
         disk'[s] = disk[s], told'[s] = told[s], mixed \subseteq mixed', used.news <= used'.news
  PROVE  Kept(s)'
<1>1. Listed(mixed', s, disk'[s])
  BY DEF Kept, Listed
<1>2. ASSUME Unsummarized(s)' PROVE Sound(disk'[s], used'.news)
  <2>1. disk[s] \in Seq(Row) /\ used.news \in Nat /\ used'.news \in Nat
    BY DEF SessionTyped, Counters
  <2>2. Unsummarized(s)
    BY <1>2 DEF Unsummarized
  <2>3. Sound(disk[s], used.news)
    BY <2>2 DEF Kept
  <2> QED
    BY <2>1, <2>3, SoundLasts
<1>3. ASSUME Plain(s)' PROVE told'[s] \subseteq Heards(disk'[s])
  <2>1. Plain(s)
    BY <1>3 DEF Plain, Unsummarized
  <2> QED
    BY <2>1 DEF Kept
<1> QED
  BY <1>1, <1>2, <1>3 DEF Kept

LEMMA DisksStep ==
  ASSUME SessionTyped, SessionTyped', DisksKept, NEW x \in H!Sessions,
         mixed \subseteq mixed', << Main, "branch_summary" >> \notin mixed', used.news <= used'.news,
         \A s \in H!Sessions : s # x => disk'[s] = disk[s] /\ told'[s] = told[s],
         Kept(x)'
  PROVE  DisksKept'
<1>1. \A s \in H!Sessions : s # x => Kept(s)'
  BY KeptLasts DEF DisksKept
<1>2. Unsummarized(Main)'
  BY DEF Unsummarized
<1> QED
  BY <1>1, <1>2 DEF DisksKept

LEMMA GrownAt ==
  ASSUME SessionTyped, SessionTyped', NEW x \in H!Sessions,
         \A s \in H!Sessions : s # x => disk'[s] = disk[s],
         backend = "jsonl" \/ Unsummarized(x) => H!IsPrefix(disk[x], disk'[x])
  PROVE  Grown
<1>1. ASSUME NEW s \in H!Sessions, disk'[s] = disk[s] PROVE H!IsPrefix(disk[s], disk'[s])
  <2>1. disk[s] \in Seq(Row) /\ Len(disk[s]) <= Len(disk[s])
    BY LenProperties DEF SessionTyped
  <2> QED
    BY <1>1, <2>1, Prefixed
<1> QED
  BY <1>1 DEF Grown, Unsummarized, H!Given

\* A step that leaves disk, promises and kinds alone.
LEMMA DisksRest ==
  ASSUME SessionTyped, SessionTyped', DisksKept, UNCHANGED << disk, told, mixed >>,
         used.news <= used'.news
  PROVE  DisksKept' /\ Grown
<1>1. Main \in H!Sessions
  BY IdleTyped
<1>2. Kept(Main)'
  BY <1>1, KeptLasts DEF DisksKept
<1>3. DisksKept'
  BY <1>1, <1>2, DisksStep DEF DisksKept, Unsummarized
<1>4. H!IsPrefix(disk[Main], disk'[Main])
  BY <1>1, LenProperties, Prefixed DEF SessionTyped
<1> QED
  BY <1>1, <1>3, <1>4, GrownAt

-------------------------------------------------------------------------------
(* The actions *)

LEMMA ChooseBackendKeeps ==
  ASSUME SessionInv, NEW b \in {"jsonl", "sqlite"}, H!ChooseBackend(b)
  PROVE  SessionInv' /\ Grown
<1>1. backend = "none" /\ backend' = b /\ UNCHANGED << disk, agents, op, told, mixed, used >>
  BY DEF H!ChooseBackend
<1>2. SessionTyped'
  BY <1>1 DEF SessionInv, SessionTyped
<1>3. op.at = "idle"
  BY <1>1 DEF SessionInv, OpKept
<1>4. used.news <= used'.news
  BY <1>1 DEF SessionInv, SessionTyped, Counters
<1>5. DisksKept' /\ Grown
  BY <1>1, <1>2, <1>4, DisksRest DEF SessionInv
<1>6. OpKept'
  BY <1>1, <1>3 DEF OpKept
<1> QED
  BY <1>2, <1>5, <1>6 DEF SessionInv

LEMMA RunKeeps ==
  ASSUME SessionInv, NEW s \in H!Sessions, H!Run(s)
  PROVE  SessionInv' /\ Grown
<1>1. /\ backend # "none" /\ UNCHANGED << backend, disk, told, mixed, used >>
      /\ op' = [H!Idle EXCEPT !.at = "running", !.session = s, !.entries = disk[s]]
      /\ agents' = [agents EXCEPT ![s] = H!Transcript(disk[s])]
  BY DEF H!Run
<1>2. disk[s] \in Seq(Row) /\ H!Transcript(disk[s]) \in Seq(TextMessage)
  BY TranscriptReads DEF SessionInv, SessionTyped
<1>3. /\ op' \in Operation /\ op'.at = "running" /\ op'.session = s /\ op'.entries = disk[s]
      /\ op'.summary = << >>
  <2>1. PICK idle \in Operation : idle = H!Idle /\ idle.summary = << >>
    BY IdleTyped
  <2>2. op' = [idle EXCEPT !.at = "running", !.session = s, !.entries = disk[s]]
    BY <1>1, <2>1
  <2> QED
    BY <1>2, <2>1, <2>2 DEF Operation
<1>4. SessionTyped' /\ agents'[s] = H!Transcript(disk[s])
  BY <1>1, <1>2, <1>3 DEF SessionInv, SessionTyped
<1>5. used.news <= used'.news
  BY <1>1 DEF SessionInv, SessionTyped, Counters
<1>6. DisksKept' /\ Grown
  BY <1>1, <1>4, <1>5, DisksRest DEF SessionInv
<1>7. Listed(mixed, s, disk[s]) /\ Listed(mixed, s, << >>)
  BY DEF SessionInv, DisksKept, Kept, Listed
<1>8. OpKept'
  BY <1>1, <1>3, <1>4, <1>7 DEF OpKept
<1> QED
  BY <1>4, <1>6, <1>8 DEF SessionInv

\* The agent's part of a run: the transcript grows and nothing is written.
LEMMA AgentAdds ==
  ASSUME SessionInv, NEW news \in H!News(used.news + 1), NEW at, NEW next,
         H!AgentEnds(news, at, next),
         op' \in Operation
  PROVE  /\ SessionTyped' /\ DisksKept' /\ Grown
         /\ agents'[op.session] = H!Transcript(op.entries) \o news
         /\ used'.news = used.news + Len(news)
         /\ UNCHANGED << backend, disk, told, mixed >>
<1>1. /\ op.at = "running" /\ UNCHANGED << backend, disk, told, mixed >>
      /\ agents' = [agents EXCEPT ![op.session] = @ \o news]
      /\ used' = [used EXCEPT !.news = @ + Len(news)]
  BY DEF H!AgentEnds
<1>2. op.session \in H!Sessions /\ op.entries \in Seq(Row) /\ used.news \in Nat
  BY DEF SessionInv, SessionTyped, Operation, Counters
<1>3. agents[op.session] = H!Transcript(op.entries)
  BY <1>1 DEF SessionInv, OpKept
<1>4. /\ Len(news) \in Nat /\ used.news + Len(news) \in Nat
      /\ H!Transcript(op.entries) \o news \in Seq(TextMessage)
  BY <1>2, RunAdds
<1>5. agents' \in [H!Sessions -> Seq(TextMessage)] /\ agents'[op.session] = H!Transcript(op.entries) \o news
  BY <1>1, <1>2, <1>3, <1>4 DEF SessionInv, SessionTyped
<1>6. used' \in Counters /\ used'.news = used.news + Len(news)
  BY <1>1, <1>4 DEF SessionInv, SessionTyped, Counters
<1>7. SessionTyped'
  BY <1>1, <1>5, <1>6 DEF SessionInv, SessionTyped
<1>8. used.news <= used'.news
  BY <1>2, <1>4, <1>6
<1>9. DisksKept' /\ Grown
  BY <1>1, <1>7, <1>8, DisksRest DEF SessionInv
<1> QED
  BY <1>1, <1>5, <1>6, <1>7, <1>9

LEMMA AgentThrowsKeeps ==
  ASSUME SessionInv, NEW news \in H!News(used.news + 1), H!AgentThrows(news)
  PROVE  SessionInv' /\ Grown
<1>1. op' = H!Idle /\ H!AgentEnds(news, "idle", 0)
  BY DEF H!AgentThrows, H!AgentEnds
<1>2. op' \in Operation /\ op'.at = "idle"
  BY <1>1, IdleTyped
<1>3. SessionTyped' /\ DisksKept' /\ Grown
  BY <1>1, <1>2, AgentAdds
<1> QED
  BY <1>2, <1>3 DEF SessionInv, OpKept

LEMMA AgentReturnsKeeps ==
  ASSUME SessionInv, NEW news \in H!News(used.news + 1), H!AgentReturns(news)
  PROVE  SessionInv' /\ Grown
<1>1. /\ op.at = "running" /\ op' = [op EXCEPT !.at = "persisting", !.next = Len(op.entries)]
      /\ H!AgentEnds(news, "persisting", Len(op.entries))
  BY DEF H!AgentReturns, H!AgentEnds
<1>2. op.session \in H!Sessions /\ op.entries \in Seq(Row) /\ used.news \in Nat
  BY DEF SessionInv, SessionTyped, Operation, Counters
<1>3. /\ op' \in Operation /\ op'.at = "persisting" /\ op'.session = op.session
      /\ op'.entries = op.entries /\ op'.next = Len(op.entries) /\ op'.summary = op.summary
  BY <1>1, <1>2, LenProperties DEF SessionInv, SessionTyped, Operation
<1>4. /\ SessionTyped' /\ DisksKept' /\ Grown
      /\ agents'[op.session] = H!Transcript(op.entries) \o news
      /\ used'.news = used.news + Len(news)
      /\ UNCHANGED << backend, disk, told, mixed >>
  BY <1>1, <1>3, AgentAdds
<1>5. /\ backend # "none"
      /\ Listed(mixed, op.session, op.entries) /\ Listed(mixed, op.session, op.summary)
      /\ backend = "jsonl" \/ Unsummarized(op.session) => op.entries = disk[op.session]
  BY <1>1 DEF SessionInv, OpKept
<1>6. ASSUME Unsummarized(op.session)
      PROVE  Pending(op.entries, agents'[op.session], Len(op.entries), used'.news)
  <2>1. Sound(op.entries, used.news)
    BY <1>2, <1>5, <1>6 DEF SessionInv, DisksKept, Kept
  <2> QED
    BY <1>2, <1>4, <2>1, RunAdds
<1>7. ASSUME Plain(op.session) PROVE Saved(op.entries, agents'[op.session], Len(op.entries))
  <2>1. ASSUME NEW i \in DOMAIN op.entries PROVE IsMessage(op.entries[i])
    <3>1. op.entries[i] \in Row
      BY <1>2
    <3>2. op.entries[i].kind \in {"message", "compaction", "branch_summary"}
      BY <3>1 DEF Row
    <3> QED
      BY <1>5, <1>7, <3>2 DEF Listed, Plain, Unsummarized, IsMessage
  <2> QED
    BY <1>2, <1>4, <2>1, RunAdds
<1>8. OpKept'
  <2>1. PICK x, list, summary : x = op.session /\ list = op.entries /\ summary = op.summary
    OBVIOUS
  <2>2. Listed(mixed, x, list) /\ Listed(mixed, x, summary)
    BY <1>5, <2>1
  <2>3. backend = "jsonl" \/ << x, "branch_summary" >> \notin mixed => list = disk[x]
    BY <1>5, <2>1 DEF Unsummarized
  <2>4. << x, "branch_summary" >> \notin mixed => Pending(list, agents'[x], Len(list), used'.news)
    BY <1>6, <2>1 DEF Unsummarized
  <2>5. << x, "branch_summary" >> \notin mixed /\ << x, "compaction" >> \notin mixed =>
          Saved(list, agents'[x], Len(list))
    BY <1>7, <2>1 DEF Plain, Unsummarized
  <2>6. op'.session = x /\ op'.entries = list /\ op'.next = Len(list) /\ op'.summary = summary
    BY <1>3, <2>1
  <2> QED
    BY <1>3, <1>4, <1>5, <2>2, <2>3, <2>4, <2>5, <2>6 DEF OpKept, Unsummarized, Plain
<1> QED
  BY <1>4, <1>8 DEF SessionInv

LEMMA CrashKeeps ==
  ASSUME SessionInv, H!Crash
  PROVE  SessionInv' /\ Grown
<1>1. /\ op' = H!Idle /\ agents' = [s \in H!Sessions |-> << >>]
      /\ used' = [used EXCEPT !.crashes = @ + 1] /\ UNCHANGED << backend, disk, told, mixed >>
  BY DEF H!Crash
<1>2. op' \in Operation /\ op'.at = "idle"
  BY <1>1, IdleTyped
<1>3. used' \in Counters /\ used.news <= used'.news
  BY <1>1 DEF SessionInv, SessionTyped, Counters
<1>4. << >> \in Seq(TextMessage)
  OBVIOUS
<1>5. SessionTyped'
  BY <1>1, <1>2, <1>3, <1>4 DEF SessionInv, SessionTyped
<1>6. DisksKept' /\ Grown
  BY <1>1, <1>3, <1>5, DisksRest DEF SessionInv
<1> QED
  BY <1>2, <1>5, <1>6 DEF SessionInv, OpKept

LEMMA AppendPrefixed ==
  ASSUME NEW list \in Seq(Row), NEW e \in Row
  PROVE  /\ H!IsPrefix(list, Append(list, e))
         /\ \A kinds, s : Listed(kinds, s, list) /\ (IsMessage(e) \/ << s, e.kind >> \in kinds) =>
              Listed(kinds, s, Append(list, e))
<1>1. PICK size \in Nat : size = Len(list)
  BY LenProperties
<1>2. PICK more : more = Append(list, e)
  OBVIOUS
<1>3. /\ more \in Seq(Row) /\ Len(more) = size + 1 /\ more[size + 1] = e /\ DOMAIN more = 1 .. size + 1
      /\ DOMAIN list = 1 .. size /\ \A i \in 1 .. size : more[i] = list[i]
  BY <1>1, <1>2, AppendProperties, LenProperties
<1>4. H!IsPrefix(list, more)
  <2>1. Len(list) <= Len(more)
    BY <1>1, <1>3
  <2> QED
    BY <1>1, <1>3, <2>1, Prefixed
<1>5. \A i \in 1 .. size + 1 : i \in 1 .. size \/ i = size + 1
  OBVIOUS
<1>6. ASSUME NEW kinds, NEW s, Listed(kinds, s, list), IsMessage(e) \/ << s, e.kind >> \in kinds
      PROVE  Listed(kinds, s, more)
  BY <1>3, <1>5, <1>6 DEF Listed
<1> QED
  BY <1>2, <1>4, <1>6

LEMMA PersistNextKeeps ==
  ASSUME SessionInv, H!PersistNext
  PROVE  SessionInv' /\ Grown
<1>1. PICK x, list, messages, size :
        x = op.session /\ list = op.entries /\ messages = agents[x] /\ size = op.next
  OBVIOUS
<1>2. /\ x \in H!Sessions /\ list \in Seq(Row) /\ messages \in Seq(TextMessage) /\ used.news \in Nat
      /\ op.summary \in Seq(Row)
  BY <1>1 DEF SessionInv, SessionTyped, Operation, Counters
<1>3. PICK e, more : /\ e = H!Entry(size + 1, size, "message", H!ToWire(messages[size + 1]))
                     /\ more = Append(list, e)
  OBVIOUS
<1>4. /\ op.at = "persisting" /\ size < Len(messages)
      /\ op' = [op EXCEPT !.entries = more, !.next = size + 1]
      /\ disk' = [disk EXCEPT ![x] = H!Stored(more)]
      /\ UNCHANGED << backend, agents, told, mixed, used >>
  BY <1>1, <1>3 DEF H!PersistNext, H!Write
<1>5. /\ backend # "none" /\ Listed(mixed, x, list) /\ Listed(mixed, x, op.summary)
      /\ backend = "jsonl" \/ Unsummarized(x) => list = disk[x]
      /\ size = Len(list)
      /\ Unsummarized(x) => Pending(list, messages, size, used.news)
      /\ Plain(x) => Saved(list, messages, size)
  BY <1>1, <1>4 DEF SessionInv, OpKept
<1>6. /\ e \in Row /\ IsMessage(e) /\ more \in Seq(Row) /\ Len(more) = size + 1
      /\ \A n \in Nat : Sound(list, n) /\ Pending(list, messages, size, n) =>
           Sound(more, n) /\ Pending(more, messages, size + 1, n)
      /\ Saved(list, messages, size) => Saved(more, messages, size + 1)
  BY <1>2, <1>3, <1>4, <1>5, MessageStored
<1>7. PICK kept : kept = H!Stored(more)
  OBVIOUS
<1>8. /\ kept \in Seq(Row)
      /\ backend = "jsonl" \/ SeqNumbered(more) => kept = more
  BY <1>6, <1>7, StoredKeeps
<1>9. Listed(mixed, x, more) /\ Listed(mixed, x, kept)
  BY <1>2, <1>3, <1>5, <1>6, <1>7, AppendPrefixed, StoredListed
<1>10. Unsummarized(x) =>
         Sound(list, used.news) /\ Sound(more, used.news)
           /\ Pending(more, messages, size + 1, used.news)
  BY <1>2, <1>5, <1>6 DEF SessionInv, DisksKept, Kept
<1>11. backend = "jsonl" \/ Unsummarized(x) => kept = more
  BY <1>8, <1>10 DEF Sound
<1>12. /\ disk' \in [H!Sessions -> Seq(Row)] /\ disk'[x] = kept
       /\ \A s \in H!Sessions : s # x => disk'[s] = disk[s]
  BY <1>2, <1>4, <1>7, <1>8 DEF SessionInv, SessionTyped
<1>13. /\ op' \in Operation /\ op'.at = "persisting" /\ op'.session = x /\ op'.entries = more
       /\ op'.next = size + 1 /\ op'.summary = op.summary
  <2>1. size + 1 \in Nat
    BY <1>2, <1>5, LenProperties
  <2> QED
    BY <1>1, <1>4, <1>6, <2>1 DEF SessionInv, SessionTyped, Operation
<1>14. SessionTyped'
  BY <1>4, <1>12, <1>13 DEF SessionInv, SessionTyped
<1>15. DisksKept'
  <2>1. Plain(x) => told[x] \subseteq Heards(more)
    <3>1. Heards(list) \subseteq Heards(more)
      BY <1>2, <1>3, <1>6, AppendKeeps
    <3> QED
      BY <1>2, <1>5, <3>1 DEF Plain, SessionInv, DisksKept, Kept
  <2>2. Kept(x)'
    BY <1>4, <1>9, <1>10, <1>11, <1>12, <2>1 DEF Kept, Plain, Unsummarized
  <2>3. used.news <= used'.news
    BY <1>2, <1>4
  <2>4. << Main, "branch_summary" >> \notin mixed'
    BY <1>4 DEF SessionInv, DisksKept, Unsummarized
  <2> QED
    BY <1>2, <1>4, <1>12, <1>14, <2>2, <2>3, <2>4, DisksStep DEF SessionInv
<1>16. Grown
  <2>1. H!IsPrefix(list, more)
    BY <1>2, <1>3, <1>6, AppendPrefixed
  <2>2. backend = "jsonl" \/ Unsummarized(x) => H!IsPrefix(disk[x], disk'[x])
    BY <1>5, <1>11, <1>12, <2>1
  <2> QED
    BY <1>2, <1>12, <1>14, <2>2, GrownAt DEF SessionInv
<1>17. OpKept'
  <2>1. PICK summary : summary = op.summary
    OBVIOUS
  <2>2. op'.summary = summary /\ Listed(mixed, x, summary)
    BY <1>5, <1>13, <2>1
  <2>3. agents'[x] = messages /\ used' = used
    BY <1>1, <1>4
  <2>4. backend = "jsonl" \/ Unsummarized(x) => more = disk'[x]
    BY <1>11, <1>12
  <2> QED
    BY <1>4, <1>5, <1>6, <1>9, <1>10, <1>13, <2>2, <2>3, <2>4 DEF OpKept, Unsummarized, Plain
<1> QED
  BY <1>14, <1>15, <1>16, <1>17 DEF SessionInv

LEMMA PersistDoneKeeps ==
  ASSUME SessionInv, H!PersistDone
  PROVE  SessionInv' /\ Grown
<1>1. PICK x, list, messages : x = op.session /\ list = op.entries /\ messages = agents[x]
  OBVIOUS
<1>2. x \in H!Sessions /\ list \in Seq(Row) /\ messages \in Seq(TextMessage) /\ used.news \in Nat
  BY <1>1 DEF SessionInv, SessionTyped, Operation, Counters
<1>3. /\ op.at = "persisting" /\ op.next >= Len(messages) /\ op' = H!Idle
      /\ told' = [told EXCEPT ![x] = @ \cup ToSet(messages)]
      /\ UNCHANGED << backend, disk, agents, mixed, used >>
  BY <1>1, SameSelection DEF H!PersistDone
<1>4. ToSet(messages) \subseteq TextMessage
  BY <1>2, ElementsOf
<1>5. /\ op' \in Operation /\ op'.at = "idle"
      /\ told' \in [H!Sessions -> SUBSET TextMessage] /\ told'[x] = told[x] \cup ToSet(messages)
      /\ \A s \in H!Sessions : s # x => told'[s] = told[s]
  BY <1>2, <1>3, <1>4, IdleTyped DEF SessionInv, SessionTyped
<1>6. SessionTyped'
  BY <1>3, <1>5 DEF SessionInv, SessionTyped
<1>7. Plain(x) => ToSet(messages) \subseteq Heards(disk[x])
  <2> SUFFICES ASSUME Plain(x), NEW k \in DOMAIN messages PROVE messages[k] \in Heards(disk[x])
    BY DEF ToSet
  <2>1. list = disk[x] /\ Saved(list, messages, op.next)
    BY <1>1, <1>3 DEF SessionInv, OpKept, Plain
  <2>2. k <= op.next
    <3>1. PICK top \in Nat, n \in Nat : top = Len(messages) /\ n = op.next /\ n >= top
      BY <1>2, <1>3, LenProperties DEF SessionInv, SessionTyped, Operation
    <3>2. k \in 1 .. top
      BY <1>2, <3>1, LenProperties
    <3> QED
      BY <3>1, <3>2
  <2> QED
    BY <2>1, <2>2 DEF Saved
<1>8. Kept(x)'
  BY <1>2, <1>3, <1>5, <1>7 DEF SessionInv, DisksKept, Kept, Plain, Unsummarized
<1>9. used.news <= used'.news
  BY <1>2, <1>3
<1>10. << Main, "branch_summary" >> \notin mixed'
  BY <1>3 DEF SessionInv, DisksKept, Unsummarized
<1>11. DisksKept'
  BY <1>2, <1>3, <1>5, <1>6, <1>8, <1>9, <1>10, DisksStep DEF SessionInv
<1>12. Grown
  <2>1. H!IsPrefix(disk[x], disk'[x])
    BY <1>2, <1>3, LenProperties, Prefixed DEF SessionInv, SessionTyped
  <2> QED
    BY <1>2, <1>3, <1>6, <2>1, GrownAt DEF SessionInv
<1> QED
  BY <1>5, <1>6, <1>11, <1>12 DEF SessionInv, OpKept

\* An entry of context is numbered after the list it is made for.
LEMMA FollowingFits ==
  ASSUME NEW list \in Seq(Row), NEW kind \in {"compaction", "branch_summary"}, NEW n
  PROVE  LET e == H!Following(list, kind, H!NoWire)
         IN e \in Row /\ e.kind = kind /\ Fits(list, e, n)
<1>1. PICK size \in Nat : size = Len(list)
  BY LenProperties
<1>2. ASSUME list # << >> PROVE H!Last(list).seq \in Nat
  <2>1. size # 0 /\ DOMAIN list = 1 .. size
    BY <1>1, <1>2, EmptySeq, LenProperties
  <2>2. size \in 1 .. size
    BY <2>1
  <2>3. list[size] \in Row
    BY <1>1, <2>2
  <2> QED
    BY <1>1, <2>3 DEF H!Last, Row
<1>3. PICK parent \in Nat : parent = IF list = << >> THEN 0 ELSE H!Last(list).seq
  BY <1>2
<1>4. PICK e : e = H!Following(list, kind, H!NoWire)
  OBVIOUS
<1>5. e = [seq |-> size + 1, parent |-> parent, kind |-> kind, wire |-> H!NoWire]
  BY <1>1, <1>3, <1>4 DEF H!Following, H!Entry
<1>6. e \in Row /\ e.kind = kind /\ e.seq = size + 1
  BY <1>5 DEF Row
<1>7. kind # "message"
  OBVIOUS
<1> QED
  BY <1>1, <1>4, <1>6, <1>7 DEF Fits, IsMessage

LEMMA AppendSummaryKeeps ==
  ASSUME SessionInv, H!AppendSummary
  PROVE  SessionInv' /\ Grown
<1>1. PICK x, list, summary, more :
        x = op.session /\ list = op.entries /\ summary = op.summary /\ more = list \o summary
  OBVIOUS
<1>2. /\ op.at = "summarizing" /\ op' = H!Idle /\ disk' = [disk EXCEPT ![x] = H!Stored(more)]
      /\ UNCHANGED << backend, agents, told, mixed, used >>
  BY <1>1 DEF H!AppendSummary, H!Write
<1>3. x \in H!Sessions /\ list \in Seq(Row) /\ summary \in Seq(Row) /\ used.news \in Nat
  BY <1>1 DEF SessionInv, SessionTyped, Operation, Counters
<1>4. /\ Listed(mixed, x, list) /\ Listed(mixed, x, summary) /\ ~ Unsummarized(x)
      /\ backend = "jsonl" => list = disk[x]
  BY <1>1, <1>2 DEF SessionInv, OpKept
<1>5. PICK n \in Nat, m \in Nat : n = Len(list) /\ m = Len(summary)
  BY <1>3, LenProperties
<1>6. /\ more \in Seq(Row) /\ Len(more) = n + m /\ DOMAIN more = 1 .. n + m
      /\ DOMAIN list = 1 .. n /\ DOMAIN summary = 1 .. m
      /\ \A i \in 1 .. n + m : more[i] = IF i <= n THEN list[i] ELSE summary[i - n]
  <2>1. /\ list \o summary \in Seq(Row) /\ Len(list \o summary) = Len(list) + Len(summary)
        /\ \A i \in 1 .. Len(list) + Len(summary) :
             (list \o summary)[i] = IF i <= Len(list) THEN list[i] ELSE summary[i - Len(list)]
    BY <1>3, ConcatProperties
  <2> QED
    BY <1>1, <1>3, <1>5, <2>1, LenProperties
<1>7. Listed(mixed, x, more)
  <2> SUFFICES ASSUME NEW i \in 1 .. n + m PROVE IsMessage(more[i]) \/ << x, more[i].kind >> \in mixed
    BY <1>6 DEF Listed
  <2>1. CASE i <= n
    BY <1>4, <1>6, <2>1 DEF Listed
  <2>2. CASE ~ (i <= n)
    <3>1. i - n \in 1 .. m
      BY <2>2
    <3> QED
      BY <1>4, <1>6, <2>2, <3>1 DEF Listed
  <2> QED
    BY <2>1, <2>2
<1>8. PICK kept : kept = H!Stored(more)
  OBVIOUS
<1>9. kept \in Seq(Row) /\ Listed(mixed, x, kept) /\ (backend = "jsonl" => kept = more)
  BY <1>6, <1>7, <1>8, StoredKeeps, StoredListed
<1>10. /\ disk' \in [H!Sessions -> Seq(Row)] /\ disk'[x] = kept
       /\ \A s \in H!Sessions : s # x => disk'[s] = disk[s]
  BY <1>2, <1>3, <1>8, <1>9 DEF SessionInv, SessionTyped
<1>11. op' \in Operation /\ op'.at = "idle"
  BY <1>2, IdleTyped
<1>12. SessionTyped'
  BY <1>2, <1>10, <1>11 DEF SessionInv, SessionTyped
<1>13. Kept(x)'
  BY <1>2, <1>4, <1>9, <1>10 DEF Kept, Plain, Unsummarized
<1>14. used.news <= used'.news
  BY <1>2, <1>3
<1>15. << Main, "branch_summary" >> \notin mixed'
  BY <1>2 DEF SessionInv, DisksKept, Unsummarized
<1>16. DisksKept'
  BY <1>2, <1>3, <1>10, <1>12, <1>13, <1>14, <1>15, DisksStep DEF SessionInv
<1>17. H!IsPrefix(list, more)
  <2>1. Len(list) <= Len(more) /\ \A i \in 1 .. n : i \in 1 .. n + m /\ i <= n
    BY <1>5, <1>6
  <2>2. \A i \in 1 .. Len(list) : list[i] = more[i]
    BY <1>5, <1>6, <2>1
  <2> QED
    BY <1>3, <1>6, <2>1, <2>2, Prefixed
<1>18. Grown
  <2>1. backend = "jsonl" \/ Unsummarized(x) => H!IsPrefix(disk[x], disk'[x])
    BY <1>4, <1>9, <1>10, <1>17
  <2> QED
    BY <1>3, <1>10, <1>12, <2>1, GrownAt DEF SessionInv
<1> QED
  BY <1>11, <1>12, <1>16, <1>18 DEF SessionInv, OpKept

LEMMA CompactKeeps ==
  ASSUME SessionInv, NEW x \in H!Sessions, NEW tail, H!Compact(x, tail)
  PROVE  SessionInv' /\ Grown
<1>1. PICK list, e, more : /\ list = disk[x] /\ e = H!Following(list, "compaction", H!NoWire)
                           /\ more = Append(list, e)
  OBVIOUS
<1>2. /\ op.at = "idle" /\ disk' = [disk EXCEPT ![x] = H!Stored(more)]
      /\ used' = [used EXCEPT !.compactions = @ + 1] /\ mixed' = mixed \cup {<< x, "compaction" >>}
      /\ UNCHANGED << backend, agents, op, told >>
  BY <1>1 DEF H!Compact, H!CompactTo, H!Write
<1>3. list \in Seq(Row) /\ used.news \in Nat /\ used' \in Counters /\ used'.news = used.news
  <2>1. PICK n \in Nat : n = used.compactions + 1
    BY DEF SessionInv, SessionTyped, Counters
  <2>2. used' = [used EXCEPT !.compactions = n]
    BY <1>2, <2>1
  <2> QED
    BY <1>1, <2>2 DEF SessionInv, SessionTyped, Counters
<1>4. e \in Row /\ e.kind = "compaction" /\ Fits(list, e, used.news)
  BY <1>1, <1>3, FollowingFits
<1>5. more \in Seq(Row) /\ (Sound(list, used.news) => Sound(more, used.news))
  BY <1>1, <1>3, <1>4, AppendKeeps
<1>6. Listed(mixed, x, list) /\ (Unsummarized(x) => Sound(list, used.news))
  BY <1>1 DEF SessionInv, DisksKept, Kept
<1>7. Listed(mixed', x, list) /\ << x, e.kind >> \in mixed' /\ ~ Plain(x)'
  BY <1>2, <1>4, <1>6 DEF Listed, Plain
<1>8. Listed(mixed', x, more) /\ H!IsPrefix(list, more)
  BY <1>1, <1>3, <1>4, <1>7, AppendPrefixed
<1>9. PICK kept : kept = H!Stored(more)
  OBVIOUS
<1>10. /\ kept \in Seq(Row) /\ Listed(mixed', x, kept)
       /\ backend = "jsonl" \/ Unsummarized(x) => kept = more
  BY <1>5, <1>6, <1>8, <1>9, StoredKeeps, StoredListed DEF Sound
<1>11. /\ disk' \in [H!Sessions -> Seq(Row)] /\ disk'[x] = kept
       /\ \A s \in H!Sessions : s # x => disk'[s] = disk[s]
  BY <1>2, <1>9, <1>10 DEF SessionInv, SessionTyped
<1>12. SessionTyped'
  BY <1>2, <1>3, <1>11 DEF SessionInv, SessionTyped
<1>13. Unsummarized(x)' => Unsummarized(x)
  BY <1>2 DEF Unsummarized
<1>14. Kept(x)'
  BY <1>3, <1>5, <1>6, <1>7, <1>10, <1>11, <1>13 DEF Kept
<1>15. used.news <= used'.news /\ mixed \subseteq mixed'
  BY <1>2, <1>3
<1>16. << Main, "branch_summary" >> \notin mixed'
  BY <1>2 DEF SessionInv, DisksKept, Unsummarized
<1>17. DisksKept'
  BY <1>2, <1>11, <1>12, <1>14, <1>15, <1>16, DisksStep DEF SessionInv
<1>18. Grown
  <2>1. backend = "jsonl" \/ Unsummarized(x) => H!IsPrefix(disk[x], disk'[x])
    BY <1>1, <1>8, <1>10, <1>11
  <2> QED
    BY <1>11, <1>12, <2>1, GrownAt DEF SessionInv
<1> QED
  BY <1>2, <1>12, <1>17, <1>18 DEF SessionInv, OpKept

LEMMA NavigateKeeps ==
  ASSUME SessionInv, NEW x \in Branches, NEW from \in 0 .. Len(disk[Main]), NEW summarize \in BOOLEAN,
         H!Navigate(x, from, summarize)
  PROVE  SessionInv' /\ Grown
<1>1. PICK list, head, row, summary :
        /\ list = disk[Main]
        /\ head = H!ElementsAt(list, {i \in DOMAIN list : list[i].seq <= from})
        /\ row = H!Following(list, "branch_summary", H!NoWire)
        /\ summary = [row EXCEPT !.parent = from]
  OBVIOUS
<1>2. PICK kept : kept = H!Stored(head)
  OBVIOUS
<1>3. /\ backend # "none" /\ op.at = "idle" /\ x # Main /\ disk[x] = << >>
      /\ disk' = [disk EXCEPT ![x] = kept]
      /\ told' = [told EXCEPT ![x] = told[Main] \cap H!ToSet(H!Transcript(head))]
      /\ mixed' = mixed \cup {<< x, e.kind >> : e \in H!ToSet(head)}
                   \cup (IF summarize THEN {<< x, "branch_summary" >>} ELSE {})
      /\ op' = IF summarize
               THEN [H!Idle EXCEPT !.at = "summarizing", !.session = x, !.entries = kept,
                                   !.summary = << summary >>]
               ELSE H!Idle
      /\ UNCHANGED << backend, agents, used >>
  BY <1>1, <1>2 DEF H!Navigate, H!Write
<1>4. x \in H!Sessions /\ Main \in H!Sessions /\ list \in Seq(Row) /\ used.news \in Nat
  BY <1>1 DEF H!Sessions, SessionInv, SessionTyped, Counters
<1>5. Sound(list, used.news)
  BY <1>1, <1>4 DEF SessionInv, DisksKept, Kept
<1>6. head \in Seq(Row) /\ Sound(head, used.news)
  BY <1>1, <1>4, <1>5, HeadReads, SameSelection
<1>7. kept = head /\ kept \in Seq(Row)
  BY <1>2, <1>6, StoredKeeps DEF Sound
<1>8. summary \in Row /\ summary.kind = "branch_summary" /\ from \in Nat
  <2>1. row \in Row /\ row.kind = "branch_summary"
    BY <1>1, <1>4, FollowingFits
  <2>2. from \in Nat
    BY <1>1, <1>4, LenProperties
  <2> QED
    BY <1>1, <2>1, <2>2 DEF Row
<1>9. /\ disk' \in [H!Sessions -> Seq(Row)] /\ disk'[x] = head
      /\ \A s \in H!Sessions : s # x => disk'[s] = disk[s]
  BY <1>3, <1>4, <1>7 DEF SessionInv, SessionTyped
<1>10. H!ToSet(H!Transcript(head)) = Heards(head) /\ H!ToSet(head) = {head[i] : i \in DOMAIN head}
  BY <1>6, TranscriptReads, SameSelection DEF H!ToSet
<1>11. /\ told' \in [H!Sessions -> SUBSET TextMessage] /\ told'[x] \subseteq Heards(head)
       /\ \A s \in H!Sessions : s # x => told'[s] = told[s]
  BY <1>3, <1>4, <1>10 DEF SessionInv, SessionTyped
<1>12. Listed(mixed', x, head)
  BY <1>3, <1>10 DEF Listed
<1>13. /\ op' \in Operation /\ (~ summarize => op'.at = "idle")
       /\ summarize => /\ op'.at = "summarizing" /\ op'.session = x /\ op'.entries = head
                       /\ op'.summary = << summary >>
  <2>1. CASE ~ summarize
    BY <1>3, <2>1, IdleTyped
  <2>2. CASE summarize
    <3>1. PICK idle \in Operation : idle = H!Idle
      BY IdleTyped
    <3>2. PICK list2 \in Seq(Row) : list2 = << summary >>
      <4>1. summary \in Row
        BY <1>8
      <4>2. << summary >> \in Seq(Row)
        BY <4>1
      <4> QED
        BY <4>2
    <3>3. op' = [idle EXCEPT !.at = "summarizing", !.session = x, !.entries = head, !.summary = list2]
      BY <1>3, <1>7, <2>2, <3>1, <3>2
    <3> QED
      BY <1>4, <1>6, <2>2, <3>1, <3>2, <3>3 DEF Operation
  <2> QED
    BY <2>1, <2>2
<1>14. SessionTyped'
  BY <1>3, <1>9, <1>11, <1>13 DEF SessionInv, SessionTyped
<1>15. Kept(x)'
  BY <1>3, <1>6, <1>9, <1>11, <1>12 DEF Kept
<1>16. used.news <= used'.news /\ mixed \subseteq mixed'
  BY <1>3, <1>4
<1>17. << Main, "branch_summary" >> \notin mixed'
  BY <1>3 DEF SessionInv, DisksKept, Unsummarized
<1>18. DisksKept'
  BY <1>4, <1>9, <1>11, <1>14, <1>15, <1>16, <1>17, DisksStep DEF SessionInv
<1>19. Grown
  <2>1. << >> \in Seq(Row) /\ Len(<< >>) <= Len(head) /\ \A i \in 1 .. Len(<< >>) : << >>[i] = head[i]
    BY <1>6, LenProperties
  <2>2. H!IsPrefix(disk[x], disk'[x])
    BY <1>3, <1>6, <1>9, <2>1, Prefixed
  <2> QED
    BY <1>4, <1>9, <1>14, <2>2, GrownAt DEF SessionInv
<1>20. OpKept'
  <2>1. CASE ~ summarize
    BY <1>13, <2>1 DEF OpKept
  <2>2. CASE summarize
    <3>1. << x, "branch_summary" >> \in mixed'
      BY <1>3, <2>2
    <3>2. Listed(mixed', x, << summary >>)
      BY <1>8, <3>1 DEF Listed
    <3> QED
      BY <1>3, <1>9, <1>12, <1>13, <2>2, <3>1, <3>2 DEF OpKept, Unsummarized
  <2> QED
    BY <2>1, <2>2
<1> QED
  BY <1>14, <1>18, <1>19, <1>20 DEF SessionInv

-------------------------------------------------------------------------------
(* The theorems *)

LEMMA SessionInit == H!Init => SessionInv
<1> SUFFICES ASSUME H!Init PROVE SessionInv
  OBVIOUS
<1>1. /\ backend = "none" /\ disk = [s \in H!Sessions |-> << >>] /\ agents = [s \in H!Sessions |-> << >>]
      /\ op = H!Idle /\ told = [s \in H!Sessions |-> {}] /\ mixed = {}
      /\ used = [news |-> 0, compactions |-> 0, crashes |-> 0]
  BY DEF H!Init
<1>2. SessionTyped
  <2>1. << >> \in Seq(Row) /\ << >> \in Seq(TextMessage)
    OBVIOUS
  <2> QED
    BY <1>1, <2>1, IdleTyped DEF SessionTyped, Counters
<1>3. \A s \in H!Sessions : Kept(s)
  BY <1>1 DEF Kept, Listed, Sound, SeqNumbered, Ordered, Until
<1> QED
  BY <1>1, <1>2, <1>3, IdleTyped DEF SessionInv, DisksKept, OpKept, Unsummarized

LEMMA SessionStep == SessionInv /\ H!Next => SessionInv' /\ Grown
<1> SUFFICES ASSUME SessionInv, H!Next PROVE SessionInv' /\ Grown
  OBVIOUS
<1>1. CASE \E b \in {"jsonl", "sqlite"} : H!ChooseBackend(b)
  BY <1>1, ChooseBackendKeeps
<1>2. CASE \E s \in H!Sessions : H!Run(s)
  BY <1>2, RunKeeps
<1>3. CASE \E news \in H!News(used.news + 1) : H!AgentReturns(news) \/ H!AgentThrows(news)
  BY <1>3, AgentReturnsKeeps, AgentThrowsKeeps
<1>4. CASE H!PersistNext
  BY <1>4, PersistNextKeeps
<1>5. CASE H!PersistDone
  BY <1>5, PersistDoneKeeps
<1>6. CASE \E new \in Branches, from \in 0 .. Len(disk[Main]), summarize \in BOOLEAN :
             H!Navigate(new, from, summarize)
  BY <1>6, NavigateKeeps
<1>7. CASE H!AppendSummary
  BY <1>7, AppendSummaryKeeps
<1>8. CASE \E s \in H!Sessions, tail \in Tails : H!Compact(s, tail)
  BY <1>8, CompactKeeps
<1>9. CASE H!Crash
  BY <1>9, CrashKeeps
<1> QED
  BY <1>1, <1>2, <1>3, <1>4, <1>5, <1>6, <1>7, <1>8, <1>9 DEF H!Next

LEMMA SessionSteps == SessionInv /\ [Next]_harnessVars => SessionInv' /\ [Grown]_(H!sessionVars)
<1> SUFFICES ASSUME SessionInv, [Next]_harnessVars PROVE SessionInv' /\ [Grown]_(H!sessionVars)
  OBVIOUS
<1>1. CASE H!Next
  BY <1>1, SessionStep
<1>2. CASE UNCHANGED ofSession
  <2>1. UNCHANGED << backend, disk, agents, op, told, mixed, used >>
    BY <1>2 DEF ofSession
  <2>2. SessionInv'
    BY <2>1 DEF SessionInv, SessionTyped, DisksKept, Kept, OpKept, Unsummarized, Plain
  <2> QED
    BY <2>1, <2>2 DEF H!sessionVars
<1> QED
  BY <1>1, <1>2 DEF Next, AgentScene, SessionScene, ProtocolScene, PlanScene, harnessVars

\* What AgentHarness persists: a session of messages gives back all that its runs
\* added, each once and in order, after any crash.
THEOREM SessionsKeepRuns == Spec => []RunsPersisted
<1>1. SessionInv => RunsPersisted
  <2> SUFFICES ASSUME SessionInv, op.at = "idle", NEW s \in H!Sessions,
                      ~ H!Given(s, "compaction"), ~ H!Given(s, "branch_summary")
               PROVE  LET read == H!Transcript(disk[s])
                      IN /\ told[s] \subseteq H!ToSet(read)
                         /\ \A i, j \in DOMAIN read : i < j => read[i].text[1] < read[j].text[1]
    BY DEF RunsPersisted, H!RunsPersisted
  <2>1. PICK list, read : list = disk[s] /\ read = H!Transcript(list)
    OBVIOUS
  <2>2. list \in Seq(Row) /\ Plain(s) /\ Unsummarized(s)
    BY <2>1 DEF SessionInv, SessionTyped, Plain, Unsummarized, H!Given
  <2>3. Ordered(list) /\ told[s] \subseteq Heards(list)
    BY <2>1, <2>2 DEF SessionInv, DisksKept, Kept, Sound
  <2>4. /\ read \in Seq(TextMessage) /\ ToSet(read) = Heards(list)
        /\ \A k, l \in 1 .. Len(read) : k < l => Time(read[k]) < Time(read[l])
    BY <2>1, <2>2, <2>3, TranscriptReads
  <2>5. DOMAIN read = 1 .. Len(read) /\ H!ToSet(read) = ToSet(read)
    BY <2>4, LenProperties, SameSelection
  <2> QED
    BY <2>1, <2>3, <2>4, <2>5 DEF Time
<1>2. Init => SessionInv
  BY SessionInit DEF Init
<1> QED
  BY <1>1, <1>2, SessionSteps, PTL DEF Spec

\* What the repositories keep: no operation of AgentHarness removes or reorders the
\* entries of a session, but a branch summary in SQLite.
THEOREM SessionLogsGrow == Spec => LogGrows
<1>1. Init => SessionInv
  BY SessionInit DEF Init
<1>2. Spec => [][Grown]_(H!sessionVars)
  BY <1>1, SessionSteps, PTL DEF Spec
<1> QED
  BY <1>2 DEF LogGrows, H!LogGrows, Grown

-------------------------------------------------------------------------------
(* Tasks and what they wait for *)

LEMMA SameInPlans ==
  /\ \A s, at : W!ElementsAt(s, at) = ElementsAt(s, at)
  /\ \A at, k : W!Nth(at, k) = Nth(at, k)
  /\ \A s : W!ToSet(s) = ToSet(s)
  /\ \A S : W!Cardinality(S) = Cardinality(S)
BY DEF W!ToSet, ToSet, W!ElementsAt, ElementsAt, W!Nth, Nth, W!Cardinality, Cardinality,
       W!IsInjective, IsInjective

\* Some tasks, each with those it waits for.
Graph(T, deps) == T \in SUBSET Nat /\ IsFiniteSet(T) /\ deps \in [T -> SUBSET T]

Above(T, deps, t) ==
  {a \in T : \A S \in SUBSET T : deps[t] \subseteq S /\ (\A s \in S : deps[s] \subseteq S) => a \in S}
Acyclic(T, deps) == \A t \in T : t \notin Above(T, deps, t)

LEMMA AboveDirect ==
  ASSUME NEW T, NEW deps, Graph(T, deps), NEW t \in T, NEW d \in deps[t]
  PROVE  d \in T /\ d \in Above(T, deps, t) /\ Above(T, deps, d) \subseteq Above(T, deps, t)
<1>1. d \in T
  BY DEF Graph
<1>2. d \in Above(T, deps, t)
  BY <1>1 DEF Above
<1>3. ASSUME NEW a \in Above(T, deps, d) PROVE a \in Above(T, deps, t)
  <2> SUFFICES ASSUME NEW S \in SUBSET T, deps[t] \subseteq S, \A s \in S : deps[s] \subseteq S
               PROVE  a \in S
    BY <1>3 DEF Above
  <2>1. deps[d] \subseteq S
    OBVIOUS
  <2> QED
    BY <1>3, <2>1 DEF Above
<1> QED
  BY <1>1, <1>2, <1>3

\* Of the tasks that are left of an acyclic plan, one waits for none of them.
LEMMA SomeReady ==
  ASSUME NEW T, NEW deps, Graph(T, deps), Acyclic(T, deps), NEW R \in SUBSET T, R # {}
  PROVE  \E t \in R : deps[t] \cap R = {}
<1>1. PICK weight : weight = [t \in R |-> Cardinality(Above(T, deps, t) \cap R)]
  OBVIOUS
<1>2. IsFiniteSet(R)
  BY FS_Subset DEF Graph
<1>3. \A t \in R : /\ IsFiniteSet(Above(T, deps, t) \cap R)
                   /\ Cardinality(Above(T, deps, t) \cap R) \in Nat
  <2> SUFFICES ASSUME NEW S \in SUBSET R PROVE IsFiniteSet(S) /\ Cardinality(S) \in Nat
    OBVIOUS
  <2> QED
    BY <1>2, FS_Subset, FS_CardinalityType
<1>4. {weight[t] : t \in R} \in SUBSET Nat /\ {weight[t] : t \in R} # {}
  BY <1>1, <1>3
<1>5. PICK m \in {weight[t] : t \in R} : \A n \in {weight[t] : t \in R} : m <= n
  BY <1>4, LeastNatural
<1>6. PICK t \in R : m = weight[t]
  OBVIOUS
<1>7. ASSUME NEW d \in deps[t] \cap R PROVE FALSE
  <2>1. PICK mine, his : mine = Above(T, deps, t) \cap R /\ his = Above(T, deps, d) \cap R
    OBVIOUS
  <2>2. d \in mine /\ d \notin his /\ his \subseteq mine
    BY <1>7, <2>1, AboveDirect DEF Acyclic
  <2>3. IsFiniteSet(mine) /\ Cardinality(mine) \in Nat /\ Cardinality(his) \in Nat
    BY <1>3, <1>7, <2>1
  <2>4. Cardinality(his) <= Cardinality(mine) /\ Cardinality(his) # Cardinality(mine)
    BY <2>2, <2>3, FS_Subset
  <2>5. Cardinality(mine) <= Cardinality(his)
    <3>1. Cardinality(mine) = weight[t] /\ Cardinality(his) = weight[d]
      BY <1>1, <1>7, <2>1
    <3> QED
      BY <1>5, <1>6, <1>7, <3>1
  <2> QED
    BY <2>3, <2>4, <2>5
<1> QED
  BY <1>7

-------------------------------------------------------------------------------
(* The order of a plan *)

\* Each task once, after those it waits for.
Placed(T, deps, list) ==
  /\ list \in Seq(T)
  /\ \A i, j \in 1 .. Len(list) : i # j => list[i] # list[j]
  /\ \A i \in 1 .. Len(list) : \A d \in deps[list[i]] : \E j \in 1 .. i - 1 : list[j] = d

LEMMA TakePlaces ==
  ASSUME NEW T, NEW deps, Graph(T, deps), Acyclic(T, deps), NEW list, Placed(T, deps, list)
  PROVE  /\ Placed(T, deps, W!Take(deps, list))
         /\ ToSet(list) = T \/ Len(W!Take(deps, list)) = Len(list) + 1
         /\ ToSet(list) = T => W!Take(deps, list) = list
<1>1. DOMAIN deps = T /\ ToSet(list) \subseteq T /\ list \in Seq(T)
  BY ElementsOf DEF Graph, Placed
<1>2. PICK left : left = T \ ToSet(list)
  OBVIOUS
<1>3. W!Ready(deps, list) = {t \in left : deps[t] \subseteq ToSet(list)}
  BY <1>1, <1>2, SameInPlans DEF W!Ready
<1>4. CASE ToSet(list) = T
  BY <1>2, <1>3, <1>4 DEF W!Take
<1>5. CASE ToSet(list) # T
  <2>1. left # {} /\ left \in SUBSET T
    BY <1>1, <1>2, <1>5
  <2>2. PICK r \in left : deps[r] \cap left = {}
    BY <2>1, SomeReady
  <2>3. deps[r] \subseteq ToSet(list)
    BY <1>2, <2>1, <2>2 DEF Graph
  <2>4. W!Ready(deps, list) # {} /\ W!Ready(deps, list) \in SUBSET Nat
    BY <1>2, <1>3, <2>3 DEF Graph
  <2>5. PICK t : t = W!Least(W!Ready(deps, list))
    OBVIOUS
  <2>6. t \in left /\ deps[t] \subseteq ToSet(list)
    <3>1. \E m \in W!Ready(deps, list) : \A n \in W!Ready(deps, list) : m <= n
      BY <2>4, LeastNatural
    <3>2. t \in W!Ready(deps, list)
      BY <2>5, <3>1 DEF W!Least
    <3> QED
      BY <1>3, <3>2
  <2>16. PICK n \in Nat : n = Len(list)
    BY <1>1, LenProperties
  <2>7. PICK more : more = Append(list, t) /\ n = Len(list)
    BY <2>16
  <2>8. W!Take(deps, list) = more
    BY <2>4, <2>5, <2>7 DEF W!Take
  <2>9. /\ more \in Seq(T) /\ Len(more) = n + 1 /\ more[n + 1] = t
        /\ \A i \in 1 .. n : more[i] = list[i]
    BY <1>1, <1>2, <2>6, <2>7, AppendProperties
  <2>10. \A i \in 1 .. n + 1 : i \in 1 .. n \/ i = n + 1
    OBVIOUS
  <2>11. ToSet(list) = {list[i] : i \in 1 .. n}
    BY <1>1, <2>7, ElementsOf
  <2>12. \A i \in 1 .. n : list[i] # t
    BY <1>2, <2>6, <2>11
  <2>13. \A i, j \in 1 .. n + 1 : i # j => more[i] # more[j]
    BY <2>7, <2>9, <2>10, <2>12 DEF Placed
  <2>14. ASSUME NEW i \in 1 .. n + 1, NEW d \in deps[more[i]] PROVE \E j \in 1 .. i - 1 : more[j] = d
    <3>1. CASE i \in 1 .. n
      <4>1. PICK j \in 1 .. i - 1 : list[j] = d
        BY <2>7, <2>9, <2>14, <3>1 DEF Placed
      <4>2. j \in 1 .. n
        BY <3>1
      <4> QED
        BY <2>9, <4>1, <4>2
    <3>2. CASE i = n + 1
      <4>1. PICK j \in 1 .. n : list[j] = d
        BY <2>6, <2>9, <2>11, <2>14, <3>2
      <4>2. j \in 1 .. i - 1
        BY <3>2
      <4> QED
        BY <2>9, <4>1, <4>2
    <3> QED
      BY <2>10, <3>1, <3>2
  <2>15. Placed(T, deps, more)
    BY <2>9, <2>13, <2>14 DEF Placed
  <2> QED
    BY <1>5, <2>7, <2>8, <2>9, <2>15
<1> QED
  BY <1>4, <1>5

\* The rounds of the sort one by one, in a set of lists that each stays in.
Rounds(T, deps, V, n, m) ==
  /\ m[0] = << >> /\ \A i \in 1 .. n : m[i] = W!Take(deps, m[i - 1])
  /\ \A i \in 0 .. n : m[i] \in V
  /\ W!TopoSort(deps) = m[n] \o W!Sorted(T \ ToSet(m[n]))
Taking(deps, V) == << >> \in V /\ \A list \in V : W!Take(deps, list) \in V

LEMMA TakenSteps ==
  ASSUME NEW T, NEW deps, Graph(T, deps), NEW n \in Nat, n = Cardinality(T), NEW V, Taking(deps, V)
  PROVE  \E m : Rounds(T, deps, V, n, m)
<1>1. << >> \in V /\ \A list \in V : W!Take(deps, list) \in V
  BY DEF Taking
<1>2. DOMAIN deps = T /\ W!Cardinality(DOMAIN deps) = n
  BY SameInPlans DEF Graph
<1>4. PICK none \in V : none = << >>
  BY <1>1
<1>7. PICK step : step = [i \in 1 .. n |-> [list \in V |-> W!Take(deps, list)]]
  OBVIOUS
<1>8. step \in [1 .. n -> [V -> V]]
  BY <1>1, <1>7
<1>9. PICK g : Follows(g, V, none, n, step)
  BY <1>8, RecursionExists DEF Steps
<1>10. \A i \in 1 .. n : g[i] = W!Take(deps, g[i - 1])
  <2> SUFFICES ASSUME NEW i \in 1 .. n PROVE g[i] = W!Take(deps, g[i - 1])
    OBVIOUS
  <2>1. i - 1 \in 0 .. n
    OBVIOUS
  <2>2. g[i - 1] \in V /\ g[i] = step[i][g[i - 1]]
    BY <1>9, <2>1 DEF Follows
  <2>3. step[i] = [list \in V |-> W!Take(deps, list)]
    BY <1>7
  <2> QED
    BY <2>2, <2>3
<1>11. g = [i \in 0 .. n |-> IF i = 0 THEN none ELSE W!Take(deps, g[i - 1])]
  BY <1>9, <1>10 DEF Follows
<1> DEFINE Body(h) == [i \in 0 .. W!Cardinality(DOMAIN deps) |->
                         IF i = 0 THEN << >> ELSE W!Take(deps, h[i - 1])]
           taken == CHOOSE h : h = Body(h)
           out == taken[W!Cardinality(DOMAIN deps)]
<1>12. W!TopoSort(deps) = out \o W!Sorted(DOMAIN deps \ W!ToSet(out))
  BY DEF W!TopoSort
<1>13. taken = Body(taken)
  BY <1>2, <1>4, <1>11
<1>14. PICK m : m = taken
  OBVIOUS
<1>15. W!TopoSort(deps) = m[n] \o W!Sorted(T \ ToSet(m[n]))
  <2> HIDE DEF taken
  <2> QED BY <1>2, <1>12, <1>14, SameInPlans
<1>16. m[0] = none /\ \A i \in 1 .. n : m[i] = W!Take(deps, m[i - 1])
  <2> HIDE DEF taken
  <2>1. m = [i \in 0 .. n |-> IF i = 0 THEN none ELSE W!Take(deps, m[i - 1])]
    BY <1>2, <1>4, <1>13, <1>14
  <2> QED
    BY <2>1
<1> HIDE DEF Body, taken, out
<1>17. \A i \in 0 .. n : m[i] \in V
  <2>1. \A i \in 1 .. n : m[i - 1] \in V => m[i] \in V
    BY <1>1, <1>16
  <2> QED
    BY <1>4, <1>16, <2>1, StaysIn
<1> QED
  BY <1>4, <1>15, <1>16, <1>17 DEF Rounds

LEMMA SortPlaces ==
  ASSUME NEW T, NEW deps, Graph(T, deps), Acyclic(T, deps)
  PROVE  Placed(T, deps, W!TopoSort(deps)) /\ ToSet(W!TopoSort(deps)) = T
<1>1. PICK n \in Nat : n = Cardinality(T)
  BY FS_CardinalityType DEF Graph
<1>3. PICK V : V = {list \in Seq(T) : Placed(T, deps, list)}
  OBVIOUS
<1>4. << >> \in V
  <2>1. PICK none : none = << >>
    OBVIOUS
  <2>2. none \in Seq(T) /\ Len(none) = 0 /\ \A i : i \notin 1 .. Len(none)
    BY <2>1
  <2>3. Placed(T, deps, none)
    BY <2>2 DEF Placed
  <2> QED
    BY <1>3, <2>1, <2>2, <2>3
<1>6. ASSUME NEW list \in V
      PROVE  /\ W!Take(deps, list) \in V
             /\ ToSet(list) = T \/ Len(W!Take(deps, list)) = Len(list) + 1
             /\ ToSet(list) = T => W!Take(deps, list) = list
  <2>1. Placed(T, deps, list)
    BY <1>3
  <2>2. PICK more : more = W!Take(deps, list)
    OBVIOUS
  <2>3. Placed(T, deps, more)
    BY <2>1, <2>2, TakePlaces
  <2>4. more \in V
    BY <1>3, <2>3 DEF Placed
  <2> QED
    BY <2>1, <2>2, <2>4, TakePlaces
<1>7. Taking(deps, V)
  BY <1>4, <1>6 DEF Taking
<1>15. PICK m : Rounds(T, deps, V, n, m)
  BY <1>1, <1>7, TakenSteps
<1>16. /\ m[0] = << >> /\ \A i \in 1 .. n : m[i] = W!Take(deps, m[i - 1])
       /\ \A i \in 0 .. n : m[i] \in V
       /\ W!TopoSort(deps) = m[n] \o W!Sorted(T \ ToSet(m[n]))
  BY <1>15 DEF Rounds
<1>17. PICK held \in SUBSET Nat :
         held = {k \in Nat : k <= n => ToSet(m[k]) = T \/ Len(m[k]) = k}
  OBVIOUS
<1>18. 0 \in held
  BY <1>16, <1>17
<1>19. ASSUME NEW k \in held PROVE k + 1 \in held
  <2> SUFFICES ASSUME k + 1 <= n
               PROVE  ToSet(m[k + 1]) = T \/ Len(m[k + 1]) = k + 1
    BY <1>17
  <2>1. k \in 0 .. n /\ k + 1 \in 1 .. n /\ (k + 1) - 1 = k
    BY <1>17
  <2>2. m[k] \in V /\ (ToSet(m[k]) = T \/ Len(m[k]) = k)
    BY <1>16, <1>17, <2>1
  <2>3. m[k + 1] = W!Take(deps, m[k])
    BY <1>16, <2>1
  <2> QED
    BY <1>6, <2>2, <2>3
<1>20. held = Nat
  BY <1>18, <1>19, Induction
<1>21. m[n] \in V /\ (ToSet(m[n]) = T \/ Len(m[n]) = n)
  <2>1. n \in held /\ n <= n /\ n \in 0 .. n
    BY <1>20
  <2> QED
    BY <1>16, <1>17, <2>1
<1>22. PICK sorted : sorted = m[n]
  OBVIOUS
<1>23. sorted \in Seq(T) /\ Placed(T, deps, sorted)
  BY <1>3, <1>21, <1>22
<1>24. ToSet(sorted) = T
  <2> SUFFICES ASSUME Len(sorted) = n PROVE ToSet(sorted) = T
    BY <1>21, <1>22
  <2>1. sorted \in Injection(1 .. n, T)
    BY <1>23, LenProperties DEF Placed, Injection, IsInjective
  <2>2. IsFiniteSet(T) /\ Cardinality(1 .. n) = Cardinality(T)
    BY <1>1, FS_Interval DEF Graph
  <2>3. sorted \in Surjection(1 .. n, T)
    BY <2>1, <2>2, FS_Injection
  <2>4. ToSet(sorted) = {sorted[i] : i \in 1 .. n} /\ ToSet(sorted) \subseteq T
    BY <1>23, ElementsOf
  <2> QED
    BY <2>3, <2>4 DEF Surjection
<1>25. W!Sorted({}) = << >>
  <2>1. W!Cardinality({}) = 0
    BY FS_EmptySet, SameInPlans
  <2>2. \A k : k \notin 1 .. 0
    OBVIOUS
  <2> QED
    BY <2>1, <2>2 DEF W!Sorted
<1>26. W!TopoSort(deps) = sorted
  <2>1. T \ ToSet(sorted) = {}
    BY <1>24
  <2>2. W!TopoSort(deps) = sorted \o << >>
    BY <1>16, <1>22, <1>25, <2>1
  <2> QED
    BY <1>23, <2>2
<1> QED
  BY <1>23, <1>24, <1>26

-------------------------------------------------------------------------------
(* The pass that skips *)

Settled == {"done", "failed", "skipped"}

\* A status for each task, and a skipped one exactly where one above it failed.
Told(T, deps, s) ==
  /\ s \in [T -> Settled]
  /\ \A t \in T : s[t] = "skipped" <=> \E a \in Above(T, deps, t) : s[a] = "failed"

\* The pass task by task, in a set of statuses that each stays in.
LEMMA SkippedSteps ==
  ASSUME NEW n \in Nat, n = Len(tasks), NEW V, status \in V,
         \A s \in V : \A i \in 1 .. n : W!Skip(s, tasks[i]) \in V
  PROVE  \E m : /\ m[0] = status /\ \A i \in 1 .. n : m[i] = W!Skip(m[i - 1], tasks[i])
                /\ \A i \in 0 .. n : m[i] \in V
                /\ W!SkipBlocked = m[n]
<1>1. PICK list : list = tasks
  OBVIOUS
<1>2. PICK old \in V : old = status
  OBVIOUS
<1>8. PICK step : step = [i \in 1 .. n |-> [s \in V |-> W!Skip(s, list[i])]]
  OBVIOUS
<1>9. step \in [1 .. n -> [V -> V]]
  BY <1>1, <1>8
<1>10. PICK g : Follows(g, V, old, n, step)
  BY <1>9, RecursionExists DEF Steps
<1>11. \A i \in 1 .. n : g[i] = W!Skip(g[i - 1], list[i])
  <2> SUFFICES ASSUME NEW i \in 1 .. n PROVE g[i] = W!Skip(g[i - 1], list[i])
    OBVIOUS
  <2>1. i - 1 \in 0 .. n
    OBVIOUS
  <2>2. g[i - 1] \in V /\ g[i] = step[i][g[i - 1]]
    BY <1>10, <2>1 DEF Follows
  <2>3. step[i] = [s \in V |-> W!Skip(s, list[i])]
    BY <1>8
  <2> QED
    BY <2>2, <2>3
<1>12. g = [i \in 0 .. n |-> IF i = 0 THEN old ELSE W!Skip(g[i - 1], list[i])]
  BY <1>10, <1>11 DEF Follows
<1> DEFINE Body(h) == [i \in 0 .. Len(tasks) |-> IF i = 0 THEN status ELSE W!Skip(h[i - 1], tasks[i])]
           passed == CHOOSE h : h = Body(h)
<1>13. W!SkipBlocked = passed[Len(tasks)]
  BY DEF W!SkipBlocked
<1>14. passed = Body(passed)
  <2>1. g = Body(g)
    BY <1>1, <1>2, <1>12
  <2> HIDE DEF Body
  <2> QED
    BY <2>1
<1>15. PICK m : m = passed
  OBVIOUS
<1>16. W!SkipBlocked = m[n]
  <2> HIDE DEF passed
  <2> QED BY <1>13, <1>15
<1>17. m[0] = old /\ \A i \in 1 .. n : m[i] = W!Skip(m[i - 1], list[i])
  <2> HIDE DEF passed
  <2>1. m = [i \in 0 .. n |-> IF i = 0 THEN old ELSE W!Skip(m[i - 1], list[i])]
    BY <1>1, <1>2, <1>14, <1>15
  <2>2. 0 \in 0 .. n /\ \A i \in 1 .. n : i \in 0 .. n /\ i # 0
    OBVIOUS
  <2> QED
    BY <2>1, <2>2
<1> HIDE DEF Body, passed
<1>18. \A i \in 0 .. n : m[i] \in V
  <2>1. \A i \in 1 .. n : m[i - 1] \in V => m[i] \in V
    BY <1>1, <1>17
  <2> QED
    BY <1>17, <2>1, StaysIn
<1> QED
  BY <1>1, <1>2, <1>16, <1>17, <1>18

LEMMA SkipTells ==
  ASSUME NEW T, Graph(T, dependsOn), Acyclic(T, dependsOn), Placed(T, dependsOn, tasks),
         ToSet(tasks) = T, status \in [T -> {"pending", "done", "failed"}],
         \A t \in T : status[t] = "pending" <=> \E d \in dependsOn[t] : status[d] # "done"
  PROVE  Told(T, dependsOn, W!SkipBlocked)
<1>1. PICK list, deps, old, n : list = tasks /\ deps = dependsOn /\ old = status /\ n = Len(list)
  OBVIOUS
<1>2. /\ Graph(T, deps) /\ Acyclic(T, deps) /\ list \in Seq(T) /\ n \in Nat
      /\ old \in [T -> {"pending", "done", "failed"}]
      /\ \A t \in T : old[t] = "pending" <=> \E d \in deps[t] : old[d] # "done"
  BY <1>1, LenProperties DEF Placed
<1>3. \A i \in 1 .. n : /\ list[i] \in T
                        /\ \A d \in deps[list[i]] : \E j \in 1 .. i - 1 : list[j] = d
  BY <1>1, <1>2 DEF Placed
<1>4. \A t \in T : \E i \in 1 .. n : list[i] = t
  BY <1>1, <1>2, ElementsOf
<1>5. PICK V : V = [T -> {"pending"} \cup Settled]
  OBVIOUS
<1>6. old \in V
  BY <1>2, <1>5 DEF Settled
<1>7. ASSUME NEW s \in V, NEW t \in T
      PROVE  /\ W!Skip(s, t) \in V /\ \A u \in T : u # t => W!Skip(s, t)[u] = s[u]
             /\ W!Skip(s, t)[t] = IF s[t] = "pending" /\ \E d \in deps[t] : s[d] \in {"failed", "skipped"}
                                  THEN "skipped" ELSE s[t]
  BY <1>1, <1>5 DEF W!Skip, Settled
<1>17. PICK m : /\ m[0] = old /\ \A i \in 1 .. n : m[i] = W!Skip(m[i - 1], list[i])
                /\ W!SkipBlocked = m[n]
  <2>1. \A s \in V : \A i \in 1 .. n : W!Skip(s, list[i]) \in V
    BY <1>3, <1>7
  <2>2. n \in Nat /\ n = Len(tasks) /\ status \in V
    BY <1>1, <1>2, <1>6
  <2>3. \A s \in V : \A i \in 1 .. n : W!Skip(s, tasks[i]) \in V
    BY <1>1, <2>1
  <2> QED
    BY <1>1, <2>2, <2>3, SkippedSteps
\* What the pass has come to after k tasks.
<1> DEFINE So(s, k) == /\ s \in V /\ \A t \in T : s[t] \in {old[t], "skipped"}
                       /\ \A t \in T : old[t] # "pending" => s[t] = old[t]
                       /\ \A j \in 1 .. k : s[list[j]] # "pending"
                       /\ \A t \in T : s[t] = "skipped" =>
                            \E a \in Above(T, deps, t) : old[a] = "failed"
<1>18. PICK held \in SUBSET Nat : held = {k \in Nat : k <= n => So(m[k], k)}
  OBVIOUS
<1>19. 0 \in held
  <2>1. \A t \in T : old[t] # "skipped"
    BY <1>2
  <2>2. \A j : j \notin 1 .. 0
    OBVIOUS
  <2>3. So(old, 0)
    BY <1>6, <2>1, <2>2
  <2> QED
    BY <1>17, <1>18, <2>3
<1>20. ASSUME NEW k \in held PROVE k + 1 \in held
  <2> SUFFICES ASSUME k + 1 <= n PROVE So(m[k + 1], k + 1)
    BY <1>18
  <2>1. k \in Nat /\ k <= n /\ k + 1 \in 1 .. n /\ (k + 1) - 1 = k
    BY <1>2, <1>18
  <2>2. PICK s, new, t : s = m[k] /\ new = m[k + 1] /\ t = list[k + 1]
    OBVIOUS
  <2>3. So(s, k)
    BY <1>18, <2>1, <2>2
  <2>4. t \in T /\ new = W!Skip(s, t)
    BY <1>3, <1>17, <2>1, <2>2
  <2>5. /\ new \in V /\ \A u \in T : u # t => new[u] = s[u]
        /\ new[t] = IF s[t] = "pending" /\ \E d \in deps[t] : s[d] \in {"failed", "skipped"}
                    THEN "skipped" ELSE s[t]
    BY <1>7, <2>3, <2>4
  <2>6. ASSUME NEW d \in deps[t] PROVE d \in T /\ s[d] # "pending"
    <3>1. PICK j \in 1 .. k : list[j] = d
      BY <1>3, <2>1, <2>2, <2>6
    <3>2. d \in T
      BY <1>2, <2>4, <2>6 DEF Graph
    <3> QED
      BY <2>3, <3>1, <3>2
  <2>7. new[t] # "pending"
    <3> SUFFICES ASSUME s[t] = "pending" PROVE \E d \in deps[t] : s[d] \in {"failed", "skipped"}
      BY <2>5
    <3>1. old[t] = "pending"
      BY <2>3, <2>4
    <3>2. PICK d \in deps[t] : old[d] # "done"
      BY <1>2, <2>4, <3>1
    <3>3. d \in T /\ s[d] # "pending" /\ s[d] \in {old[d], "skipped"} /\ old[d] \in {"pending", "done", "failed"}
      BY <1>2, <2>3, <2>6
    <3> QED
      BY <3>2, <3>3
  <2>8. ASSUME new[t] = "skipped" PROVE \E a \in Above(T, deps, t) : old[a] = "failed"
    <3>1. CASE s[t] = "skipped"
      BY <2>3, <2>4, <3>1
    <3>2. CASE s[t] # "skipped"
      <4>1. PICK d \in deps[t] : s[d] \in {"failed", "skipped"}
        BY <2>5, <2>8, <3>2
      <4>2. d \in T /\ d \in Above(T, deps, t) /\ Above(T, deps, d) \subseteq Above(T, deps, t)
        BY <1>2, <2>4, AboveDirect
      <4>3. CASE s[d] = "failed"
        BY <2>3, <4>2, <4>3
      <4>4. CASE s[d] = "skipped"
        BY <2>3, <4>2, <4>4
      <4> QED
        BY <4>1, <4>3, <4>4
    <3> QED
      BY <3>1, <3>2
  <2>9. \A u \in T : new[u] \in {old[u], "skipped"} /\ (old[u] # "pending" => new[u] = old[u])
    BY <2>3, <2>4, <2>5
  <2>10. \A j \in 1 .. k + 1 : new[list[j]] # "pending"
    <3> SUFFICES ASSUME NEW j \in 1 .. k + 1 PROVE new[list[j]] # "pending"
      OBVIOUS
    <3>1. j \in 1 .. n /\ (j \in 1 .. k \/ j = k + 1)
      BY <1>2, <2>1
    <3>2. list[j] \in T
      BY <1>3, <3>1
    <3> QED
      BY <2>2, <2>3, <2>5, <2>7, <3>1, <3>2
  <2>11. \A u \in T : new[u] = "skipped" => \E a \in Above(T, deps, u) : old[a] = "failed"
    BY <2>3, <2>5, <2>8
  <2> QED
    BY <2>2, <2>5, <2>9, <2>10, <2>11
<1>21. So(m[n], n)
  <2> HIDE DEF So
  <2>1. held = Nat
    BY <1>19, <1>20, Induction
  <2>2. n \in held /\ n <= n
    BY <1>2, <2>1
  <2> QED
    BY <1>18, <2>2
<1>22. PICK s : s = m[n]
  OBVIOUS
<1>23. \A t \in T : s[t] \in Settled
  BY <1>4, <1>5, <1>21, <1>22
<1>24. s \in [T -> Settled]
  BY <1>5, <1>21, <1>22, <1>23
<1>25. ASSUME NEW t \in T, s[t] = "skipped" PROVE \E a \in Above(T, deps, t) : s[a] = "failed"
  <2>1. PICK a \in Above(T, deps, t) : old[a] = "failed"
    BY <1>21, <1>22, <1>25
  <2>2. a \in T
    BY <2>1 DEF Above
  <2> QED
    BY <1>21, <1>22, <2>1, <2>2
<1>26. ASSUME NEW t \in T, NEW a \in Above(T, deps, t), s[a] = "failed", s[t] # "skipped" PROVE FALSE
  <2>1. PICK done : done = {u \in T : old[u] = "done"}
    OBVIOUS
  <2>2. ASSUME NEW u \in T, old[u] # "pending" PROVE deps[u] \subseteq done
    <3>1. deps[u] \subseteq T /\ \A d \in deps[u] : old[d] = "done"
      BY <1>2, <2>2 DEF Graph
    <3> QED
      BY <2>1, <3>1
  <2>3. old[t] # "pending"
    BY <1>21, <1>22, <1>23, <1>26 DEF Settled
  <2>4. deps[t] \subseteq done /\ \A u \in done : deps[u] \subseteq done
    BY <2>1, <2>2, <2>3
  <2>5. a \in done /\ a \in T
    BY <2>1, <2>4 DEF Above
  <2> QED
    BY <1>21, <1>22, <1>26, <2>1, <2>5
<1> HIDE DEF So
<1> QED
  BY <1>1, <1>17, <1>22, <1>24, <1>25, <1>26 DEF Told

-------------------------------------------------------------------------------
(* A plan that runs *)

\* A sequence of tasks to run: each once, pending, and all it waits for is done.
RoundOf(T, deps, s, list) ==
  /\ list \in Seq(T)
  /\ \A i, j \in 1 .. Len(list) : i # j => list[i] # list[j]
  /\ \A i \in 1 .. Len(list) : /\ s[list[i]] = "pending"
                              /\ \A d \in deps[list[i]] : s[d] = "done"

Underway(T, deps, s, list, awaited) ==
  /\ s \in [T -> {"pending", "running", "done", "failed"}]
  /\ \A t \in T : s[t] # "pending" => \A d \in deps[t] : s[d] = "done"
  /\ \A t \in T : s[t] = "running" <=> t \in awaited
  /\ \A t, u \in awaited : t = u
  /\ RoundOf(T, deps, s, list)

PlanKept ==
  /\ script = "none" => round = << >> /\ child = {} /\ stopReason = "none"
  /\ script = "plan" => Graph(DOMAIN dependsOn, dependsOn)
  /\ script = "plan" /\ Acyclic(DOMAIN dependsOn, dependsOn) =>
       /\ Placed(DOMAIN dependsOn, dependsOn, tasks) /\ ToSet(tasks) = DOMAIN dependsOn
       /\ stopReason = "none" => Underway(DOMAIN dependsOn, dependsOn, status, round, child)
       /\ stopReason # "none" => Told(DOMAIN dependsOn, dependsOn, status)

\* What GroupPlanner makes of a graph of entities.
LEMMA ClusterGraph ==
  ASSUME NEW relations, NEW limit
  PROVE  Graph(DOMAIN W!DependsOn(relations, limit), W!DependsOn(relations, limit))
<1>1. PICK all, deps : all = W!Clustered(limit) /\ deps = W!DependsOn(relations, limit)
  OBVIOUS
<1>2. all \in SUBSET Nat /\ IsFiniteSet(all)
  <2>1. all \in SUBSET Types
    BY <1>1 DEF W!Clustered
  <2> QED
    BY <2>1, PlanAssumption, FS_Subset
<1>3. W!Edges(relations, limit) \subseteq {e \in relations : {e[1], e[2]} \subseteq all}
  BY <1>1 DEF W!Edges
<1>4. deps = [t \in all |-> {e[1] : e \in {x \in W!Edges(relations, limit) : x[2] = t}}]
  BY <1>1 DEF W!DependsOn
<1>5. ASSUME NEW t \in all
      PROVE  {e[1] : e \in {x \in W!Edges(relations, limit) : x[2] = t}} \in SUBSET all
  BY <1>3
<1>6. deps \in [all -> SUBSET all]
  BY <1>4, <1>5
<1> QED
  BY <1>1, <1>2, <1>6 DEF Graph

LEMMA StartKeeps ==
  ASSUME PlanKept, NEW relations \in SUBSET (Types \X Types), NEW limit, NEW maxAgents,
         W!StartPlan(relations, limit, maxAgents)
  PROVE  PlanKept'
<1>1. /\ script = "none" /\ script' = "plan" /\ child' = child /\ stopReason' = stopReason
      /\ dependsOn' = W!DependsOn(relations, limit) /\ tasks' = W!TopoSort(dependsOn')
      /\ status' = [t \in DOMAIN dependsOn' |-> "pending"] /\ round' = round
  BY DEF W!StartPlan, W!StartWith
<1>2. round' = << >> /\ child' = {} /\ stopReason' = "none"
  BY <1>1 DEF PlanKept
<1>3. PICK T : T = DOMAIN dependsOn'
  OBVIOUS
<1>4. Graph(T, dependsOn')
  BY <1>1, <1>3, ClusterGraph
<1>5. ASSUME Acyclic(T, dependsOn')
      PROVE  /\ Placed(T, dependsOn', tasks') /\ ToSet(tasks') = T
             /\ Underway(T, dependsOn', status', round', child')
  <2>1. Placed(T, dependsOn', tasks') /\ ToSet(tasks') = T
    BY <1>1, <1>4, <1>5, SortPlaces
  <2>2. PICK s, list, awaited : s = status' /\ list = round' /\ awaited = child'
    OBVIOUS
  <2>3. s = [t \in T |-> "pending"] /\ list = << >> /\ awaited = {}
    BY <1>1, <1>2, <1>3, <2>2
  <2>4. list \in Seq(T) /\ \A i : i \notin 1 .. Len(list)
    BY <2>3
  <2>5. RoundOf(T, dependsOn', s, list)
    BY <2>4 DEF RoundOf
  <2>6. Underway(T, dependsOn', s, list, awaited)
    BY <2>3, <2>5 DEF Underway
  <2> QED
    BY <2>1, <2>2, <2>6
<1> QED
  BY <1>1, <1>2, <1>3, <1>4, <1>5 DEF PlanKept

LEMMA ReadyListed ==
  ASSUME NEW T, Graph(T, dependsOn), Placed(T, dependsOn, tasks), ToSet(tasks) = T
  PROVE  /\ RoundOf(T, dependsOn, status, W!ReadyTasks)
         /\ W!ReadyTasks = << >> =>
              \A t \in T : status[t] = "pending" => \E d \in dependsOn[t] : status[d] # "done"
<1>1. PICK list, deps, s, n : list = tasks /\ deps = dependsOn /\ s = status /\ n = Len(list)
  OBVIOUS
<1>2. list \in Seq(T) /\ n \in Nat /\ DOMAIN list = 1 .. n
  BY <1>1, LenProperties DEF Placed
<1>3. PICK at : at = {i \in 1 .. n : s[list[i]] = "pending" /\ \A d \in deps[list[i]] : s[d] = "done"}
  OBVIOUS
<1>4. at \in SUBSET DOMAIN list
  BY <1>2, <1>3
<1>5. PICK ready, size : ready = ElementsAt(list, at) /\ size = Cardinality(at)
  OBVIOUS
<1>6. PICK nth : nth = [k \in 1 .. size |-> Nth(at, k)]
  OBVIOUS
<1>7. /\ size \in Nat /\ ready \in Seq(T) /\ Len(ready) = size
      /\ \A k \in 1 .. size : nth[k] \in at /\ ready[k] = list[nth[k]]
      /\ \A k, l \in 1 .. size : k < l => nth[k] < nth[l]
      /\ \A i \in at : \E k \in 1 .. size : ready[k] = list[i]
  BY <1>2, <1>4, <1>5, <1>6, ElementsAtProperties
<1>8. W!ReadyTasks = ready
  <2>1. W!ReadyTasks = ElementsAt(tasks, {i \in DOMAIN tasks : /\ status[tasks[i]] = "pending"
                                                             /\ \A d \in dependsOn[tasks[i]] : status[d] = "done"})
    BY SameInPlans DEF W!ReadyTasks
  <2>2. at = {i \in DOMAIN tasks : /\ status[tasks[i]] = "pending"
                                 /\ \A d \in dependsOn[tasks[i]] : status[d] = "done"}
    BY <1>1, <1>2, <1>3
  <2> QED
    BY <1>1, <1>5, <2>1, <2>2
<1>9. ASSUME NEW k \in 1 .. size, NEW l \in 1 .. size, k # l PROVE ready[k] # ready[l]
  <2>1. nth[k] # nth[l]
    <3>1. k \in Nat /\ l \in Nat /\ nth[k] \in Nat /\ nth[l] \in Nat
      BY <1>3, <1>7
    <3> QED
      BY <1>7, <1>9, <3>1
  <2>2. nth[k] \in 1 .. n /\ nth[l] \in 1 .. n
    BY <1>3, <1>7
  <2> QED
    BY <1>1, <1>7, <2>1, <2>2 DEF Placed
<1>10. \A k \in 1 .. size : s[ready[k]] = "pending" /\ \A d \in deps[ready[k]] : s[d] = "done"
  BY <1>3, <1>7
<1>11. RoundOf(T, deps, s, ready)
  BY <1>7, <1>9, <1>10 DEF RoundOf
<1>12. ASSUME ready = << >>, NEW t \in T, s[t] = "pending" PROVE \E d \in deps[t] : s[d] # "done"
  <2>1. PICK i \in 1 .. n : list[i] = t
    BY <1>1, <1>2, ElementsOf
  <2>2. size = 0
    BY <1>7, <1>12
  <2>3. i \notin at
    BY <1>7, <2>2
  <2> QED
    BY <1>3, <1>12, <2>1, <2>3
<1> QED
  BY <1>1, <1>8, <1>11, <1>12

LEMMA RoundKeeps == ASSUME PlanKept, W!BeginRound PROVE PlanKept'
<1>1. /\ script = "plan" /\ stopReason = "none" /\ child = {} /\ round' = W!ReadyTasks
      /\ UNCHANGED << script, tasks, dependsOn, status, child, stopReason >>
  BY DEF W!BeginRound, W!Running
<1>2. PICK T, deps, s, list, awaited :
        /\ T = DOMAIN dependsOn /\ deps = dependsOn /\ s = status /\ list = round'
        /\ awaited = child
  OBVIOUS
<1>3. ASSUME Graph(T, deps), Placed(T, deps, tasks), ToSet(tasks) = T,
             Underway(T, deps, s, round, awaited)
      PROVE  Underway(T, deps, s, list, awaited)
  <2>1. RoundOf(T, deps, s, list)
    BY <1>1, <1>2, <1>3, ReadyListed
  <2> QED
    BY <1>3, <2>1 DEF Underway
<1>4. /\ Underway(T, deps, status', round', child') <=> Underway(T, deps, s, list, awaited)
      /\ script' = "plan" /\ stopReason' = "none" /\ dependsOn' = deps /\ tasks' = tasks
  BY <1>1, <1>2
<1> QED
  BY <1>1, <1>2, <1>3, <1>4 DEF PlanKept

LEMMA BeginKeeps == ASSUME PlanKept, W!BeginTask PROVE PlanKept'
<1>1. /\ script = "plan" /\ stopReason = "none" /\ child = {} /\ round # << >>
      /\ child' = {} \/ child' = {Head(round)}
      /\ round' = Tail(round)
      /\ status' = [status EXCEPT ![Head(round)] = IF child' = {} THEN "failed" ELSE "running"]
      /\ UNCHANGED << script, tasks, dependsOn, stopReason >>
  BY DEF W!BeginTask, W!Running, W!AgentBegins, W!AgentFails
<1>2. PICK T, deps, old, list, new, rest, awaited, t, word :
        /\ T = DOMAIN dependsOn /\ deps = dependsOn /\ old = status /\ list = round
        /\ new = status' /\ rest = round' /\ awaited = child' /\ t = Head(round)
        /\ word = IF child' = {} THEN "failed" ELSE "running"
  OBVIOUS
<1>3. ASSUME Graph(T, deps), Underway(T, deps, old, list, {}) PROVE Underway(T, deps, new, rest, awaited)
  <2>1. list \in Seq(T) /\ list # << >> /\ rest = Tail(list) /\ t = Head(list)
    BY <1>1, <1>2, <1>3 DEF Underway, RoundOf
  <2>2. PICK n \in Nat : n = Len(rest)
    BY <2>1
  <2>3. /\ rest \in Seq(T) /\ Len(list) = n + 1 /\ t = list[1]
        /\ \A i \in 1 .. n : rest[i] = list[i + 1]
    BY <2>1, <2>2, HeadTailProperties
  <2>4. /\ old \in [T -> {"pending", "running", "done", "failed"}]
        /\ \A u \in T : old[u] # "pending" => \A d \in deps[u] : old[d] = "done"
        /\ \A u \in T : old[u] # "running"
        /\ \A i, j \in 1 .. n + 1 : i # j => list[i] # list[j]
        /\ \A i \in 1 .. n + 1 : old[list[i]] = "pending" /\ \A d \in deps[list[i]] : old[d] = "done"
    BY <1>3, <2>3 DEF Underway, RoundOf
  <2>5. t \in T /\ old[t] = "pending" /\ \A d \in deps[t] : old[d] = "done"
    <3>1. 1 \in 1 .. n + 1
      OBVIOUS
    <3> QED
      BY <2>1, <2>3, <2>4, <3>1
  <2>6. /\ new = [old EXCEPT ![t] = word] /\ word \in {"running", "failed"}
        /\ awaited = IF word = "running" THEN {t} ELSE {}
    BY <1>1, <1>2
  <2>7. /\ new \in [T -> {"pending", "running", "done", "failed"}] /\ new[t] = word
        /\ \A u \in T : u # t => new[u] = old[u]
    BY <2>4, <2>5, <2>6
  <2>8. \A u \in T : old[u] = "done" => new[u] = "done"
    BY <2>5, <2>7
  <2>9. \A u \in T : deps[u] \subseteq T
    BY <1>3 DEF Graph
  <2>10. \A u \in T : new[u] # "pending" => \A d \in deps[u] : new[d] = "done"
    BY <2>4, <2>5, <2>7, <2>8, <2>9
  <2>11. /\ \A u \in T : new[u] = "running" <=> u \in awaited
         /\ \A u, v \in awaited : u = v
    BY <2>4, <2>5, <2>6, <2>7
  <2>12. \A i \in 1 .. n : i + 1 \in 1 .. n + 1 /\ i + 1 # 1 /\ 1 \in 1 .. n + 1
    OBVIOUS
  <2>13. \A i \in 1 .. n : rest[i] \in T /\ rest[i] # t
    BY <2>2, <2>3, <2>4, <2>12, LenProperties
  <2>14. \A i, j \in 1 .. n : i # j => rest[i] # rest[j]
    <3> SUFFICES ASSUME NEW i \in 1 .. n, NEW j \in 1 .. n, i # j PROVE rest[i] # rest[j]
      OBVIOUS
    <3>1. i + 1 # j + 1
      OBVIOUS
    <3> QED
      BY <2>3, <2>4, <2>12, <3>1
  <2>15. \A i \in 1 .. n : new[rest[i]] = "pending" /\ \A d \in deps[rest[i]] : new[d] = "done"
    BY <2>3, <2>4, <2>7, <2>8, <2>9, <2>12, <2>13
  <2>16. RoundOf(T, deps, new, rest)
    BY <2>2, <2>3, <2>14, <2>15 DEF RoundOf
  <2> QED
    BY <2>7, <2>10, <2>11, <2>16 DEF Underway
<1>4. /\ Underway(T, deps, status, round, child) <=> Underway(T, deps, old, list, {})
      /\ Underway(T, deps, status', round', child') <=> Underway(T, deps, new, rest, awaited)
      /\ script' = "plan" /\ stopReason' = "none" /\ dependsOn' = deps /\ tasks' = tasks
  BY <1>1, <1>2
<1> QED
  BY <1>1, <1>2, <1>3, <1>4 DEF PlanKept

LEMMA EndKeeps ==
  ASSUME PlanKept, NEW t, NEW outcome \in {"done", "failed"}, W!TaskEnds(t, outcome) PROVE PlanKept'
<1>1. /\ script = "plan" /\ stopReason = "none" /\ t \in child /\ child' = {}
      /\ status' = [status EXCEPT ![t] = outcome]
      /\ UNCHANGED << script, tasks, dependsOn, round, stopReason >>
  BY DEF W!TaskEnds, W!Running
<1>2. PICK T, deps, old, list, new, awaited :
        /\ T = DOMAIN dependsOn /\ deps = dependsOn /\ old = status /\ list = round
        /\ new = status' /\ awaited = child
  OBVIOUS
<1>3. ASSUME Graph(T, deps), Underway(T, deps, old, list, awaited) PROVE Underway(T, deps, new, list, {})
  <2>1. /\ old \in [T -> {"pending", "running", "done", "failed"}]
        /\ \A u \in T : old[u] # "pending" => \A d \in deps[u] : old[d] = "done"
        /\ \A u \in T : old[u] = "running" <=> u \in awaited
        /\ \A u, v \in awaited : u = v
        /\ RoundOf(T, deps, old, list)
    BY <1>3 DEF Underway
  <2>2. new = [old EXCEPT ![t] = outcome] /\ t \in awaited
    BY <1>1, <1>2
  <2>3. /\ new \in [T -> {"pending", "running", "done", "failed"}]
        /\ \A u \in T : new[u] = IF u = t THEN outcome ELSE old[u]
    BY <2>1, <2>2
  <2>4. \A u \in T : u = t => old[u] = "running"
    BY <2>1, <2>2
  <2>5. \A u \in T : (old[u] = "done" => new[u] = "done") /\ (new[u] = "pending" <=> old[u] = "pending")
    BY <2>3, <2>4
  <2>6. \A u \in T : deps[u] \subseteq T
    BY <1>3 DEF Graph
  <2>7. \A u \in T : new[u] # "pending" => \A d \in deps[u] : new[d] = "done"
    BY <2>1, <2>5, <2>6
  <2>8. \A u \in T : new[u] # "running"
    <3> SUFFICES ASSUME NEW u \in T, new[u] = "running" PROVE FALSE
      OBVIOUS
    <3>1. u # t /\ old[u] = "running"
      BY <2>3
    <3> QED
      BY <2>1, <2>2, <3>1
  <2>9. RoundOf(T, deps, new, list)
    <3>1. PICK n \in Nat : n = Len(list)
      BY <2>1, LenProperties DEF RoundOf
    <3>2. \A i \in 1 .. n : list[i] \in T
      BY <2>1, <3>1, LenProperties DEF RoundOf
    <3> QED
      BY <2>1, <2>5, <2>6, <3>1, <3>2 DEF RoundOf
  <2> QED
    BY <2>3, <2>7, <2>8, <2>9 DEF Underway
<1>4. /\ Underway(T, deps, status, round, child) <=> Underway(T, deps, old, list, awaited)
      /\ Underway(T, deps, status', round', child') <=> Underway(T, deps, new, list, {})
      /\ script' = "plan" /\ stopReason' = "none" /\ dependsOn' = deps /\ tasks' = tasks
  BY <1>1, <1>2
<1> QED
  BY <1>1, <1>2, <1>3, <1>4 DEF PlanKept

LEMMA ReturnKeeps == ASSUME PlanKept, W!PlanReturns PROVE PlanKept'
<1>1. /\ script = "plan" /\ stopReason = "none" /\ child = {} /\ W!ReadyTasks = << >>
      /\ status' = W!SkipBlocked /\ stopReason' = "completed"
      /\ UNCHANGED << script, tasks, dependsOn, round, child >>
  BY DEF W!PlanReturns, W!Running, W!Stop
<1>2. PICK T : T = DOMAIN dependsOn
  OBVIOUS
<1>3. ASSUME Graph(T, dependsOn), Acyclic(T, dependsOn), Placed(T, dependsOn, tasks), ToSet(tasks) = T,
             Underway(T, dependsOn, status, round, child)
      PROVE  Told(T, dependsOn, status')
  <2>1. /\ status \in [T -> {"pending", "running", "done", "failed"}]
        /\ \A t \in T : status[t] # "pending" => \A d \in dependsOn[t] : status[d] = "done"
        /\ \A t \in T : status[t] # "running"
    BY <1>1, <1>3 DEF Underway
  <2>2. status \in [T -> {"pending", "done", "failed"}]
    BY <2>1
  <2>3. \A t \in T : status[t] = "pending" => \E d \in dependsOn[t] : status[d] # "done"
    BY <1>1, <1>3, ReadyListed
  <2>4. \A t \in T : status[t] = "pending" <=> \E d \in dependsOn[t] : status[d] # "done"
    BY <2>1, <2>3
  <2> QED
    BY <1>1, <1>3, <2>2, <2>4, SkipTells
<1>4. PICK deps, list, new : deps = dependsOn /\ list = tasks /\ new = status'
  OBVIOUS
<1>5. script' = "plan" /\ stopReason' # "none" /\ dependsOn' = deps /\ tasks' = list
  BY <1>1, <1>4
<1> QED
  BY <1>1, <1>2, <1>3, <1>4, <1>5 DEF PlanKept

LEMMA PlanStep == ASSUME PlanKept, W!Next PROVE PlanKept'
<1>1. CASE \E relations \in SUBSET (Types \X Types), limit \in TaskLimits, maxAgents \in AgentCaps :
             W!StartPlan(relations, limit, maxAgents)
  BY <1>1, StartKeeps
<1>2. CASE \/ \E size \in RouteSizes, maxAgents \in AgentCaps : W!StartFan(size, maxAgents)
           \/ W!StartBroken
  <2>1. script' \in {"fan", "broken"}
    BY <1>2 DEF W!StartFan, W!StartBroken, W!StartWith
  <2> QED
    BY <2>1 DEF PlanKept
<1>3. CASE W!Cancel \/ W!Unregister
  <2>1. script # "none" /\ UNCHANGED << script, tasks, dependsOn, status, round, child, stopReason >>
    BY <1>3 DEF W!Cancel, W!Unregister
  <2> QED
    BY <2>1 DEF PlanKept
<1>4. CASE W!BeginRound
  BY <1>4, RoundKeeps
<1>5. CASE W!BeginTask
  BY <1>5, BeginKeeps
<1>6. CASE \E t \in Types, outcome \in {"done", "failed"} : W!TaskEnds(t, outcome)
  BY <1>6, EndKeeps
<1>7. CASE W!PlanReturns
  BY <1>7, ReturnKeeps
<1>8. CASE \/ W!BrokenStops \/ W!BeginEntity \/ W!FanReturns
           \/ \E ok \in BOOLEAN : W!EntityEnds(ok)
  <2>1. script \in {"fan", "broken"} /\ script' = script
    BY <1>8 DEF W!BrokenStops, W!BeginEntity, W!FanReturns, W!EntityEnds, W!Stop
  <2> QED
    BY <2>1 DEF PlanKept
<1> QED
  BY <1>1, <1>2, <1>3, <1>4, <1>5, <1>6, <1>7, <1>8 DEF W!Next, W!Progress

LEMMA PlanSteps == PlanKept /\ [Next]_harnessVars => PlanKept'
<1> SUFFICES ASSUME PlanKept, [Next]_harnessVars PROVE PlanKept'
  OBVIOUS
<1>1. CASE W!Next
  BY <1>1, PlanStep
<1>2. CASE UNCHANGED ofPlan
  BY <1>2 DEF ofPlan, PlanKept
<1> QED
  BY <1>1, <1>2 DEF Next, AgentScene, SessionScene, ProtocolScene, PlanScene, harnessVars

\* What executePlan reports of a plan without cycles: once it has run, a task was
\* skipped exactly if one it waits for, directly or through others, failed, and any
\* other ran, whatever was refused or cancelled on the way.
THEOREM PlansTellWhatRan == Spec => []StatusesExact
<1>1. Init => PlanKept
  BY DEF Init, W!Init, PlanKept
<1>2. PlanKept => StatusesExact
  <2> SUFFICES ASSUME PlanKept, stopReason # "none", script = "plan",
                      \A t \in DOMAIN dependsOn : t \notin W!Ancestors(t),
                      NEW t \in DOMAIN status
               PROVE  /\ status[t] \in {"done", "failed", "skipped"}
                      /\ status[t] = "skipped" <=> \E a \in W!Ancestors(t) : status[a] = "failed"
    BY DEF StatusesExact, W!StatusesExact
  <2>1. PICK T : T = DOMAIN dependsOn
    OBVIOUS
  <2>2. \A u : W!Ancestors(u) = Above(T, dependsOn, u)
    BY <2>1 DEF W!Ancestors, Above
  <2>3. Told(T, dependsOn, status)
    BY <2>1, <2>2 DEF PlanKept, Acyclic
  <2> QED
    BY <2>2, <2>3 DEF Told, Settled
<1> QED
  BY <1>1, <1>2, PlanSteps, PTL DEF Spec

-------------------------------------------------------------------------------
(* The shape of the state of a plan, whatever its cycles *)

Statuses == {"pending", "running", "done", "failed", "skipped"}

PlanTyped ==
  /\ script \in {"none", "plan", "fan", "broken"} /\ cancelled \in BOOLEAN /\ registered \in BOOLEAN
  /\ stopReason \in {"none", "completed", "error", "cancelled"}
  /\ Graph(DOMAIN dependsOn, dependsOn)
  /\ tasks \in Seq(DOMAIN dependsOn) /\ ToSet(tasks) = DOMAIN dependsOn
  /\ status \in [DOMAIN status -> Statuses]
  /\ child = {} \/ \E t : child = {t}
  /\ started \in Nat /\ cap \in Nat /\ started <= cap
  /\ script = "none" => started = 0 /\ child = {} /\ stopReason = "none"

\* Kahn's sort lists all tasks, those of a cycle too.
LEMMA SortLists ==
  ASSUME NEW T, NEW deps, Graph(T, deps)
  PROVE  W!TopoSort(deps) \in Seq(T) /\ ToSet(W!TopoSort(deps)) = T
<1>1. PICK n \in Nat : n = Cardinality(T)
  BY FS_CardinalityType DEF Graph
<1>2. PICK V : V = Seq(T)
  OBVIOUS
<1>3. << >> \in V
  BY <1>2
<1>4. ASSUME NEW list \in V PROVE W!Take(deps, list) \in V
  <2>1. CASE W!Ready(deps, list) = {}
    BY <2>1 DEF W!Take
  <2>2. CASE W!Ready(deps, list) # {}
    <3>1. PICK ready : ready = W!Ready(deps, list)
      OBVIOUS
    <3>2. ready \in SUBSET T /\ ready \in SUBSET Nat
      BY <3>1 DEF W!Ready, Graph
    <3>3. \E m \in ready : \A k \in ready : m <= k
      BY <2>2, <3>1, <3>2, LeastNatural
    <3>4. PICK t : t = W!Least(ready)
      OBVIOUS
    <3>5. t \in ready
      BY <3>3, <3>4 DEF W!Least
    <3>6. list \in Seq(T) /\ t \in T
      BY <1>2, <3>2, <3>5
    <3>7. Append(list, t) \in Seq(T)
      BY <3>6
    <3> QED
      BY <1>2, <2>2, <3>1, <3>4, <3>7 DEF W!Take
  <2> QED
    BY <2>1, <2>2
<1>5. Taking(deps, V)
  BY <1>3, <1>4 DEF Taking
<1>6. PICK m : Rounds(T, deps, V, n, m)
  BY <1>1, <1>5, TakenSteps
<1>7. PICK out, left : out = m[n] /\ left = T \ ToSet(out)
  OBVIOUS
<1>8. out \in Seq(T) /\ W!TopoSort(deps) = out \o W!Sorted(left)
  <2>1. n \in 0 .. n
    OBVIOUS
  <2> QED
    BY <1>2, <1>6, <1>7, <2>1 DEF Rounds
<1>9. left \in SUBSET Nat /\ IsFiniteSet(left)
  BY <1>7, FS_Subset DEF Graph
<1>10. PICK k \in Nat : k = Cardinality(left)
  BY <1>9, FS_CardinalityType
<1>11. PICK nth : nth = [i \in 1 .. k |-> Nth(left, i)]
  OBVIOUS
<1>12. /\ \A i \in 1 .. k : nth[i] \in left
       /\ \A t \in left : \E i \in 1 .. k : nth[i] = t
  BY <1>9, <1>10, <1>11, NthEnumerates
<1>13. W!Sorted(left) = nth
  BY <1>10, <1>11, SameInPlans DEF W!Sorted
<1>14. nth \in Seq(T) /\ Len(nth) = k
  <2>1. \A i \in 1 .. k : nth[i] \in T
    BY <1>7, <1>12
  <2>2. nth \in [1 .. k -> T]
    BY <1>11, <2>1
  <2> QED
    BY <2>2
<1>15. ToSet(nth) = left
  <2>1. ToSet(nth) = {nth[i] : i \in 1 .. k}
    BY <1>14, ElementsOf
  <2> QED
    BY <1>12, <2>1
<1>16. out \o nth \in Seq(T) /\ ToSet(out \o nth) = ToSet(out) \cup left
  BY <1>8, <1>14, <1>15, ElementsOfConcat, ConcatProperties
<1>17. ToSet(out) \subseteq T
  BY <1>8, ElementsOf
<1> QED
  BY <1>7, <1>8, <1>13, <1>16, <1>17

LEMMA StartTyped ==
  ASSUME PlanTyped, NEW relations \in SUBSET (Types \X Types), NEW limit, NEW maxAgents \in AgentCaps,
         W!StartPlan(relations, limit, maxAgents)
  PROVE  PlanTyped'
<1>1. /\ script = "none" /\ script' = "plan" /\ dependsOn' = W!DependsOn(relations, limit)
      /\ tasks' = W!TopoSort(dependsOn') /\ status' = [t \in DOMAIN dependsOn' |-> "pending"]
      /\ cap' = maxAgents /\ UNCHANGED << child, started, cancelled, registered, stopReason >>
  BY DEF W!StartPlan, W!StartWith
<1>2. PICK T : T = DOMAIN dependsOn'
  OBVIOUS
<1>3. Graph(T, dependsOn')
  BY <1>1, <1>2, ClusterGraph
<1>4. tasks' \in Seq(T) /\ ToSet(tasks') = T
  BY <1>1, <1>3, SortLists
<1>5. PICK new : new = status'
  OBVIOUS
<1>6. new \in [DOMAIN new -> Statuses]
  BY <1>1, <1>5 DEF Statuses
<1>7. maxAgents \in Nat
  BY PlanAssumption
<1> QED
  BY <1>1, <1>2, <1>3, <1>4, <1>5, <1>6, <1>7 DEF PlanTyped

LEMMA SkipTyped ==
  ASSUME PlanTyped
  PROVE  W!SkipBlocked \in [DOMAIN status -> Statuses] /\ DOMAIN W!SkipBlocked = DOMAIN status
<1>1. PICK V : V = [DOMAIN status -> Statuses]
  OBVIOUS
<1>2. \A s \in V : \A t : W!Skip(s, t) \in V
  BY <1>1 DEF W!Skip, Statuses
<1>3. PICK n \in Nat : n = Len(tasks)
  BY LenProperties DEF PlanTyped
<1>4. status \in V /\ \A s \in V : \A i \in 1 .. n : W!Skip(s, tasks[i]) \in V
  BY <1>1, <1>2 DEF PlanTyped
<1>5. PICK m : (\A i \in 0 .. n : m[i] \in V) /\ W!SkipBlocked = m[n]
  BY <1>3, <1>4, SkippedSteps
<1>6. n \in 0 .. n
  OBVIOUS
<1> QED
  BY <1>1, <1>5, <1>6

LEMMA PlanTypedStep == ASSUME PlanTyped, W!Next PROVE PlanTyped'
<1>1. CASE \E relations \in SUBSET (Types \X Types), limit \in TaskLimits, maxAgents \in AgentCaps :
             W!StartPlan(relations, limit, maxAgents)
  BY <1>1, StartTyped
<1>2. CASE \/ \E size \in RouteSizes, maxAgents \in AgentCaps : W!StartFan(size, maxAgents)
           \/ W!StartBroken
  <2>1. /\ script = "none" /\ script' \in {"fan", "broken"} /\ cap' \in AgentCaps \cup {0}
        /\ UNCHANGED << tasks, dependsOn, status, child, started, cancelled, registered, stopReason >>
    BY <1>2 DEF W!StartFan, W!StartBroken, W!StartWith
  <2>2. cap' \in Nat
    BY <2>1, PlanAssumption
  <2> QED
    BY <2>1, <2>2 DEF PlanTyped
<1>3. CASE W!Cancel \/ W!Unregister
  <2>1. /\ script # "none" /\ cancelled' \in {cancelled, TRUE} /\ registered' \in {registered, FALSE}
        /\ UNCHANGED << script, tasks, dependsOn, status, child, started, cap, stopReason >>
    BY <1>3 DEF W!Cancel, W!Unregister
  <2> QED
    BY <2>1 DEF PlanTyped
<1>4. CASE W!BeginRound
  <2>1. /\ script = "plan" /\ UNCHANGED << script, tasks, dependsOn, status, child, started, cap,
                                           cancelled, registered, stopReason >>
    BY <1>4 DEF W!BeginRound
  <2> QED
    BY <2>1 DEF PlanTyped
<1>5. CASE W!BeginTask \/ W!BeginEntity
  <2>1. /\ script \in {"plan", "fan"}
        /\ child' = {} \/ child' = {Head(round)}
        /\ started' = started \/ (started' = started + 1 /\ ~ (started >= cap))
        /\ stopReason' \in {stopReason, "cancelled", "error", "none"}
        /\ UNCHANGED << script, tasks, dependsOn, cap, cancelled, registered >>
    BY <1>5 DEF W!BeginTask, W!BeginEntity, W!AgentBegins, W!Refused
  <2>2. PICK new : new = status'
    OBVIOUS
  <2>3. new \in [DOMAIN new -> Statuses]
    <3>1. CASE new = status
      BY <3>1 DEF PlanTyped
    <3>2. ASSUME NEW t, NEW word \in Statuses, new = [status EXCEPT ![t] = word]
          PROVE  new \in [DOMAIN new -> Statuses]
      BY <3>2 DEF PlanTyped
    <3>3. \/ status' = status
          \/ status' = [status EXCEPT ![Head(round)] = IF child' = {} THEN "failed" ELSE "running"]
      BY <1>5 DEF W!BeginTask, W!BeginEntity, W!AgentFails
    <3>4. PICK word \in Statuses : word = IF child' = {} THEN "failed" ELSE "running"
      BY DEF Statuses
    <3>5. new = status \/ new = [status EXCEPT ![Head(round)] = word]
      BY <2>2, <3>3, <3>4
    <3> QED
      BY <3>1, <3>2, <3>5
  <2>4. started' \in Nat /\ started' <= cap
    <3>1. started \in Nat /\ cap \in Nat /\ started <= cap
      BY DEF PlanTyped
    <3>2. started' = started \/ (started' = started + 1 /\ ~ (started >= cap))
      BY <2>1
    <3> QED
      BY <3>1, <3>2
  <2>5. stopReason' \in {"none", "completed", "error", "cancelled"}
    BY <2>1 DEF PlanTyped
  <2>6. child' = {} \/ \E t : child' = {t}
    BY <2>1
  <2> QED
    BY <2>1, <2>2, <2>3, <2>4, <2>5, <2>6 DEF PlanTyped
<1>6. CASE \/ \E t \in Types, outcome \in {"done", "failed"} : W!TaskEnds(t, outcome)
           \/ \E ok \in BOOLEAN : W!EntityEnds(ok)
  <2>1. /\ script \in {"plan", "fan"} /\ child' = {} /\ stopReason' \in {stopReason, "error", "none"}
        /\ UNCHANGED << script, tasks, dependsOn, started, cap, cancelled, registered >>
    BY <1>6 DEF W!TaskEnds, W!EntityEnds
  <2>2. PICK new : new = status'
    OBVIOUS
  <2>3. new \in [DOMAIN new -> Statuses]
    <3>1. CASE new = status
      BY <3>1 DEF PlanTyped
    <3>2. ASSUME NEW t, NEW word \in Statuses, new = [status EXCEPT ![t] = word]
          PROVE  new \in [DOMAIN new -> Statuses]
      BY <3>2 DEF PlanTyped
    <3>3. {"done", "failed"} \subseteq Statuses
      BY DEF Statuses
    <3>4. \/ new = status
          \/ \E t \in Types, word \in {"done", "failed"} : new = [status EXCEPT ![t] = word]
      BY <1>6, <2>2 DEF W!TaskEnds, W!EntityEnds
    <3> QED
      BY <3>1, <3>2, <3>3, <3>4
  <2> QED
    BY <2>1, <2>2, <2>3 DEF PlanTyped
<1>7. CASE W!BrokenStops \/ W!FanReturns \/ W!PlanReturns
  <2>1. /\ script # "none" /\ stopReason' \in {"error", "completed"}
        /\ UNCHANGED << script, tasks, dependsOn, child, started, cap, cancelled, registered >>
    BY <1>7 DEF W!BrokenStops, W!FanReturns, W!PlanReturns, W!Stop, W!Running
  <2>2. PICK new : new = status'
    OBVIOUS
  <2>3. new = status \/ new = W!SkipBlocked
    BY <1>7, <2>2 DEF W!BrokenStops, W!FanReturns, W!PlanReturns
  <2>4. new \in [DOMAIN new -> Statuses]
    BY <2>3, SkipTyped DEF PlanTyped
  <2> QED
    BY <2>1, <2>2, <2>4 DEF PlanTyped
<1> QED
  BY <1>1, <1>2, <1>3, <1>4, <1>5, <1>6, <1>7 DEF W!Next, W!Progress

LEMMA PlanTypes == Spec => []W!PlanTypeOK
<1>1. Init => PlanTyped
  <2> SUFFICES ASSUME Init PROVE PlanTyped
    OBVIOUS
  <2>1. /\ script = "none" /\ tasks = << >> /\ dependsOn = << >> /\ status = << >>
        /\ child = {} /\ started = 0 /\ cap = 0
        /\ cancelled = FALSE /\ registered = TRUE /\ stopReason = "none"
    BY DEF Init, W!Init
  <2>2. PICK none : none = << >>
    OBVIOUS
  <2>3. DOMAIN none = {} /\ none \in Seq({}) /\ ToSet(none) = {}
    BY <2>2 DEF ToSet
  <2>4. none \in [{} -> SUBSET {}] /\ none \in [{} -> Statuses]
    BY <2>2, <2>3
  <2>5. Graph({}, none)
    BY <2>4, FS_EmptySet DEF Graph
  <2>6. tasks = none /\ dependsOn = none /\ status = none
    BY <2>1, <2>2
  <2>7. Graph(DOMAIN dependsOn, dependsOn) /\ tasks \in Seq(DOMAIN dependsOn) /\ ToSet(tasks) = DOMAIN dependsOn
    BY <2>3, <2>5, <2>6
  <2>8. status \in [DOMAIN status -> Statuses]
    BY <2>3, <2>4, <2>6
  <2>9. started \in Nat /\ cap \in Nat /\ started <= cap
    BY <2>1
  <2> QED
    BY <2>1, <2>7, <2>8, <2>9 DEF PlanTyped
<1>2. PlanTyped /\ [Next]_harnessVars => PlanTyped'
  <2> SUFFICES ASSUME PlanTyped, [Next]_harnessVars PROVE PlanTyped'
    OBVIOUS
  <2>1. CASE W!Next
    BY <2>1, PlanTypedStep
  <2>2. CASE UNCHANGED ofPlan
    BY <2>2 DEF ofPlan, PlanTyped
  <2> QED
    BY <2>1, <2>2 DEF Next, AgentScene, SessionScene, ProtocolScene, PlanScene, harnessVars
<1>3. PlanTyped => W!PlanTypeOK
  <2> SUFFICES ASSUME PlanTyped PROVE W!PlanTypeOK
    OBVIOUS
  <2>1. W!Cardinality(child) <= 1
    <3>1. Cardinality(child) = 0 \/ Cardinality(child) = 1
      BY FS_EmptySet, FS_Singleton DEF PlanTyped
    <3> QED
      BY <3>1, SameInPlans
  <2>2. W!ToSet(tasks) = DOMAIN dependsOn
    BY SameInPlans DEF PlanTyped
  <2>3. \A t \in DOMAIN status : status[t] \in Statuses
    BY DEF PlanTyped
  <2> QED
    BY <2>1, <2>2, <2>3 DEF PlanTyped, W!PlanTypeOK, Statuses
<1> QED
  BY <1>1, <1>2, <1>3, PTL DEF Spec

-------------------------------------------------------------------------------
(* The shape of the state of every part *)

LEMMA SessionTypes == Spec => []H!SessionTypeOK
<1>1. SessionInv => H!SessionTypeOK
  <2> SUFFICES ASSUME SessionInv PROVE H!SessionTypeOK
    OBVIOUS
  <2>1. op \in Operation /\ backend \in {"none", "jsonl", "sqlite"}
    BY DEF SessionInv, SessionTyped
  <2>2. ASSUME NEW s \in H!Sessions, NEW e \in H!ToSet(disk[s])
        PROVE  e.seq \in Nat /\ e.parent \in Nat /\ e.kind \in {"message", "compaction", "branch_summary"}
    <3>1. disk[s] \in Seq(Row) /\ e \in ToSet(disk[s])
      BY <2>2, SameSelection DEF SessionInv, SessionTyped
    <3>2. e \in Row
      BY <3>1, ElementsOf
    <3> QED
      BY <3>2 DEF Row
  <2> QED
    BY <2>1, <2>2 DEF Operation, H!SessionTypeOK
<1>2. Init => SessionInv
  BY SessionInit DEF Init
<1> QED
  BY <1>1, <1>2, SessionSteps, PTL DEF Spec

\* What each part of the harness keeps its state in: the messages and flights of the
\* agent, the entries of the repositories, the requests between client and server,
\* and a plan with its tasks, at most one agent awaited and no more than the cap.
THEOREM HarnessTypes == Spec => []HarnessTypeOK
<1>1. HarnessTypeOK <=> A!AgentTypeOK /\ H!SessionTypeOK /\ P!ProtocolTypeOK /\ W!PlanTypeOK
  BY DEF HarnessTypeOK
<1> QED
  BY <1>1, AgentTypes, SessionTypes, ProtocolTypes, PlanTypes, PTL
=============================================================================
