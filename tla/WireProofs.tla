----------------------------- MODULE WireProofs -----------------------------
(***************************************************************************)
(* What the two ends of a connection read is what they wrote: for all       *)
(* lengths of the fields, chunks, files, lists and names, both ask for as   *)
(* many bytes as are sent, nothing is left over, and nobody waits in vain.  *)
(*                                                                         *)
(* A sum over a sequence is defined by recursion; what has to be known of   *)
(* it follows from the least index at which it would not hold.              *)
(***************************************************************************)
EXTENDS Wire, WellFoundedInduction, SequenceTheorems, TLAPS

-----------------------------------------------------------------------------
(* Sums.                                                                    *)

\* Every set of numbers has a least element: an induction that needs no operator.
LEMMA LeastElement ==
    ASSUME NEW T \in SUBSET Nat, T # {}
    PROVE  \E m \in T : \A n \in T : m <= n
  <1>1. IsWellFoundedOn(OpToRel(<, Nat), Nat)
    BY NatLessThanWellFounded
  <1>2. PICK m \in T : \A n \in T : ~ (<<n, m>> \in OpToRel(<, Nat))
    BY <1>1, WFMin
  <1>3. \A n \in T : ~ (n < m)
    BY <1>2 DEF OpToRel
  <1> QED BY <1>3

\* s[i] is the sum of the first i numbers of ns.
IsSum(ns, s) == s = [i \in 0..Len(ns) |-> IF i = 0 THEN 0 ELSE s[i - 1] + ns[i]]

\* The partial sums exist: of the lengths up to which they do not, none is the least.
LEMMA SumExists ==
    ASSUME NEW ns \in Seq(Nat)
    PROVE  \E s \in [0..Len(ns) -> Nat] : IsSum(ns, s)
  <1> DEFINE Upto(k) == {s \in [0..k -> Nat] :
                            s = [i \in 0..k |-> IF i = 0 THEN 0 ELSE s[i - 1] + ns[i]]}
             T == {k \in 0..Len(ns) : Upto(k) = {}}
  <1>1. Upto(0) # {}
    <2>1. [i \in 0..0 |-> 0] \in Upto(0) OBVIOUS
    <2> QED BY <2>1
  <1>2. ASSUME NEW k \in 0..Len(ns) - 1, NEW s \in Upto(k) PROVE Upto(k + 1) # {}
    <2> DEFINE t == [i \in 0..k + 1 |-> IF i = k + 1 THEN s[k] + ns[k + 1] ELSE s[i]]
    <2>1. t \in [0..k + 1 -> Nat] OBVIOUS
    <2>2. \A i \in 0..k : s[i] = IF i = 0 THEN 0 ELSE s[i - 1] + ns[i]
      OBVIOUS
    <2>3. \A i \in 0..k + 1 : t[i] = IF i = 0 THEN 0 ELSE t[i - 1] + ns[i]
      BY <2>2
    <2>4. t = [i \in 0..k + 1 |-> IF i = 0 THEN 0 ELSE t[i - 1] + ns[i]]
      BY <2>3
    <2> QED BY <2>1, <2>4
  <1>3. Upto(Len(ns)) # {}
    <2> HIDE DEF Upto
    <2> SUFFICES ASSUME T # {} PROVE FALSE OBVIOUS
    <2>1. T \in SUBSET Nat OBVIOUS
    <2> HIDE DEF T
    <2>2. PICK m \in T : \A n \in T : m <= n
      BY <2>1, LeastElement
    <2> USE DEF T
    <2>3. m # 0 BY <1>1, <2>2
    <2>4. m - 1 \in 0..Len(ns) - 1 /\ m - 1 \notin T BY <2>2, <2>3
    <2>5. PICK s \in Upto(m - 1) : TRUE
      BY <2>4
    <2>6. (m - 1) + 1 = m BY <2>2
    <2>7. Upto((m - 1) + 1) # {} BY <1>2, <2>4, <2>5
    <2> QED BY <2>2, <2>6, <2>7
  <1>4. PICK s \in [0..Len(ns) -> Nat] :
            s = [i \in 0..Len(ns) |-> IF i = 0 THEN 0 ELSE s[i - 1] + ns[i]]
    BY <1>3
  <1> QED BY <1>4 DEF IsSum

\* Only one function is the partial sums of these numbers.
LEMMA SumIsUnique ==
    ASSUME NEW ns \in Seq(Nat), NEW s, IsSum(ns, s), NEW t, IsSum(ns, t)
    PROVE  s = t
  <1> DEFINE L == Len(ns)
             T == {i \in 0..L : s[i] # t[i]}
  <1>1. L \in Nat OBVIOUS
  <1>2. \A i \in 0..L : s[i] = IF i = 0 THEN 0 ELSE s[i - 1] + ns[i]
    BY DEF IsSum
  <1>3. \A i \in 0..L : t[i] = IF i = 0 THEN 0 ELSE t[i - 1] + ns[i]
    BY DEF IsSum
  <1>4. DOMAIN s = 0..L /\ DOMAIN t = 0..L
    BY DEF IsSum
  <1>5. s = [i \in DOMAIN s |-> s[i]] /\ t = [i \in DOMAIN t |-> t[i]]
    BY DEF IsSum
  <1> HIDE DEF L
  <1>6. T = {}
    <2> SUFFICES ASSUME T # {} PROVE FALSE OBVIOUS
    <2>1. T \in SUBSET Nat BY <1>1
    <2> HIDE DEF T
    <2>2. PICK m \in T : \A n \in T : m <= n
      BY <2>1, LeastElement
    <2>3. m \in 0..L /\ s[m] # t[m]
      BY DEF T
    <2>4. m # 0 BY <1>1, <1>2, <1>3, <2>3
    <2>5. m - 1 \in 0..L /\ m - 1 < m BY <1>1, <2>3, <2>4
    <2>6. m - 1 \notin T BY <2>1, <2>2, <2>3, <2>5
    <2>7. s[m - 1] = t[m - 1] BY <2>5, <2>6 DEF T
    <2> QED BY <1>2, <1>3, <2>3, <2>4, <2>7
  <1> QED BY <1>4, <1>5, <1>6

\* Total is the last of the partial sums.
LEMMA TotalOfSum ==
    ASSUME NEW ns \in Seq(Nat), NEW s, IsSum(ns, s)
    PROVE  Total(ns) = s[Len(ns)]
  <1> DEFINE sum == CHOOSE t : IsSum(ns, t)
  <1>1. IsSum(ns, sum) OBVIOUS
  <1>2. Total(ns) = sum[Len(ns)] BY Zenon DEF Total, IsSum
  <1> HIDE DEF sum
  <1>3. sum = s BY <1>1, SumIsUnique
  <1> QED BY <1>2, <1>3

\* The partial sums, one by one.
PartialSums(ns, s) ==
    /\ IsSum(ns, s) /\ Total(ns) = s[Len(ns)] /\ s[0] = 0
    /\ \A i \in 0..Len(ns) : s[i] \in Nat
    /\ \A i \in 1..Len(ns) : s[i] = s[i - 1] + ns[i]

\* Total is the last of the partial sums.
LEMMA TotalIsSum ==
    ASSUME NEW ns \in Seq(Nat)
    PROVE  \E s : PartialSums(ns, s)
  <1>1. PICK s \in [0..Len(ns) -> Nat] : IsSum(ns, s)
    BY SumExists
  <1>2. Total(ns) = s[Len(ns)]
    BY <1>1, TotalOfSum
  <1>3. \A i \in 0..Len(ns) : s[i] = IF i = 0 THEN 0 ELSE s[i - 1] + ns[i]
    BY <1>1 DEF IsSum
  <1>4. s[0] = 0 /\ \A i \in 1..Len(ns) : s[i] = s[i - 1] + ns[i]
    BY <1>3
  <1>5. \A i \in 0..Len(ns) : s[i] \in Nat
    OBVIOUS
  <1> QED BY <1>1, <1>2, <1>4, <1>5 DEF PartialSums

\* A total of numbers is a number.
LEMMA TotalType ==
    ASSUME NEW ns \in Seq(Nat)
    PROVE  Total(ns) \in Nat
  <1>1. Len(ns) \in 0..Len(ns) OBVIOUS
  <1> QED BY <1>1, TotalIsSum DEF PartialSums

\* The totals of up to three numbers.
LEMMA TotalOfNone == Total(<<>>) = 0
  <1>1. <<>> \in Seq(Nat) /\ Len(<<>>) = 0 OBVIOUS
  <1>2. PICK s : PartialSums(<<>>, s) BY <1>1, TotalIsSum
  <1> QED BY <1>1, <1>2 DEF PartialSums

LEMMA TotalOfOne ==
    ASSUME NEW a \in Nat
    PROVE  Total(<<a>>) = a
  <1> DEFINE ns == <<a>>
  <1>1. ns \in Seq(Nat) /\ Len(ns) = 1
    OBVIOUS
  <1> HIDE DEF ns
  <1>2. PICK s : PartialSums(ns, s)
    BY <1>1, TotalIsSum
  <1>3. s[0] = 0 /\ Total(ns) = s[1] /\ \A i \in 1..1 : s[i] = s[i - 1] + ns[i]
    BY <1>1, <1>2 DEF PartialSums
  <1>4. s[1] = s[0] + a
    BY <1>3 DEF ns
  <1> QED BY <1>3, <1>4 DEF ns

LEMMA TotalOfTwo ==
    ASSUME NEW a \in Nat, NEW b \in Nat
    PROVE  Total(<<a, b>>) = a + b
  <1> DEFINE ns == <<a, b>>
  <1>1. ns \in Seq(Nat) /\ Len(ns) = 2
    OBVIOUS
  <1> HIDE DEF ns
  <1>2. PICK s : PartialSums(ns, s)
    BY <1>1, TotalIsSum
  <1>3. s[0] = 0 /\ Total(ns) = s[2] /\ \A i \in 1..2 : s[i] = s[i - 1] + ns[i]
    BY <1>1, <1>2 DEF PartialSums
  <1>4. s[1] = s[0] + a /\ s[2] = s[1] + b
    BY <1>3 DEF ns
  <1> QED BY <1>3, <1>4 DEF ns

LEMMA TotalOfThree ==
    ASSUME NEW a \in Nat, NEW b \in Nat, NEW c \in Nat
    PROVE  Total(<<a, b, c>>) = a + b + c
  <1> DEFINE ns == <<a, b, c>>
  <1>1. ns \in Seq(Nat) /\ Len(ns) = 3
    OBVIOUS
  <1> HIDE DEF ns
  <1>2. PICK s : PartialSums(ns, s)
    BY <1>1, TotalIsSum
  <1>3. s[0] = 0 /\ Total(ns) = s[3] /\ \A i \in 1..3 : s[i] = s[i - 1] + ns[i]
    BY <1>1, <1>2 DEF PartialSums
  <1>4. s[1] = s[0] + a /\ s[2] = s[1] + b /\ s[3] = s[2] + c
    BY <1>3 DEF ns
  <1> QED BY <1>3, <1>4 DEF ns

\* The partial sums never fall.
LEMMA SumGrows ==
    ASSUME NEW L \in Nat, NEW s, NEW ns, NEW k \in 0..L,
           \A i \in 0..L : s[i] \in Nat,
           \A i \in 1..L : s[i] = s[i - 1] + ns[i] /\ ns[i] \in Nat
    PROVE  s[k] <= s[L]
  <1> DEFINE T == {i \in k..L : s[i] < s[k]}
  <1> SUFFICES ASSUME T # {} PROVE FALSE
    OBVIOUS
  <1>1. T \in SUBSET Nat OBVIOUS
  <1> HIDE DEF T
  <1>2. PICK m \in T : \A n \in T : m <= n
    BY <1>1, LeastElement
  <1>3. m \in k..L /\ s[m] < s[k]
    BY DEF T
  <1>4. m # k
    BY <1>3
  <1>5. m - 1 \in k..L /\ m \in 1..L /\ m - 1 < m
    BY <1>3, <1>4
  <1>6. m - 1 \notin T
    BY <1>1, <1>2, <1>3, <1>5
  <1>7. ~ (s[m - 1] < s[k])
    BY <1>5, <1>6 DEF T
  <1>8. s[m] = s[m - 1] + ns[m] /\ ns[m] \in Nat
    BY <1>5
  <1>9. s[m] \in Nat /\ s[m - 1] \in Nat /\ s[k] \in Nat
    BY <1>3, <1>5
  <1> QED BY <1>3, <1>7, <1>8, <1>9

\* The first numbers, with the next one, are not more than all of them.
LEMMA TotalOfPart ==
    ASSUME NEW ns \in Seq(Nat), NEW ms \in Seq(Nat), NEW k \in 0..Len(ns) - 1,
           Len(ms) = k, \A i \in 1..k : ms[i] = ns[i]
    PROVE  Total(ms) + ns[k + 1] <= Total(ns)
  <1> DEFINE L == Len(ns)
  <1>1. L \in Nat /\ k \in Nat /\ k + 1 \in 1..L /\ k \in 0..L /\ k + 1 \in 0..L
    OBVIOUS
  <1>2. \A i \in 1..L : ns[i] \in Nat
    OBVIOUS
  <1>3. PICK s : PartialSums(ns, s)
    BY TotalIsSum
  <1> DEFINE t == [i \in 0..k |-> s[i]]
  <1>4. \A i \in 0..L : s[i] = IF i = 0 THEN 0 ELSE s[i - 1] + ns[i]
    BY <1>3 DEF IsSum, PartialSums
  <1> HIDE DEF L
  <1>5. ASSUME NEW i \in 0..k
        PROVE  t[i] = IF i = 0 THEN 0 ELSE t[i - 1] + ms[i]
    <2>1. CASE i = 0
      BY <1>1, <1>4, <2>1
    <2>2. CASE i # 0
      <3>1. i \in 0..L /\ i \in 1..k /\ i - 1 \in 0..k
        BY <1>1, <2>2
      <3>2. t[i] = s[i] /\ t[i - 1] = s[i - 1] /\ ms[i] = ns[i]
        BY <3>1
      <3> QED BY <1>4, <2>2, <3>1, <3>2
    <2> QED BY <2>1, <2>2
  <1>6. IsSum(ms, t)
    BY <1>5 DEF IsSum
  <1>7. Total(ms) = t[k]
    BY <1>6, TotalOfSum
  <1>8. Total(ms) = s[k] /\ s[k + 1] = s[k] + ns[k + 1]
    BY <1>1, <1>3, <1>7 DEF PartialSums, L
  <1>9. s[k + 1] <= s[L]
    BY <1>1, <1>2, <1>3, SumGrows DEF PartialSums, L
  <1> QED BY <1>3, <1>8, <1>9 DEF PartialSums, L

-----------------------------------------------------------------------------
(* What a class consists of.                                                *)

Kinds == {"AuthenticationM1", "AuthenticationM3", "AuthenticationM4", "SimpleMessage", "ListM2",
          "ListM3", "DownloadM1", "DownloadM2", "DownloadMi", "UploadM1", "UploadMi", "Rename",
          "Delete"}

FieldNames == {"code", "key", "key_len", "username", "iv", "aad", "tag", "signature", "certificate",
               "certificate_len", "list_size", "file_list", "filename", "file_size", "chunk", "old",
               "new"}

\* A field has the width that its name says.
FieldsOf(kind, n) ==
    {g \in FieldNames \X Nat \X {"host", "net"} :
        /\ g[1] \in {"username", "filename", "old", "new"} => g[2] = NameLen
        /\ g[1] = "file_list" => kind = "ListM3" /\ g[2] = n
        /\ g[1] = "list_size" => kind = "ListM2"
        /\ g[1] = "file_size" => kind \in {"DownloadM2", "UploadM1"}}

\* So is the width of fields.
LEMMA WidthType ==
    ASSUME NEW kind, NEW n, NEW fields \in Seq(FieldsOf(kind, n))
    PROVE  Width(fields) \in Nat
  <1> DEFINE ns == [i \in DOMAIN fields |-> fields[i][2]]
  <1>1. ns \in Seq(Nat)
    BY DEF FieldsOf
  <1> QED BY <1>1, TotalType DEF Width

\* A field is as long as it is wide, and ends where the message ends at the latest.
LEMMA PlacesFit ==
    ASSUME NEW kind, NEW n, NEW fields \in Seq(FieldsOf(kind, n)), NEW p \in Places(fields)
    PROVE  \E i \in 1..Len(fields) :
              /\ p.field = fields[i][1] /\ p.bytes = fields[i][2]
              /\ p.at \in Nat /\ p.at + p.bytes <= Width(fields)
  <1>1. PICK i \in DOMAIN fields :
            p = [field |-> fields[i][1], order |-> fields[i][3], bytes |-> fields[i][2],
                 at |-> Width(SubSeq(fields, 1, i - 1))]
    BY DEF Places
  <1> DEFINE front == SubSeq(fields, 1, i - 1)
             ns == [j \in DOMAIN fields |-> fields[j][2]]
             ms == [j \in DOMAIN front |-> front[j][2]]
             k == i - 1
  <1>2. i \in 1..Len(fields) /\ k \in Nat /\ k + 1 = i
    OBVIOUS
  <1>3. front \in Seq(FieldsOf(kind, n)) /\ Len(front) = k /\ \A j \in 1..k : front[j] = fields[j]
    BY <1>2
  <1>4. Len(ns) = Len(fields) /\ ns \in Seq(Nat)
    BY DEF FieldsOf
  <1>5. Len(ms) = k /\ ms \in Seq(Nat) /\ \A j \in 1..k : ms[j] = ns[j]
    <2> HIDE DEF front
    <2>0. \A j \in 1..k : front[j] \in FieldsOf(kind, n)
      BY <1>2, <1>3
    <2>1. \A j \in 1..k : front[j][2] \in Nat
      BY <2>0 DEF FieldsOf
    <2>2. DOMAIN front = 1..k
      BY <1>3
    <2>3. ms \in [1..k -> Nat]
      BY <2>1, <2>2
    <2>5. ms \in Seq(Nat) /\ Len(ms) = k
      BY <1>2, <2>3
    <2>4. \A j \in 1..k : ms[j] = ns[j]
      BY <1>2, <1>3
    <2> QED BY <2>5, <2>4
  <1>6. ns[k + 1] = fields[i][2]
    BY <1>2
  <1> HIDE DEF ns, ms, k
  <1>7. Total(ms) + ns[k + 1] <= Total(ns)
    BY <1>2, <1>4, <1>5, TotalOfPart
  <1>8. Width(fields) = Total(ns) /\ p.at = Total(ms)
    BY <1>1 DEF Width, ns, ms
  <1>9. Total(ms) \in Nat
    BY <1>5, TotalType
  <1> QED BY <1>1, <1>2, <1>6, <1>7, <1>8, <1>9

\* What a field made by F or N consists of.
LEMMA FieldIs ==
    ASSUME NEW f, NEW w
    PROVE  /\ F(f, w)[1] = f /\ F(f, w)[2] = w /\ F(f, w)[3] = "host"
           /\ N(f)[1] = f /\ N(f)[2] = NumLen /\ N(f)[3] = "net"
  BY DEF F, N

\* Which of them a class may have.
LEMMA FieldMember ==
    ASSUME NEW kind, NEW n, NEW f \in FieldNames, NEW w \in Nat,
           f \in {"username", "filename", "old", "new"} => w = NameLen,
           f = "file_list" => kind = "ListM3" /\ w = n,
           f = "list_size" => kind = "ListM2",
           f = "file_size" => kind \in {"DownloadM2", "UploadM1"}
    PROVE  /\ F(f, w) \in FieldsOf(kind, n)
           /\ w = NumLen => N(f) \in FieldsOf(kind, n)
  <1>1. F(f, w) \in FieldNames \X Nat \X {"host", "net"}
    BY DEF F
  <1>2. w = NumLen => N(f) \in FieldNames \X Nat \X {"host", "net"}
    BY DEF N
  <1> QED BY <1>1, <1>2, FieldIs DEF FieldsOf

\* The widths of up to three fields.
LEMMA WidthOfOne ==
    ASSUME NEW a, NEW k \in Nat
    PROVE  Width(<<F(a, k)>>) = k
  <1>1. [i \in DOMAIN <<F(a, k)>> |-> <<F(a, k)>>[i][2]] = <<k>>
    BY FieldIs
  <1> QED BY <1>1, TotalOfOne DEF Width

LEMMA WidthOfTwo ==
    ASSUME NEW a, NEW k \in Nat, NEW b, NEW l \in Nat
    PROVE  Width(<<F(a, k), F(b, l)>>) = k + l
  <1>1. [i \in DOMAIN <<F(a, k), F(b, l)>> |-> <<F(a, k), F(b, l)>>[i][2]] = <<k, l>>
    BY FieldIs
  <1> QED BY <1>1, TotalOfTwo DEF Width

LEMMA WidthOfThree ==
    ASSUME NEW a, NEW k \in Nat, NEW b, NEW l \in Nat, NEW c, NEW m \in Nat
    PROVE  Width(<<F(a, k), F(b, l), F(c, m)>>) = k + l + m
  <1>1. [i \in DOMAIN <<F(a, k), F(b, l), F(c, m)>> |-> <<F(a, k), F(b, l), F(c, m)>>[i][2]]
            = <<k, l, m>>
    BY FieldIs
  <1> QED BY <1>1, TotalOfThree DEF Width

PacketKinds == {"SimpleMessage", "ListM2", "DownloadM1", "UploadM1", "Rename", "Delete"}

Shaped(kind, n) ==
    LET c == Class(kind, n)
    IN  /\ c.read = c.written /\ c.written \in Seq(FieldsOf(kind, n))
        /\ c.size \in Nat /\ c.buffer \in Nat /\ Width(c.written) <= c.size /\ c.size <= c.buffer
        /\ kind \in PacketKinds => c.buffer = PacketSize
        /\ kind \in {"SimpleMessage", "Rename"} => c.size = PacketSize

\* The lengths of Config.h and Authentication.h, one by one.
LEMMA Lengths ==
    /\ CodeLen \in Nat /\ NumLen \in Nat /\ NameLen \in Nat /\ IvLen \in Nat /\ AadLen \in Nat
    /\ TagLen \in Nat /\ KeyLen \in Nat /\ SigLen \in Nat /\ CertLen \in Nat /\ PacketSize \in Nat
    /\ PacketSize = CodeLen + 2 * NameLen /\ NumLen <= NameLen
  BY FieldsAssumption

\* A message as long as its fields keeps its shape,
LEMMA SumShape ==
    ASSUME NEW kind \in Kinds \ PacketKinds, NEW n \in Nat,
           NEW fields \in Seq(FieldsOf(kind, n)), Class(kind, n) = Sum(fields)
    PROVE  Shaped(kind, n)
  <1>1. Width(fields) \in Nat BY WidthType
  <1> QED BY <1>1 DEF Shaped, Sum, Layout, PacketKinds

\* and so does one that is filled up to the longest request.
LEMMA PacketShape ==
    ASSUME NEW kind \in PacketKinds, NEW n \in Nat,
           NEW fields \in Seq(FieldsOf(kind, n)), Width(fields) <= PacketSize,
           kind # "SimpleMessage" => Class(kind, n) = Packet(fields),
           kind = "SimpleMessage" => Class(kind, n) = [Packet(fields) EXCEPT !.size = PacketSize],
           kind = "Rename" => Width(fields) = PacketSize
    PROVE  Shaped(kind, n)
  <1>1. Width(fields) \in Nat BY WidthType
  <1>2. Packet(fields) = [written |-> fields, read |-> fields, buffer |-> PacketSize,
                          size |-> Width(fields)]
    BY DEF Packet, Layout
  <1>3. CASE kind = "SimpleMessage"
    <2>1. Class(kind, n) = [written |-> fields, read |-> fields, buffer |-> PacketSize,
                            size |-> PacketSize]
      BY <1>1, <1>2, <1>3
    <2>2. PICK c : c = Class(kind, n)
      OBVIOUS
    <2>3. c.written = fields /\ c.read = fields /\ c.buffer = PacketSize /\ c.size = PacketSize
      BY <2>1, <2>2
    <2>4. PacketSize \in Nat /\ fields \in Seq(FieldsOf(kind, n))
      BY Lengths
    <2> QED BY <1>1, <1>3, <2>2, <2>3, <2>4 DEF Shaped
  <1>4. CASE kind # "SimpleMessage"
    <2>1. Class(kind, n) = Packet(fields)
      BY <1>4
    <2> QED BY <1>1, <1>2, <1>4, <2>1, Lengths DEF Shaped
  <1> QED BY <1>3, <1>4

\* Every class reads what it writes, and its buffer holds all of it.
LEMMA ClassShape ==
    ASSUME NEW kind \in Kinds, NEW n \in Nat
    PROVE  Shaped(kind, n)
  <1> USE Lengths
  <1>1. /\ F("code", CodeLen) \in FieldsOf(kind, n)
        /\ F("key", KeyLen) \in FieldsOf(kind, n)
        /\ N("key_len") \in FieldsOf(kind, n)
        /\ F("username", NameLen) \in FieldsOf(kind, n)
        /\ F("iv", IvLen) \in FieldsOf(kind, n)
        /\ F("aad", AadLen) \in FieldsOf(kind, n)
        /\ F("tag", TagLen) \in FieldsOf(kind, n)
        /\ F("signature", SigLen) \in FieldsOf(kind, n)
        /\ F("certificate", CertLen) \in FieldsOf(kind, n)
        /\ N("certificate_len") \in FieldsOf(kind, n)
    <2>1. F("code", CodeLen) \in FieldsOf(kind, n)
      BY FieldMember DEF FieldNames
    <2>2. F("key", KeyLen) \in FieldsOf(kind, n)
      BY FieldMember DEF FieldNames
    <2>3. N("key_len") \in FieldsOf(kind, n)
      BY FieldMember DEF FieldNames
    <2>4. F("username", NameLen) \in FieldsOf(kind, n)
      BY FieldMember DEF FieldNames
    <2>5. F("iv", IvLen) \in FieldsOf(kind, n)
      BY FieldMember DEF FieldNames
    <2>6. F("aad", AadLen) \in FieldsOf(kind, n)
      BY FieldMember DEF FieldNames
    <2>7. F("tag", TagLen) \in FieldsOf(kind, n)
      BY FieldMember DEF FieldNames
    <2>8. F("signature", SigLen) \in FieldsOf(kind, n)
      BY FieldMember DEF FieldNames
    <2>9. F("certificate", CertLen) \in FieldsOf(kind, n)
      BY FieldMember DEF FieldNames
    <2>10. N("certificate_len") \in FieldsOf(kind, n)
      BY FieldMember DEF FieldNames
    <2> QED BY <2>1, <2>2, <2>3, <2>4, <2>5, <2>6, <2>7, <2>8, <2>9, <2>10
  <1>2. /\ F("filename", NameLen) \in FieldsOf(kind, n)
        /\ F("old", NameLen) \in FieldsOf(kind, n)
        /\ F("new", NameLen) \in FieldsOf(kind, n)
        /\ F("chunk", n) \in FieldsOf(kind, n)
        /\ kind = "ListM3" => F("file_list", n) \in FieldsOf(kind, n)
        /\ kind = "ListM2" => F("list_size", NumLen) \in FieldsOf(kind, n)
        /\ kind \in {"DownloadM2", "UploadM1"} => F("file_size", NumLen) \in FieldsOf(kind, n)
    <2>1. F("filename", NameLen) \in FieldsOf(kind, n)
      BY FieldMember DEF FieldNames
    <2>2. F("old", NameLen) \in FieldsOf(kind, n)
      BY FieldMember DEF FieldNames
    <2>3. F("new", NameLen) \in FieldsOf(kind, n)
      BY FieldMember DEF FieldNames
    <2>4. F("chunk", n) \in FieldsOf(kind, n)
      BY FieldMember DEF FieldNames
    <2>5. kind = "ListM3" => F("file_list", n) \in FieldsOf(kind, n)
      BY FieldMember DEF FieldNames
    <2>6. kind = "ListM2" => F("list_size", NumLen) \in FieldsOf(kind, n)
      BY FieldMember DEF FieldNames
    <2>7. kind \in {"DownloadM2", "UploadM1"} => F("file_size", NumLen) \in FieldsOf(kind, n)
      BY FieldMember DEF FieldNames
    <2> QED BY <2>1, <2>2, <2>3, <2>4, <2>5, <2>6, <2>7
  <1>3. CASE kind = "AuthenticationM1"
    <2>1. Class(kind, n) = AuthenticationM1 BY <1>3 DEF Class
    <2>2. <<F("code", CodeLen), F("key", KeyLen), N("key_len"), F("username", NameLen)>>
             \in Seq(FieldsOf(kind, n))
      BY <1>1
    <2> QED BY <1>3, <2>1, <2>2, SumShape DEF AuthenticationM1, PacketKinds
  <1>4. SignatureFields \in Seq(FieldsOf(kind, n))
    BY <1>1 DEF SignatureFields
  <1>5. CASE kind = "AuthenticationM3"
    <2>1. Class(kind, n) = AuthenticationM3 BY <1>5 DEF Class
    <2>2. /\ <<F("key", KeyLen), N("key_len")>> \in Seq(FieldsOf(kind, n))
          /\ <<F("certificate", CertLen), N("certificate_len")>> \in Seq(FieldsOf(kind, n))
      BY <1>1
    <2> QED BY <1>4, <1>5, <2>1, <2>2, SumShape, ConcatProperties DEF AuthenticationM3, PacketKinds
  <1>6. CASE kind = "AuthenticationM4"
    <2>1. Class(kind, n) = AuthenticationM4 BY <1>6 DEF Class
    <2> QED BY <1>4, <1>6, <2>1, SumShape DEF AuthenticationM4, PacketKinds
  <1>7. CASE kind = "SimpleMessage"
    <2> DEFINE fields == <<F("code", CodeLen)>>
    <2>1. Class(kind, n) = [Packet(fields) EXCEPT !.size = PacketSize]
      BY <1>7 DEF Class, SimpleMessage
    <2>2. fields \in Seq(FieldsOf(kind, n))
      BY <1>1, <1>2, <1>7
    <2>3. Width(fields) = CodeLen
      BY WidthOfOne
    <2> HIDE DEF fields
    <2>4. Width(fields) <= PacketSize /\ (kind = "Rename" => Width(fields) = PacketSize)
      BY <1>7, <2>3
    <2> QED BY <1>7, <2>1, <2>2, <2>4, PacketShape DEF PacketKinds
  <1>8. CASE kind = "ListM2"
    <2> DEFINE fields == <<F("code", CodeLen), F("list_size", NumLen)>>
    <2>1. Class(kind, n) = Packet(fields)
      BY <1>8 DEF Class, ListM2
    <2>2. fields \in Seq(FieldsOf(kind, n))
      BY <1>1, <1>2, <1>8
    <2>3. Width(fields) = CodeLen + NumLen
      BY WidthOfTwo
    <2> HIDE DEF fields
    <2>4. Width(fields) <= PacketSize /\ (kind = "Rename" => Width(fields) = PacketSize)
      BY <1>8, <2>3
    <2> QED BY <1>8, <2>1, <2>2, <2>4, PacketShape DEF PacketKinds
  <1>9. CASE kind = "DownloadM1"
    <2> DEFINE fields == <<F("code", CodeLen), F("filename", NameLen)>>
    <2>1. Class(kind, n) = Packet(fields)
      BY <1>9 DEF Class, DownloadM1
    <2>2. fields \in Seq(FieldsOf(kind, n))
      BY <1>1, <1>2, <1>9
    <2>3. Width(fields) = CodeLen + NameLen
      BY WidthOfTwo
    <2> HIDE DEF fields
    <2>4. Width(fields) <= PacketSize /\ (kind = "Rename" => Width(fields) = PacketSize)
      BY <1>9, <2>3
    <2> QED BY <1>9, <2>1, <2>2, <2>4, PacketShape DEF PacketKinds
  <1>10. CASE kind = "UploadM1"
    <2> DEFINE fields == <<F("code", CodeLen), F("filename", NameLen), F("file_size", NumLen)>>
    <2>1. Class(kind, n) = Packet(fields)
      BY <1>10 DEF Class, UploadM1
    <2>2. fields \in Seq(FieldsOf(kind, n))
      BY <1>1, <1>2, <1>10
    <2>3. Width(fields) = CodeLen + NameLen + NumLen
      BY WidthOfThree
    <2> HIDE DEF fields
    <2>4. Width(fields) <= PacketSize /\ (kind = "Rename" => Width(fields) = PacketSize)
      BY <1>10, <2>3
    <2> QED BY <1>10, <2>1, <2>2, <2>4, PacketShape DEF PacketKinds
  <1>11. CASE kind = "Rename"
    <2> DEFINE fields == <<F("code", CodeLen), F("old", NameLen), F("new", NameLen)>>
    <2>1. Class(kind, n) = Packet(fields)
      BY <1>11 DEF Class, Rename
    <2>2. fields \in Seq(FieldsOf(kind, n))
      BY <1>1, <1>2, <1>11
    <2>3. Width(fields) = CodeLen + NameLen + NameLen
      BY WidthOfThree
    <2> HIDE DEF fields
    <2>4. Width(fields) <= PacketSize /\ (kind = "Rename" => Width(fields) = PacketSize)
      BY <1>11, <2>3
    <2> QED BY <1>11, <2>1, <2>2, <2>4, PacketShape DEF PacketKinds
  <1>12. CASE kind = "Delete"
    <2> DEFINE fields == <<F("code", CodeLen), F("filename", NameLen)>>
    <2>1. Class(kind, n) = Packet(fields)
      BY <1>12 DEF Class, Delete
    <2>2. fields \in Seq(FieldsOf(kind, n))
      BY <1>1, <1>2, <1>12
    <2>3. Width(fields) = CodeLen + NameLen
      BY WidthOfTwo
    <2> HIDE DEF fields
    <2>4. Width(fields) <= PacketSize /\ (kind = "Rename" => Width(fields) = PacketSize)
      BY <1>12, <2>3
    <2> QED BY <1>12, <2>1, <2>2, <2>4, PacketShape DEF PacketKinds
  <1>13. CASE kind = "DownloadM2"
    <2>1. Class(kind, n) = DownloadM2 BY <1>13 DEF Class
    <2>2. <<F("code", CodeLen), F("file_size", NumLen)>> \in Seq(FieldsOf(kind, n))
      BY <1>1, <1>2, <1>13
    <2> QED BY <1>13, <2>1, <2>2, SumShape DEF DownloadM2, PacketKinds
  <1>14. CASE kind = "ListM3"
    <2>1. Class(kind, n) = ListM3(n) BY <1>14 DEF Class
    <2>2. <<F("code", CodeLen), F("file_list", n)>> \in Seq(FieldsOf(kind, n))
      BY <1>1, <1>2, <1>14
    <2> QED BY <1>14, <2>1, <2>2, SumShape DEF ListM3, PacketKinds
  <1>15. CASE kind = "DownloadMi"
    <2>1. Class(kind, n) = DownloadMi(n) BY <1>15 DEF Class
    <2>2. <<F("code", CodeLen), F("chunk", n)>> \in Seq(FieldsOf(kind, n))
      BY <1>1, <1>2, <1>15
    <2> QED BY <1>15, <2>1, <2>2, SumShape DEF DownloadMi, PacketKinds
  <1>16. CASE kind = "UploadMi"
    <2>1. Class(kind, n) = UploadMi(n) BY <1>16 DEF Class
    <2>2. <<F("code", CodeLen), F("chunk", n)>> \in Seq(FieldsOf(kind, n))
      BY <1>1, <1>2, <1>16
    <2> QED BY <1>16, <2>1, <2>2, SumShape DEF UploadMi, PacketKinds
  <1> QED BY <1>3, <1>5, <1>6, <1>7, <1>8, <1>9, <1>10, <1>11, <1>12, <1>13, <1>14,
                <1>15, <1>16
         DEF Kinds

-----------------------------------------------------------------------------
(* What is written is read.                                                 *)

Named(fields) == {g[1] : g \in Range(fields)}

\* The fields of a message are those that it has places for.
LEMMA NamedFields ==
    ASSUME NEW kind, NEW n, NEW fields \in Seq(FieldsOf(kind, n))
    PROVE  /\ {p.field : p \in Places(fields)} = Named(fields)
           /\ Named(fields) \subseteq FieldNames
           /\ \A f \in Named(fields) : \E g \in FieldsOf(kind, n) : g[1] = f
  <1>1. ASSUME NEW f PROVE f \in Named(fields) <=> \E i \in DOMAIN fields : f = fields[i][1]
    BY DEF Named, Range
  <1>2. ASSUME NEW p \in Places(fields) PROVE p.field \in Named(fields)
    BY <1>1 DEF Places
  <1>3. ASSUME NEW i \in DOMAIN fields PROVE \E p \in Places(fields) : p.field = fields[i][1]
    <2> DEFINE p == [field |-> fields[i][1], order |-> fields[i][3], bytes |-> fields[i][2],
                     at |-> Width(SubSeq(fields, 1, i - 1))]
    <2>1. p \in Places(fields) BY DEF Places
    <2>2. p.field = fields[i][1] OBVIOUS
    <2> QED BY <2>1, <2>2
  <1>4. \A i \in DOMAIN fields : fields[i] \in FieldsOf(kind, n)
    OBVIOUS
  <1>5. \A g \in FieldsOf(kind, n) : g[1] \in FieldNames
    BY DEF FieldsOf
  <1> QED BY <1>1, <1>2, <1>3, <1>4, <1>5

\* What deserialize reads out of a whole unit is what the message says, field by field.
LEMMA ReadsBack ==
    ASSUME NEW kind \in Kinds, NEW n \in Nat, NEW u, NEW len \in Nat, NEW sealed,
           u.m.kind = kind, u.m.n = n, u.len = len, u.sealed = sealed,
           Width(Class(kind, n).written) <= len,
           u.m.val = [f \in Named(Class(kind, n).written) |-> u.m.val[f]],
           \A g \in Range(Class(kind, n).written) : Terminated(u.m.val[g[1]], g[2])
    PROVE  Deserialize(kind, n, u, len, sealed) = u.m.val
  <1> DEFINE fields == Class(kind, n).written
             places == Places(fields)
             Chosen(f) == CHOOSE p \in places : p.field = f
  <1>1. Class(kind, n).read = fields /\ fields \in Seq(FieldsOf(kind, n))
    BY ClassShape DEF Shaped
  <1>2. Generic(len).read = Generic(len).written
    BY DEF Generic, Sum, Layout
  <1>3. {p.field : p \in places} = Named(fields)
    BY <1>1, NamedFields
  <1>4. Deserialize(kind, n, u, len, sealed) = [f \in Named(fields) |-> ReadAt(u.m, len, Chosen(f))]
    BY <1>1, <1>2, <1>3 DEF Deserialize
  <1> HIDE DEF fields
  <1>5. ASSUME NEW f \in Named(fields) PROVE ReadAt(u.m, len, Chosen(f)) = u.m.val[f]
    <2> DEFINE p == Chosen(f)
    <2>1. p \in places /\ p.field = f
      BY <1>3
    <2> HIDE DEF p, Chosen
    <2>2. PICK i \in 1..Len(fields) : /\ p.field = fields[i][1] /\ p.bytes = fields[i][2]
                                      /\ p.at \in Nat /\ p.at + p.bytes <= Width(fields)
      BY <1>1, <2>1, PlacesFit
    <2>3. fields[i] \in FieldsOf(kind, n)
      BY <1>1
    <2>4. p.bytes \in Nat
      BY <2>2, <2>3 DEF FieldsOf
    <2>5. Width(fields) \in Nat
      BY <1>1, WidthType
    <2>6. p.at + p.bytes <= len
      BY <2>2, <2>4, <2>5 DEF fields
    <2>7. Terminated(u.m.val[p.field], p.bytes)
      BY <1>1, <2>2 DEF Range, fields
    <2>8. ReadAt(u.m, len, p) = u.m.val[p.field]
      BY <2>1, <2>6, <2>7 DEF ReadAt, fields
    <2> QED BY <2>1, <2>8 DEF p
  <1> QED BY <1>4, <1>5 DEF fields

\* The sizes that the sides go by are numbers.
LEMMA SizesAreNumbers == Sizes \subseteq Nat /\ ListSizes \subseteq Nat
  BY LengthsAssumption DEF Sizes, ListSizes, ListSize

NamesValid == \A i \in 1..2 : names[i] \in Names /\ IsStringValid(names[i])

\* A field gets a value,
LEMMA ValueIsValue ==
    ASSUME NEW f \in FieldNames, NEW code \in Codes, NEW n \in Sizes, NamesValid,
           f = "file_list" => n \in ListSizes
    PROVE  Value(f, code, n) \in Values
  <1>1. CASE f = "code"
    BY <1>1 DEF Value, Values
  <1>2. CASE f \in {"username", "filename", "old", "new"}
    BY <1>2 DEF Value, Values, NamesValid
  <1>3. CASE f \in {"list_size", "file_size"}
    BY <1>3 DEF Value, Values
  <1>4. CASE f = "file_list"
    <2>1. (CHOOSE len \in ListLens : ListSize(len) = n) \in ListLens
      BY <1>4 DEF ListSizes
    <2>2. Value(f, code, n) = <<"text", "list", CHOOSE len \in ListLens : ListSize(len) = n>>
      BY <1>4 DEF Value
    <2> QED BY <2>1, <2>2 DEF Values
  <1>5. CASE f \in {"key", "key_len", "iv", "aad", "tag", "signature", "certificate",
                    "certificate_len", "chunk"}
    <2>1. Value(f, code, n) = <<"bytes", f>>
      BY <1>5 DEF Value
    <2> QED BY <1>5, <2>1 DEF Values
  <1> QED BY <1>1, <1>2, <1>3, <1>4, <1>5 DEF FieldNames

\* none of which looks like bytes that make no sense.
LEMMA NoValueIsGarbled == Garbled \notin Values
  <1>1. Garbled[1] = "garbled" BY DEF Garbled
  <1>2. \A v \in Values : v[1] \in {"code", "number", "text", "bytes"}
    BY NamesAssumption DEF Values
  <1> QED BY <1>1, <1>2

\* A text ends within its field: a name by isStringValid, a list by the NUL that is counted.
LEMMA ValueTerminates ==
    ASSUME NEW kind \in Kinds, NEW n \in Nat, NEW m \in Sizes, NamesValid,
           NEW g \in FieldsOf(kind, n), NEW code \in Codes,
           kind = "ListM3" => n = m /\ m \in ListSizes /\ m # 0
    PROVE  Terminated(Value(g[1], code, m), g[2])
  <1>0. g[1] \in FieldNames /\ g[2] \in Nat
    BY DEF FieldsOf
  <1>1. CASE g[1] \in {"username", "filename", "old", "new"}
    <2>1. g[2] = NameLen
      BY <1>1 DEF FieldsOf
    <2>2. PICK i \in 1..2 : Value(g[1], code, m) = names[i]
      BY <1>1 DEF Value
    <2> QED BY <2>1, <2>2 DEF NamesValid, IsStringValid, Terminated
  <1>2. CASE g[1] = "file_list"
    <2> DEFINE len == CHOOSE l \in ListLens : ListSize(l) = m
    <2>1. kind = "ListM3" /\ g[2] = n
      BY <1>2 DEF FieldsOf
    <2>2. len \in ListLens /\ ListSize(len) = m
      BY <2>1 DEF ListSizes
    <2>3. Value(g[1], code, m) = <<"text", "list", len>>
      BY <1>2 DEF Value
    <2> HIDE DEF len
    <2>4. len < g[2]
      BY <2>1, <2>2, LengthsAssumption DEF ListSize
    <2> QED BY <2>3, <2>4 DEF Terminated
  <1>3. CASE g[1] \notin {"username", "filename", "old", "new", "file_list"}
    <2>1. Value(g[1], code, m) \in {<<"code", code>>, <<"number", m>>, <<"bytes", g[1]>>}
      BY <1>3 DEF Value
    <2>2. Value(g[1], code, m)[1] # "text"
      BY <2>1
    <2> QED BY <2>2 DEF Terminated
  <1> QED BY <1>1, <1>2, <1>3

-----------------------------------------------------------------------------
(* The exchanges.                                                           *)

Turns == [by : Sides, kind : Kinds, n : Nat, codes : SUBSET Codes, sealed : BOOLEAN]

\* What a turn consists of.
LEMMA TurnType ==
    ASSUME NEW by \in Sides, NEW kind \in Kinds, NEW n \in Nat, NEW codes \in SUBSET Codes
    PROVE  LET t == Turn(by, kind, n, codes)
           IN  /\ t \in Turns /\ t.by = by /\ t.kind = kind /\ t.n = n /\ t.codes = codes
               /\ t.sealed
               /\ Plain(t) \in Turns /\ Plain(t).by = by /\ Plain(t).kind = kind /\ Plain(t).n = n
               /\ Plain(t).codes = codes /\ ~Plain(t).sealed
  BY DEF Turn, Turns, Plain

TurnsLike(by, kind, code) ==
    {t \in Turns : t.by = by /\ t.kind = kind /\ t.codes = {code} /\ t.sealed}

\* The chunks of a file are turns of one side, in one class.
LEMMA ChunkTurns ==
    ASSUME NEW by \in Sides, NEW kind \in Kinds, NEW code \in Codes, NEW n \in Nat
    PROVE  Chunks(by, kind, code, n) \in Seq(TurnsLike(by, kind, code))
  <1> DEFINE k == (n + ChunkSize - 1) \div ChunkSize
             S == TurnsLike(by, kind, code)
             Size(i) == IF i * ChunkSize <= n THEN ChunkSize ELSE n % ChunkSize
  <1>1. k \in Nat /\ n % ChunkSize \in Nat /\ ChunkSize \in Nat
    BY LengthsAssumption
  <1>2. Chunks(by, kind, code, n) = [i \in 1..k |-> Turn(by, kind, Size(i), {code})]
    BY DEF Chunks
  <1>3. \A i \in 1..k : Size(i) \in Nat
    BY <1>1
  <1> HIDE DEF k, Size
  <1>4. \A i \in 1..k : Turn(by, kind, Size(i), {code}) \in S
    BY <1>3, TurnType DEF TurnsLike
  <1> HIDE DEF S
  <1>5. [i \in 1..k |-> Turn(by, kind, Size(i), {code})] \in Seq(S)
    <2>1. [i \in 1..k |-> Turn(by, kind, Size(i), {code})] \in [1..k -> S]
      BY <1>4
    <2> QED BY <1>1, <2>1
  <1> QED BY <1>2, <1>5 DEF S

\* The messages that are as long as the longest request when they are encrypted.
OpeningKinds == {"SimpleMessage", "DownloadM1", "UploadM1", "Rename", "Delete"}

AtPlace(o, j, t) ==
    /\ t \in Turns
    /\ t.sealed => IF j = 1 \/ o = "AUTHENTICATION_REQUEST" THEN t.kind \in OpeningKinds
                   ELSE t.kind \notin {"DownloadM1", "UploadM1", "Delete"}
    /\ j = 1 => t.by = "client" /\ (o \in Requests => t.sealed /\ t.codes = {o})
    /\ j = 2 => t.by = "server"
    /\ t.kind = "ListM2" <=> o = "LIST_REQUEST" /\ j = 2
    /\ t.kind = "DownloadM2" <=> o = "DOWNLOAD_REQUEST" /\ j = 2
    /\ t.kind = "UploadM1" <=> o = "UPLOAD_REQUEST" /\ j = 1
    /\ t.kind = "ListM3" => o = "LIST_REQUEST" /\ j = 3 /\ t.by = "server"

\* Both sides go by one length.
LEMMA LengthsAgree ==
    ASSUME NEW o, NEW j, NEW t, AtPlace(o, j, t)
    PROVE  /\ SentLen(t) \in Nat /\ AwaitedLen(o, j, t) = SentLen(t)
           /\ Width(Class(t.kind, t.n).written) <= SentLen(t)
           /\ SentLen(t) <= Class(t.kind, t.n).buffer
  <1>1. t.kind \in Kinds /\ t.n \in Nat /\ t.sealed \in BOOLEAN
    BY DEF AtPlace, Turns
  <1>2. Shaped(t.kind, t.n)
    BY <1>1, ClassShape
  <1>3. Width(Class(t.kind, t.n).written) \in Nat
    BY <1>2, WidthType DEF Shaped
  <1> DEFINE c == Class(t.kind, t.n)
  <1>4. /\ c.size \in Nat /\ Width(c.written) <= c.size /\ c.size <= c.buffer
        /\ t.kind \in PacketKinds => c.buffer = PacketSize
        /\ t.kind \in {"SimpleMessage", "Rename"} => c.size = PacketSize
    BY <1>2 DEF Shaped
  <1>5. SentLen(t) = IF t.sealed /\ t.kind \in {"DownloadM1", "UploadM1", "Delete"} THEN PacketSize
                     ELSE c.size
    BY DEF SentLen, EncryptedLen
  <1>6. AwaitedLen(o, j, t) = IF t.sealed /\ (j = 1 \/ o = "AUTHENTICATION_REQUEST") THEN PacketSize
                              ELSE c.size
    BY DEF AwaitedLen
  <1> HIDE DEF c
  <1>7. AwaitedLen(o, j, t) = SentLen(t)
    BY <1>4, <1>5, <1>6 DEF AtPlace, OpeningKinds
  <1>8. CASE t.sealed /\ t.kind \in {"DownloadM1", "UploadM1", "Delete"}
    <2>1. SentLen(t) = PacketSize /\ c.buffer = PacketSize
      BY <1>4, <1>5, <1>8 DEF PacketKinds
    <2> QED BY <1>3, <1>4, <1>7, <2>1, Lengths DEF c
  <1>9. CASE ~ (t.sealed /\ t.kind \in {"DownloadM1", "UploadM1", "Delete"})
    <2>1. SentLen(t) = c.size
      BY <1>5, <1>9
    <2> QED BY <1>4, <1>7, <2>1 DEF c
  <1> QED BY <1>8, <1>9

Operations == Requests \cup {"AUTHENTICATION_REQUEST"}

\* An exchange begins with the client and ends with the server.
Proper(o, n) ==
    LET e == Exchange(o, n)
    IN  /\ e \in Seq(Turns) /\ Len(e) >= 2 /\ e[Len(e)].by = "server"
        /\ \A j \in 1..Len(e) : AtPlace(o, j, e[j])
        /\ \A j \in 1..Len(e) : e[j].kind = "ListM3" => e[j].n = n /\ n # 0

\* Every exchange is proper, of whatever size.
LEMMA ExchangeIsProper ==
    ASSUME NEW o \in Operations, NEW n \in Nat
    PROVE  Proper(o, n)
  <1>0. "client" \in Sides /\ "server" \in Sides
    BY DEF Sides
  <1>1. CASE o = "AUTHENTICATION_REQUEST"
    <2> DEFINE t1 == Plain(Turn("client", "AuthenticationM1", 0, {"AUTHENTICATION_REQUEST"}))
    <2> DEFINE t2 == Plain(Turn("server", "SimpleMessage", 0, {"ACK"}))
    <2> DEFINE t3 == Plain(Turn("server", "AuthenticationM3", 0, {"none"}))
    <2> DEFINE t4 == Plain(Turn("client", "AuthenticationM4", 0, {"none"}))
    <2> DEFINE t5 == Turn("server", "SimpleMessage", 0, {"AUTHENTICATION_SUCCESS"})
    <2>1. AtPlace(o, 1, t1) /\ t1.kind # "ListM3"
      <3>1. /\ t1 \in Turns /\ t1.by = "client" /\ t1.kind = "AuthenticationM1" /\ t1.n = 0
            /\ t1.codes = {"AUTHENTICATION_REQUEST"} /\ ~t1.sealed
        BY <1>0, <1>1, TurnType DEF Kinds, Codes, Requests
      <3> HIDE DEF t1
      <3> QED BY <1>1, <3>1 DEF AtPlace, OpeningKinds, Requests
    <2>2. AtPlace(o, 2, t2) /\ t2.kind # "ListM3"
      <3>1. /\ t2 \in Turns /\ t2.by = "server" /\ t2.kind = "SimpleMessage" /\ t2.n = 0
            /\ t2.codes = {"ACK"} /\ ~t2.sealed
        BY <1>0, <1>1, TurnType DEF Kinds, Codes, Requests
      <3> HIDE DEF t2
      <3> QED BY <1>1, <3>1 DEF AtPlace, OpeningKinds, Requests
    <2>3. AtPlace(o, 3, t3) /\ t3.kind # "ListM3"
      <3>1. /\ t3 \in Turns /\ t3.by = "server" /\ t3.kind = "AuthenticationM3" /\ t3.n = 0
            /\ t3.codes = {"none"} /\ ~t3.sealed
        BY <1>0, <1>1, TurnType DEF Kinds, Codes, Requests
      <3> HIDE DEF t3
      <3> QED BY <1>1, <3>1 DEF AtPlace, OpeningKinds, Requests
    <2>4. AtPlace(o, 4, t4) /\ t4.kind # "ListM3"
      <3>1. /\ t4 \in Turns /\ t4.by = "client" /\ t4.kind = "AuthenticationM4" /\ t4.n = 0
            /\ t4.codes = {"none"} /\ ~t4.sealed
        BY <1>0, <1>1, TurnType DEF Kinds, Codes, Requests
      <3> HIDE DEF t4
      <3> QED BY <1>1, <3>1 DEF AtPlace, OpeningKinds, Requests
    <2>5. AtPlace(o, 5, t5) /\ t5.kind # "ListM3" /\ t5.by = "server"
      <3>1. /\ t5 \in Turns /\ t5.by = "server" /\ t5.kind = "SimpleMessage" /\ t5.n = 0
            /\ t5.codes = {"AUTHENTICATION_SUCCESS"} /\ t5.sealed
        BY <1>0, <1>1, TurnType DEF Kinds, Codes, Requests
      <3> HIDE DEF t5
      <3> QED BY <1>1, <3>1 DEF AtPlace, OpeningKinds, Requests
    <2>6. Exchange(o, n) = <<t1, t2, t3, t4, t5>>
      BY <1>1 DEF Exchange, Login
    <2> HIDE DEF t1, t2, t3, t4, t5
    <2>7. <<t1, t2, t3, t4, t5>> \in Seq(Turns) /\ Len(<<t1, t2, t3, t4, t5>>) = 5
      BY <2>1, <2>2, <2>3, <2>4, <2>5 DEF AtPlace
    <2>8. \A j \in 1..5 : /\ AtPlace(o, j, <<t1, t2, t3, t4, t5>>[j])
                         /\ <<t1, t2, t3, t4, t5>>[j].kind # "ListM3"
      BY <2>1, <2>2, <2>3, <2>4, <2>5
    <2> QED BY <2>5, <2>6, <2>7, <2>8 DEF Proper
  <1>2. CASE o = "RENAME_REQUEST"
    <2> DEFINE t1 == Turn("client", "Rename", 0, {o})
    <2> DEFINE t2 == Turn("server", "SimpleMessage", 0, {"ACK", "NACK"})
    <2>1. AtPlace(o, 1, t1) /\ t1.kind # "ListM3"
      <3>1. /\ t1 \in Turns /\ t1.by = "client" /\ t1.kind = "Rename" /\ t1.n = 0 /\ t1.codes = {o}
            /\ t1.sealed
        BY <1>0, <1>2, TurnType DEF Kinds, Codes, Requests
      <3> HIDE DEF t1
      <3> QED BY <1>2, <3>1 DEF AtPlace, OpeningKinds, Requests
    <2>2. AtPlace(o, 2, t2) /\ t2.kind # "ListM3" /\ t2.by = "server"
      <3>1. /\ t2 \in Turns /\ t2.by = "server" /\ t2.kind = "SimpleMessage" /\ t2.n = 0
            /\ t2.codes = {"ACK", "NACK"} /\ t2.sealed
        BY <1>0, <1>2, TurnType DEF Kinds, Codes, Requests
      <3> HIDE DEF t2
      <3> QED BY <1>2, <3>1 DEF AtPlace, OpeningKinds, Requests
    <2>3. Exchange(o, n) = <<t1, t2>>
      BY <1>2 DEF Exchange
    <2> HIDE DEF t1, t2
    <2>4. <<t1, t2>> \in Seq(Turns) /\ Len(<<t1, t2>>) = 2
      BY <2>1, <2>2 DEF AtPlace
    <2>5. \A j \in 1..2 : AtPlace(o, j, <<t1, t2>>[j]) /\ <<t1, t2>>[j].kind # "ListM3"
      BY <2>1, <2>2
    <2> QED BY <2>2, <2>3, <2>4, <2>5 DEF Proper
  <1>3. CASE o = "DELETE_REQUEST"
    <2> DEFINE t1 == Turn("client", "Delete", 0, {o})
    <2> DEFINE t2 == Turn("server", "SimpleMessage", 0, {"DELETE_ASK"})
    <2> DEFINE t3 == Turn("client", "SimpleMessage", 0, {"DELETE_CONFIRM"})
    <2> DEFINE t4 == Turn("server", "SimpleMessage", 0, {"ACK"})
    <2>1. AtPlace(o, 1, t1) /\ t1.kind # "ListM3"
      <3>1. /\ t1 \in Turns /\ t1.by = "client" /\ t1.kind = "Delete" /\ t1.n = 0 /\ t1.codes = {o}
            /\ t1.sealed
        BY <1>0, <1>3, TurnType DEF Kinds, Codes, Requests
      <3> HIDE DEF t1
      <3> QED BY <1>3, <3>1 DEF AtPlace, OpeningKinds, Requests
    <2>2. AtPlace(o, 2, t2) /\ t2.kind # "ListM3"
      <3>1. /\ t2 \in Turns /\ t2.by = "server" /\ t2.kind = "SimpleMessage" /\ t2.n = 0
            /\ t2.codes = {"DELETE_ASK"} /\ t2.sealed
        BY <1>0, <1>3, TurnType DEF Kinds, Codes, Requests
      <3> HIDE DEF t2
      <3> QED BY <1>3, <3>1 DEF AtPlace, OpeningKinds, Requests
    <2>3. AtPlace(o, 3, t3) /\ t3.kind # "ListM3"
      <3>1. /\ t3 \in Turns /\ t3.by = "client" /\ t3.kind = "SimpleMessage" /\ t3.n = 0
            /\ t3.codes = {"DELETE_CONFIRM"} /\ t3.sealed
        BY <1>0, <1>3, TurnType DEF Kinds, Codes, Requests
      <3> HIDE DEF t3
      <3> QED BY <1>3, <3>1 DEF AtPlace, OpeningKinds, Requests
    <2>4. AtPlace(o, 4, t4) /\ t4.kind # "ListM3" /\ t4.by = "server"
      <3>1. /\ t4 \in Turns /\ t4.by = "server" /\ t4.kind = "SimpleMessage" /\ t4.n = 0
            /\ t4.codes = {"ACK"} /\ t4.sealed
        BY <1>0, <1>3, TurnType DEF Kinds, Codes, Requests
      <3> HIDE DEF t4
      <3> QED BY <1>3, <3>1 DEF AtPlace, OpeningKinds, Requests
    <2>5. Exchange(o, n) = <<t1, t2, t3, t4>>
      BY <1>3 DEF Exchange
    <2> HIDE DEF t1, t2, t3, t4
    <2>6. <<t1, t2, t3, t4>> \in Seq(Turns) /\ Len(<<t1, t2, t3, t4>>) = 4
      BY <2>1, <2>2, <2>3, <2>4 DEF AtPlace
    <2>7. \A j \in 1..4 : /\ AtPlace(o, j, <<t1, t2, t3, t4>>[j])
                         /\ <<t1, t2, t3, t4>>[j].kind # "ListM3"
      BY <2>1, <2>2, <2>3, <2>4
    <2> QED BY <2>4, <2>5, <2>6, <2>7 DEF Proper
  <1>4. CASE o = "LOGOUT_REQUEST"
    <2> DEFINE t1 == Turn("client", "SimpleMessage", 0, {o})
    <2> DEFINE t2 == Turn("server", "SimpleMessage", 0, {"ACK"})
    <2>1. AtPlace(o, 1, t1) /\ t1.kind # "ListM3"
      <3>1. /\ t1 \in Turns /\ t1.by = "client" /\ t1.kind = "SimpleMessage" /\ t1.n = 0
            /\ t1.codes = {o} /\ t1.sealed
        BY <1>0, <1>4, TurnType DEF Kinds, Codes, Requests
      <3> HIDE DEF t1
      <3> QED BY <1>4, <3>1 DEF AtPlace, OpeningKinds, Requests
    <2>2. AtPlace(o, 2, t2) /\ t2.kind # "ListM3" /\ t2.by = "server"
      <3>1. /\ t2 \in Turns /\ t2.by = "server" /\ t2.kind = "SimpleMessage" /\ t2.n = 0
            /\ t2.codes = {"ACK"} /\ t2.sealed
        BY <1>0, <1>4, TurnType DEF Kinds, Codes, Requests
      <3> HIDE DEF t2
      <3> QED BY <1>4, <3>1 DEF AtPlace, OpeningKinds, Requests
    <2>3. Exchange(o, n) = <<t1, t2>>
      BY <1>4 DEF Exchange
    <2> HIDE DEF t1, t2
    <2>4. <<t1, t2>> \in Seq(Turns) /\ Len(<<t1, t2>>) = 2
      BY <2>1, <2>2 DEF AtPlace
    <2>5. \A j \in 1..2 : AtPlace(o, j, <<t1, t2>>[j]) /\ <<t1, t2>>[j].kind # "ListM3"
      BY <2>1, <2>2
    <2> QED BY <2>2, <2>3, <2>4, <2>5 DEF Proper
  <1>5. CASE o = "LIST_REQUEST"
    <2> DEFINE t1 == Turn("client", "SimpleMessage", 0, {o})
    <2> DEFINE t2 == Turn("server", "ListM2", 0, {"LIST_ACK"})
    <2> DEFINE t3 == Turn("server", "ListM3", n, {"LIST_RESPONSE"})
    <2>1. AtPlace(o, 1, t1) /\ t1.kind # "ListM3"
      <3>1. /\ t1 \in Turns /\ t1.by = "client" /\ t1.kind = "SimpleMessage" /\ t1.n = 0
            /\ t1.codes = {o} /\ t1.sealed
        BY <1>0, <1>5, TurnType DEF Kinds, Codes, Requests
      <3> HIDE DEF t1
      <3> QED BY <1>5, <3>1 DEF AtPlace, OpeningKinds, Requests
    <2>2. AtPlace(o, 2, t2) /\ t2.kind # "ListM3" /\ t2.by = "server"
      <3>1. /\ t2 \in Turns /\ t2.by = "server" /\ t2.kind = "ListM2" /\ t2.n = 0
            /\ t2.codes = {"LIST_ACK"} /\ t2.sealed
        BY <1>0, <1>5, TurnType DEF Kinds, Codes, Requests
      <3> HIDE DEF t2
      <3> QED BY <1>5, <3>1 DEF AtPlace, OpeningKinds, Requests
    <2>3. AtPlace(o, 3, t3) /\ t3.n = n /\ t3.by = "server"
      <3>1. /\ t3 \in Turns /\ t3.by = "server" /\ t3.kind = "ListM3" /\ t3.n = n
            /\ t3.codes = {"LIST_RESPONSE"} /\ t3.sealed
        <4>1. "ListM3" \in Kinds /\ {"LIST_RESPONSE"} \in SUBSET Codes
          BY DEF Kinds, Codes
        <4> QED BY <1>0, <4>1, TurnType
      <3> HIDE DEF t3
      <3> QED BY <1>5, <3>1 DEF AtPlace, OpeningKinds, Requests
    <2>4. Exchange(o, n) = <<t1, t2>> \o (IF n = 0 THEN <<>> ELSE <<t3>>)
      BY <1>5 DEF Exchange
    <2> HIDE DEF t1, t2, t3
    <2>5. CASE n = 0
      <3>1. Exchange(o, n) = <<t1, t2>>
        BY <2>4, <2>5
      <3>2. <<t1, t2>> \in Seq(Turns) /\ Len(<<t1, t2>>) = 2
        BY <2>1, <2>2 DEF AtPlace
      <3>3. \A j \in 1..2 : AtPlace(o, j, <<t1, t2>>[j]) /\ <<t1, t2>>[j].kind # "ListM3"
        BY <2>1, <2>2
      <3> QED BY <2>2, <3>1, <3>2, <3>3 DEF Proper
    <2>6. CASE n # 0
      <3> DEFINE e == <<t1, t2>> \o <<t3>>
      <3>1. Exchange(o, n) = e
        BY <2>4, <2>6
      <3>2. <<t1, t2>> \in Seq(Turns) /\ <<t3>> \in Seq(Turns)
        BY <2>1, <2>2, <2>3 DEF AtPlace
      <3>3. e \in Seq(Turns) /\ Len(e) = 3 /\ e[1] = t1 /\ e[2] = t2 /\ e[3] = t3
        BY <3>2
      <3> HIDE DEF e
      <3>4. \A j \in 1..3 : AtPlace(o, j, e[j]) /\ (e[j].kind = "ListM3" => e[j].n = n)
        BY <2>1, <2>2, <2>3, <3>3
      <3>5. e[Len(e)].by = "server"
        BY <2>3, <3>3
      <3> QED BY <2>6, <3>1, <3>3, <3>4, <3>5 DEF Proper
    <2> QED BY <2>5, <2>6
  <1>6. CASE o = "DOWNLOAD_REQUEST"
    <2> DEFINE t1 == Turn("client", "DownloadM1", 0, {o})
    <2> DEFINE t2 == Turn("server", "DownloadM2", 0, {"DOWNLOAD_ACK", "FILE_NOT_FOUND"})
    <2> DEFINE c == Chunks("server", "DownloadMi", "DOWNLOAD_CHUNK", n)
    <2> DEFINE e == <<t1, t2>> \o c
    <2>1. AtPlace(o, 1, t1) /\ t1.kind # "ListM3"
      <3>1. /\ t1 \in Turns /\ t1.by = "client" /\ t1.kind = "DownloadM1" /\ t1.n = 0
            /\ t1.codes = {o} /\ t1.sealed
        BY <1>0, <1>6, TurnType DEF Kinds, Codes, Requests
      <3> HIDE DEF t1
      <3> QED BY <1>6, <3>1 DEF AtPlace, OpeningKinds, Requests
    <2>2. AtPlace(o, 2, t2) /\ t2.kind # "ListM3" /\ t2.by = "server"
      <3>1. /\ t2 \in Turns /\ t2.by = "server" /\ t2.kind = "DownloadM2" /\ t2.n = 0
            /\ t2.codes = {"DOWNLOAD_ACK", "FILE_NOT_FOUND"} /\ t2.sealed
        BY <1>0, <1>6, TurnType DEF Kinds, Codes, Requests
      <3> HIDE DEF t2
      <3> QED BY <1>6, <3>1 DEF AtPlace, OpeningKinds, Requests
    <2>3. c \in Seq(TurnsLike("server", "DownloadMi", "DOWNLOAD_CHUNK"))
      BY <1>0, ChunkTurns DEF Kinds, Codes
    <2>4. Exchange(o, n) = e
      BY <1>6 DEF Exchange
    <2> HIDE DEF t1, t2, c
    <2>5. Len(c) \in Nat /\ c \in Seq(Turns)
          /\ \A j \in 1..Len(c) : /\ c[j] \in Turns /\ c[j].by = "server" /\ c[j].sealed
                                  /\ c[j].kind = "DownloadMi"
      BY <2>3 DEF TurnsLike
    <2>6. <<t1, t2>> \in Seq(Turns) /\ Len(<<t1, t2>>) = 2
      BY <2>1, <2>2 DEF AtPlace
    <2>7. e \in Seq(Turns) /\ Len(e) = 2 + Len(c) /\ e[1] = t1 /\ e[2] = t2
          /\ \A j \in 3..Len(e) : e[j] = c[j - 2]
      BY <2>5, <2>6
    <2> HIDE DEF e
    <2>8. ASSUME NEW j \in 3..Len(e)
          PROVE  AtPlace(o, j, e[j]) /\ e[j].kind # "ListM3" /\ e[j].by = "server"
      <3>1. j - 2 \in 1..Len(c) /\ j # 1 /\ j # 2
        BY <2>5, <2>7
      <3> QED BY <1>6, <2>5, <2>7, <3>1 DEF AtPlace
    <2>9. \A j \in 1..Len(e) : AtPlace(o, j, e[j]) /\ e[j].kind # "ListM3"
      BY <2>1, <2>2, <2>5, <2>7, <2>8
    <2>10. e[Len(e)].by = "server" /\ Len(e) >= 2
      BY <2>2, <2>5, <2>7, <2>8
    <2> QED BY <2>4, <2>7, <2>9, <2>10 DEF Proper
  <1>7. CASE o = "UPLOAD_REQUEST"
    <2> DEFINE t1 == Turn("client", "UploadM1", 0, {o})
    <2> DEFINE t2 == Turn("server", "SimpleMessage", 0, {"ACK"})
    <2> DEFINE c == Chunks("client", "UploadMi", "UPLOAD_CHUNK", n)
    <2> DEFINE e == <<t1, t2>> \o c \o <<t2>>
    <2>1. AtPlace(o, 1, t1) /\ t1.kind # "ListM3"
      <3>1. /\ t1 \in Turns /\ t1.by = "client" /\ t1.kind = "UploadM1" /\ t1.n = 0
            /\ t1.codes = {o} /\ t1.sealed
        BY <1>0, <1>7, TurnType DEF Kinds, Codes, Requests
      <3> HIDE DEF t1
      <3> QED BY <1>7, <3>1 DEF AtPlace, OpeningKinds, Requests
    <2>2. /\ t2 \in Turns /\ t2.kind = "SimpleMessage" /\ t2.by = "server"
      BY <1>0, <1>7, TurnType DEF Kinds, Codes
    <2>3. c \in Seq(TurnsLike("client", "UploadMi", "UPLOAD_CHUNK"))
      BY <1>0, ChunkTurns DEF Kinds, Codes
    <2>4. Exchange(o, n) = e
      BY <1>7 DEF Exchange
    <2> HIDE DEF t1, t2, c
    <2>5. Len(c) \in Nat /\ c \in Seq(Turns)
          /\ \A j \in 1..Len(c) : /\ c[j] \in Turns /\ c[j].sealed /\ c[j].kind = "UploadMi"
      BY <2>3 DEF TurnsLike
    <2>6. /\ <<t1, t2>> \in Seq(Turns) /\ Len(<<t1, t2>>) = 2
          /\ <<t2>> \in Seq(Turns) /\ Len(<<t2>>) = 1
      BY <2>1, <2>2 DEF AtPlace
    <2>7. e \in Seq(Turns) /\ Len(e) = 3 + Len(c) /\ e[1] = t1 /\ e[2] = t2 /\ e[Len(e)] = t2
          /\ \A j \in 3..Len(e) - 1 : e[j] = c[j - 2]
      BY <2>5, <2>6
    <2> HIDE DEF e
    <2>8. ASSUME NEW j \in 2..Len(e)
          PROVE  AtPlace(o, j, e[j]) /\ e[j].kind # "ListM3"
      <3>1. CASE j = 2 \/ j = Len(e)
        BY <1>7, <2>2, <2>5, <2>7, <3>1 DEF AtPlace, OpeningKinds
      <3>2. CASE j # 2 /\ j # Len(e)
        <4>1. j - 2 \in 1..Len(c) /\ j \in 3..Len(e) - 1 /\ j # 1 /\ j # 2
          BY <2>5, <2>7, <3>2
        <4> QED BY <1>7, <2>5, <2>7, <4>1 DEF AtPlace
      <3> QED BY <3>1, <3>2
    <2>9. \A j \in 1..Len(e) : AtPlace(o, j, e[j]) /\ e[j].kind # "ListM3"
      BY <2>1, <2>5, <2>7, <2>8
    <2>10. e[Len(e)].by = "server" /\ Len(e) >= 2
      BY <2>2, <2>5, <2>7
    <2> QED BY <2>4, <2>7, <2>9, <2>10 DEF Proper
  <1> QED BY <1>1, <1>2, <1>3, <1>4, <1>5, <1>6, <1>7 DEF Operations, Requests

\* The place of exchange o after which both sides know its size.
Announces(o) ==
    CASE o \in {"LIST_REQUEST", "DOWNLOAD_REQUEST"} -> 2
      [] o = "UPLOAD_REQUEST" -> 1
      [] OTHER -> 0

\* Up to that place an exchange is the same for every size, and without one altogether.
LEMMA SameUntilAnnounced ==
    ASSUME NEW o \in Operations, NEW n1 \in Nat, NEW n2 \in Nat, NEW j \in 1..Announces(o)
    PROVE  j \in 1..Len(Exchange(o, n1)) /\ Exchange(o, n1)[j] = Exchange(o, n2)[j]
  <1>1. j \in 1..2 /\ (o = "UPLOAD_REQUEST" => j = 1)
        /\ o \in {"LIST_REQUEST", "DOWNLOAD_REQUEST", "UPLOAD_REQUEST"}
    BY DEF Announces, Operations, Requests
  <1>2. Exchange(o, n1) \in Seq(Turns) /\ Len(Exchange(o, n1)) >= 2
    BY ExchangeIsProper DEF Proper
  <1>3. j \in 1..Len(Exchange(o, n1))
    BY <1>1, <1>2
  <1>4. ASSUME NEW n \in Nat
        PROVE  /\ o = "LIST_REQUEST" => Exchange(o, n)[j] =
                    << Turn("client", "SimpleMessage", 0, {o}),
                       Turn("server", "ListM2", 0, {"LIST_ACK"}) >>[j]
               /\ o = "DOWNLOAD_REQUEST" => Exchange(o, n)[j] =
                    << Turn("client", "DownloadM1", 0, {o}),
                       Turn("server", "DownloadM2", 0, {"DOWNLOAD_ACK", "FILE_NOT_FOUND"}) >>[j]
               /\ o = "UPLOAD_REQUEST" => Exchange(o, n)[j] = Turn("client", "UploadM1", 0, {o})
    <2>1. ASSUME NEW a, NEW b, NEW S, NEW s \in Seq(S)
          PROVE  (<<a, b>> \o s)[j] = <<a, b>>[j]
      <3>1. <<a, b>> \in Seq({a, b}) /\ Len(<<a, b>>) = 2 /\ Len(s) \in Nat
        OBVIOUS
      <3> QED BY <1>1, <3>1
    <2>2. CASE o = "LIST_REQUEST"
      <3> DEFINE a == Turn("client", "SimpleMessage", 0, {o})
                 b == Turn("server", "ListM2", 0, {"LIST_ACK"})
                 c == Turn("server", "ListM3", n, {"LIST_RESPONSE"})
                 s == IF n = 0 THEN <<>> ELSE <<c>>
      <3>1. Exchange(o, n) = <<a, b>> \o s
        BY <2>2 DEF Exchange
      <3> HIDE DEF a, b, c
      <3>2. s \in Seq({c})
        <4>1. <<>> \in Seq({c}) /\ <<c>> \in Seq({c})
          OBVIOUS
        <4> QED BY <4>1
      <3> HIDE DEF s
      <3>3. Exchange(o, n)[j] = <<a, b>>[j]
        BY <2>1, <3>1, <3>2
      <3> QED BY <2>2, <3>3 DEF a, b
    <2>3. CASE o = "DOWNLOAD_REQUEST"
      <3> DEFINE a == Turn("client", "DownloadM1", 0, {o})
                 b == Turn("server", "DownloadM2", 0, {"DOWNLOAD_ACK", "FILE_NOT_FOUND"})
                 s == Chunks("server", "DownloadMi", "DOWNLOAD_CHUNK", n)
      <3>1. Exchange(o, n) = <<a, b>> \o s
        BY <2>3 DEF Exchange
      <3>2. s \in Seq(TurnsLike("server", "DownloadMi", "DOWNLOAD_CHUNK"))
        BY ChunkTurns DEF Sides, Kinds, Codes
      <3> HIDE DEF a, b, s
      <3>3. Exchange(o, n)[j] = <<a, b>>[j]
        BY <2>1, <3>1, <3>2
      <3> QED BY <2>3, <3>3 DEF a, b
    <2>4. CASE o = "UPLOAD_REQUEST"
      <3> DEFINE a == Turn("client", "UploadM1", 0, {o})
                 b == Turn("server", "SimpleMessage", 0, {"ACK"})
                 c == Chunks("client", "UploadMi", "UPLOAD_CHUNK", n)
      <3>1. Exchange(o, n) = <<a, b>> \o c \o <<b>>
        BY <2>4 DEF Exchange
      <3>2. c \in Seq(TurnsLike("client", "UploadMi", "UPLOAD_CHUNK"))
        BY ChunkTurns DEF Sides, Kinds, Codes
      <3> HIDE DEF a, b, c
      <3>3. PICK S : c \in Seq(S)
        BY <3>2
      <3>4. Exchange(o, n)[1] = a
        <4>1. <<a, b>> \in Seq(S \cup {a, b}) /\ Len(<<a, b>>) = 2 /\ <<b>> \in Seq(S \cup {a, b})
              /\ c \in Seq(S \cup {a, b}) /\ <<a, b>>[1] = a
          BY <3>3
        <4> QED BY <3>1, <4>1
      <3> QED BY <1>1, <2>4, <3>4 DEF a
    <2> QED BY <2>2, <2>3, <2>4
  <1> QED BY <1>1, <1>3, <1>4

\* An exchange that tells no size is always the same.
LEMMA SameWithoutSize ==
    ASSUME NEW o \in Operations, Announces(o) = 0, NEW n1, NEW n2
    PROVE  Exchange(o, n1) = Exchange(o, n2)
  <1>1. o \in {"AUTHENTICATION_REQUEST", "RENAME_REQUEST", "DELETE_REQUEST", "LOGOUT_REQUEST"}
    BY DEF Announces, Operations, Requests
  <1> QED BY <1>1 DEF Exchange

\* Only two classes tell the size of a list, and two that of a file.
LEMMA SizeFields ==
    ASSUME NEW kind \in Kinds, NEW n \in Nat
    PROVE  LET named == Named(Class(kind, n).written)
           IN  /\ "list_size" \in named <=> kind = "ListM2"
               /\ "file_size" \in named <=> kind \in {"DownloadM2", "UploadM1"}
  <1> DEFINE fields == Class(kind, n).written
  <1>1. fields \in Seq(FieldsOf(kind, n))
    BY ClassShape DEF Shaped
  <1>2. /\ "list_size" \in Named(fields) => kind = "ListM2"
        /\ "file_size" \in Named(fields) => kind \in {"DownloadM2", "UploadM1"}
    <2> HIDE DEF fields
    <2>1. \A f \in Named(fields) : \E g \in FieldsOf(kind, n) : g[1] = f
      BY <1>1, NamedFields
    <2> QED BY <2>1 DEF FieldsOf
  <1>3. ASSUME NEW f, NEW g, NEW i \in DOMAIN fields, fields[i] = g, g[1] = f
        PROVE  f \in Named(fields)
    BY <1>3 DEF Named, Range
  <1>4. kind = "ListM2" => "list_size" \in Named(fields)
    <2>1. kind = "ListM2" => fields = <<F("code", CodeLen), F("list_size", NumLen)>>
      BY DEF Class, ListM2, Packet, Layout
    <2> HIDE DEF fields
    <2> QED BY <2>1, <1>3, FieldIs
  <1>5. kind = "DownloadM2" => "file_size" \in Named(fields)
    <2>1. kind = "DownloadM2" => fields = <<F("code", CodeLen), F("file_size", NumLen)>>
      BY DEF Class, DownloadM2, Sum, Layout
    <2> HIDE DEF fields
    <2> QED BY <2>1, <1>3, FieldIs
  <1>6. kind = "UploadM1" => "file_size" \in Named(fields)
    <2>1. kind = "UploadM1" =>
            fields = <<F("code", CodeLen), F("filename", NameLen), F("file_size", NumLen)>>
      BY DEF Class, UploadM1, Packet, Layout
    <2> HIDE DEF fields
    <2> QED BY <2>1, <1>3, FieldIs
  <1> QED BY <1>2, <1>4, <1>5, <1>6

\* Every request begins with its code.
LEMMA CodeIsFirst ==
    ASSUME NEW kind \in OpeningKinds, NEW n \in Nat
    PROVE  LET fields == Class(kind, n).written
           IN  Len(fields) >= 1 /\ fields[1] = F("code", CodeLen) /\ "code" \in Named(fields)
  <1> DEFINE fields == Class(kind, n).written
  <1>1. kind \in Kinds
    BY DEF OpeningKinds, Kinds
  <1>2. fields \in Seq(FieldsOf(kind, n))
    BY <1>1, ClassShape DEF Shaped
  <1>3. \/ fields = <<F("code", CodeLen)>>
        \/ fields = <<F("code", CodeLen), F("filename", NameLen)>>
        \/ fields = <<F("code", CodeLen), F("filename", NameLen), F("file_size", NumLen)>>
        \/ fields = <<F("code", CodeLen), F("old", NameLen), F("new", NameLen)>>
    BY DEF OpeningKinds, Class, SimpleMessage, DownloadM1, UploadM1, Rename, Delete, Packet, Layout
  <1> HIDE DEF fields
  <1>4. Len(fields) >= 1 /\ fields[1] = F("code", CodeLen)
    BY <1>3
  <1>5. 1 \in DOMAIN fields
    BY <1>2, <1>4
  <1>6. F("code", CodeLen) \in Range(fields)
    BY <1>4, <1>5 DEF Range
  <1>7. "code" \in Named(fields)
    BY <1>6, FieldIs DEF Named
  <1> QED BY <1>4, <1>7 DEF fields

-----------------------------------------------------------------------------
(* The units of the connection.                                             *)

\* Unit u of the connection says what turn has to say, of size n.
Says(u, turn, n) ==
    LET named == Named(Class(turn.kind, turn.n).written)
    IN  /\ u = [m |-> u.m, len |-> SentLen(turn), sealed |-> turn.sealed]
        /\ u.m = [kind |-> turn.kind, n |-> turn.n, val |-> u.m.val]
        /\ u.m.val \in [named -> Values]
        /\ \A g \in Range(Class(turn.kind, turn.n).written) : Terminated(u.m.val[g[1]], g[2])
        /\ "code" \in named => \E code \in turn.codes : u.m.val["code"] = <<"code", code>>
        /\ \A f \in named \cap {"list_size", "file_size"} : u.m.val[f] = <<"number", n>>

\* So does what a side sends.
LEMMA SentSays ==
    ASSUME NEW turn \in Turns, NEW code \in turn.codes, NEW n \in Sizes, NamesValid,
           turn.kind = "ListM3" => turn.n = n /\ n \in ListSizes /\ n # 0
    PROVE  Says([m |-> Message(turn, code, n), len |-> SentLen(turn), sealed |-> turn.sealed],
                turn, n)
  <1> DEFINE fields == Class(turn.kind, turn.n).written
             m == Message(turn, code, n)
             u == [m |-> m, len |-> SentLen(turn), sealed |-> turn.sealed]
             val == [f \in Named(fields) |-> Value(f, code, n)]
  <1>1. turn.kind \in Kinds /\ turn.n \in Nat /\ code \in Codes
    BY DEF Turns
  <1>2. fields \in Seq(FieldsOf(turn.kind, turn.n))
    BY <1>1, ClassShape DEF Shaped
  <1>3. m = [kind |-> turn.kind, n |-> turn.n, val |-> val]
    BY DEF Message, Named
  <1> HIDE DEF fields
  <1>4. /\ Named(fields) \subseteq FieldNames
        /\ \A f \in Named(fields) : \E g \in FieldsOf(turn.kind, turn.n) : g[1] = f
    BY <1>2, NamedFields
  <1>5. ASSUME NEW f \in Named(fields) PROVE Value(f, code, n) \in Values
    <2>1. f = "file_list" => turn.kind = "ListM3"
      BY <1>4 DEF FieldsOf
    <2> QED BY <1>1, <1>4, <2>1, ValueIsValue
  <1>6. val \in [Named(fields) -> Values]
    BY <1>5
  <1>7. ASSUME NEW g \in Range(fields) PROVE Terminated(val[g[1]], g[2])
    <2>1. g \in FieldsOf(turn.kind, turn.n) /\ g[1] \in Named(fields)
      BY <1>2 DEF Range, Named
    <2>2. Terminated(Value(g[1], code, n), g[2])
      BY <1>1, <2>1, ValueTerminates
    <2> QED BY <2>1, <2>2
  <1>8. "code" \in Named(fields) => val["code"] = <<"code", code>>
    BY DEF Value
  <1>9. \A f \in Named(fields) \cap {"list_size", "file_size"} : val[f] = <<"number", n>>
    BY DEF Value
  <1> HIDE DEF val, m
  <1>10. u.m = m /\ m.val = val /\ u = [m |-> u.m, len |-> SentLen(turn), sealed |-> turn.sealed]
         /\ u.m = [kind |-> turn.kind, n |-> turn.n, val |-> u.m.val]
    BY <1>3
  <1> HIDE DEF u
  <1>11. Says(u, turn, n)
    BY <1>6, <1>7, <1>8, <1>9, <1>10 DEF Says, fields
  <1> QED BY <1>11 DEF u, m

\* What is said is read, whatever the turn.
LEMMA SaidIsRead ==
    ASSUME NEW o, NEW j, NEW turn, AtPlace(o, j, turn), NEW n \in Nat, NEW u, Says(u, turn, n)
    PROVE  LET len == AwaitedLen(o, j, turn)
               read == Deserialize(turn.kind, turn.n, u, len, turn.sealed)
           IN  /\ u.len = len /\ u.sealed = turn.sealed
               /\ read = u.m.val /\ DOMAIN read = Named(Class(turn.kind, turn.n).written)
               /\ \A f \in DOMAIN read : read[f] \in Values /\ read[f] # Garbled
  <1>1. turn.kind \in Kinds /\ turn.n \in Nat
    BY DEF AtPlace, Turns
  <1> DEFINE fields == Class(turn.kind, turn.n).written
             len == AwaitedLen(o, j, turn)
  <1>2. /\ u = [m |-> u.m, len |-> SentLen(turn), sealed |-> turn.sealed]
        /\ u.m = [kind |-> turn.kind, n |-> turn.n, val |-> u.m.val]
        /\ u.m.val \in [Named(fields) -> Values]
        /\ \A g \in Range(fields) : Terminated(u.m.val[g[1]], g[2])
    BY DEF Says
  <1>3. len \in Nat /\ SentLen(turn) = len /\ Width(fields) <= len
    BY LengthsAgree
  <1>4. u.len = len /\ u.sealed = turn.sealed /\ u.m.kind = turn.kind /\ u.m.n = turn.n
    BY <1>2, <1>3
  <1> HIDE DEF len
  <1>5. u.m.val = [f \in Named(fields) |-> u.m.val[f]]
    BY <1>2
  <1>6. Deserialize(turn.kind, turn.n, u, len, turn.sealed) = u.m.val
    BY <1>1, <1>2, <1>3, <1>4, <1>5, ReadsBack
  <1>7. DOMAIN u.m.val = Named(fields) /\ \A f \in Named(fields) : u.m.val[f] \in Values
    BY <1>2
  <1> QED BY <1>4, <1>6, <1>7, NoValueIsGarbled DEF len

\* run() reads the code of a request before it knows what else is in it.
LEMMA CodeIsRead ==
    ASSUME NEW o \in Requests, NEW turn, AtPlace(o, 1, turn), NEW n, NEW u, Says(u, turn, n)
    PROVE  Deserialize("SimpleMessage", 0, u, PacketSize, TRUE)["code"] = <<"code", o>>
  <1> DEFINE fields == Class(turn.kind, turn.n).written
             p == [field |-> "code", order |-> "host", bytes |-> CodeLen, at |-> 0]
             one == <<F("code", CodeLen)>>
  <1>1. turn.kind \in OpeningKinds /\ turn.n \in Nat /\ turn.sealed /\ turn.codes = {o}
    BY DEF AtPlace, Turns
  <1>2. AwaitedLen(o, 1, turn) = PacketSize
    BY <1>1 DEF AwaitedLen
  <1>3. SentLen(turn) = PacketSize
    BY <1>2, LengthsAgree
  <1>4. u.len = PacketSize /\ u.sealed = TRUE /\ u.m.kind = turn.kind /\ u.m.n = turn.n
    <2>1. /\ u = [m |-> u.m, len |-> SentLen(turn), sealed |-> turn.sealed]
          /\ u.m = [kind |-> turn.kind, n |-> turn.n, val |-> u.m.val]
          /\ turn.sealed \in BOOLEAN
      BY DEF Says, AtPlace, Turns
    <2> QED BY <1>1, <1>3, <2>1
  <1>5. Len(fields) >= 1 /\ fields[1] = F("code", CodeLen) /\ "code" \in Named(fields)
    BY <1>1, CodeIsFirst
  <1>6. u.m.val["code"] = <<"code", o>>
    BY <1>1, <1>5 DEF Says
  <1>7. fields \in Seq(FieldsOf(turn.kind, turn.n))
    BY <1>1, ClassShape DEF Shaped, OpeningKinds, Kinds
  <1> HIDE DEF fields
  <1>8. ASSUME NEW s, NEW S, s \in Seq(S), Len(s) >= 1, s[1] = F("code", CodeLen)
        PROVE  p = [field |-> s[1][1], order |-> s[1][3], bytes |-> s[1][2],
                    at |-> Width(SubSeq(s, 1, 1 - 1))] /\ 1 \in DOMAIN s
    <2>1. SubSeq(s, 1, 1 - 1) = <<>>
      BY <1>8
    <2>2. Width(<<>>) = 0
      <3>1. [i \in DOMAIN <<>> |-> <<>>[i][2]] = <<>>
        OBVIOUS
      <3> QED BY <3>1, TotalOfNone DEF Width
    <2>3. s[1][1] = "code" /\ s[1][2] = CodeLen /\ s[1][3] = "host"
      BY <1>8, FieldIs
    <2>4. 1 \in DOMAIN s
      BY <1>8
    <2>5. Width(SubSeq(s, 1, 1 - 1)) = 0
      BY <2>1, <2>2
    <2> QED BY <2>3, <2>4, <2>5
  <1>9. p \in Places(fields)
    BY <1>5, <1>7, <1>8 DEF Places
  <1>10. Places(one) = {p}
    <2>1. one \in Seq({F("code", CodeLen)}) /\ Len(one) = 1 /\ one[1] = F("code", CodeLen)
          /\ DOMAIN one = {1}
      OBVIOUS
    <2> HIDE DEF p, one
    <2>2. p = [field |-> one[1][1], order |-> one[1][3], bytes |-> one[1][2],
               at |-> Width(SubSeq(one, 1, 1 - 1))]
      BY <1>8, <2>1
    <2> QED BY <2>1, <2>2 DEF Places
  <1>11. Class("SimpleMessage", 0).read = one
    BY DEF Class, SimpleMessage, Packet, Layout
  <1>12. Generic(PacketSize).read = Generic(PacketSize).written
    BY DEF Generic, Sum, Layout
  <1>13. ReadAt(u.m, PacketSize, p) = <<"code", o>>
    <2>1. p.field = "code" /\ p.at + p.bytes <= PacketSize
      BY Lengths
    <2>2. Terminated(<<"code", o>>, p.bytes)
      BY DEF Terminated
    <2> HIDE DEF p
    <2> QED BY <1>4, <1>6, <1>9, <2>1, <2>2 DEF ReadAt, fields
  <1>14. (CHOOSE q \in {p} : q.field = "code") = p
    OBVIOUS
  <1> HIDE DEF p, one
  <1>15. "code" \in {q.field : q \in {p}}
    BY DEF p
  <1> QED BY <1>4, <1>10, <1>11, <1>12, <1>13, <1>14, <1>15 DEF Deserialize

\* The bytes that a sequence of units takes up.
BytesIn(w) == Total([i \in DOMAIN w |-> UnitSize(w[i].len, w[i].sealed)])

\* A unit takes up a number of bytes,
LEMMA UnitSizeType ==
    ASSUME NEW len \in Nat, NEW sealed \in BOOLEAN
    PROVE  UnitSize(len, sealed) \in Nat
  <1> DEFINE fields == <<F("iv", IvLen), <<"aad", AadLen, "net">>, F("tag", TagLen),
                         F("ciphertext", len)>>
             ns == [i \in DOMAIN fields |-> fields[i][2]]
  <1>1. \A i \in 1..4 : fields[i][2] \in Nat
    BY FieldIs, Lengths
  <1>2. DOMAIN fields = 1..4
    OBVIOUS
  <1>3. Generic(len).size = Total(ns)
    BY DEF Generic, Sum, Layout, Width
  <1> HIDE DEF fields
  <1>4. ns \in Seq(Nat)
    BY <1>1, <1>2
  <1>5. Total(ns) \in Nat
    BY <1>4, TotalType
  <1> QED BY <1>3, <1>5 DEF UnitSize

\* no unit none.
LEMMA NoBytes == BytesIn(<<>>) = 0
  <1>1. [i \in DOMAIN <<>> |-> UnitSize(<<>>[i].len, <<>>[i].sealed)] = <<>>
    OBVIOUS
  <1> QED BY <1>1, TotalOfNone DEF BytesIn

\* Where a unit waits it is there whole.
LEMMA HeadIsThere ==
    ASSUME NEW S, NEW w \in Seq(S), w # <<>>,
           \A i \in 1..Len(w) : w[i].len \in Nat /\ w[i].sealed \in BOOLEAN
    PROVE  /\ BytesIn(w) \in Nat /\ UnitSize(w[1].len, w[1].sealed) \in Nat
           /\ UnitSize(w[1].len, w[1].sealed) <= BytesIn(w)
  <1> DEFINE ns == [i \in DOMAIN w |-> UnitSize(w[i].len, w[i].sealed)]
  <1>1. DOMAIN w = 1..Len(w) /\ Len(w) \in Nat /\ Len(w) >= 1
    OBVIOUS
  <1>2. \A i \in 1..Len(w) : UnitSize(w[i].len, w[i].sealed) \in Nat
    BY UnitSizeType
  <1>3. ns \in Seq(Nat) /\ Len(ns) = Len(w)
    BY <1>1, <1>2
  <1>4. ns[1] = UnitSize(w[1].len, w[1].sealed)
    BY <1>1
  <1> HIDE DEF ns
  <1> DEFINE none == <<>>
             k == 0
  <1>5. k \in 0..Len(ns) - 1 /\ Len(none) = k /\ none \in Seq(Nat)
        /\ \A i \in 1..k : none[i] = ns[i]
    BY <1>1, <1>3
  <1> HIDE DEF none, k
  <1>6. Total(none) + ns[k + 1] <= Total(ns)
    BY <1>3, <1>5, TotalOfPart
  <1>7. Total(ns) \in Nat /\ ns[1] \in Nat
    BY <1>1, <1>3, TotalType
  <1> QED BY <1>4, <1>6, <1>7, TotalOfNone DEF BytesIn, ns, none, k

\* The units w carry what p has to say from one place of exchange o, of size n, up to another.
Carries(w, p, o, n, from, to) ==
    /\ w \in Seq(Range(w)) /\ Len(w) = to - from
    /\ \A k \in 1..Len(w) : LET turn == Exchange(o, n)[from + k - 1]
                            IN  turn.by = p /\ Says(w[k], turn, n)

\* From a place to itself there is nothing to carry,
LEMMA NothingCarried ==
    ASSUME NEW p, NEW o, NEW n, NEW i \in Nat
    PROVE  Carries(<<>>, p, o, n, i, i)
  <1>1. <<>> \in Seq(Range(<<>>)) /\ Len(<<>>) = i - i
    OBVIOUS
  <1> QED BY <1>1 DEF Carries

\* and nothing is carried.
LEMMA CarriesNothing ==
    ASSUME NEW p, NEW o, NEW n, NEW i \in Nat, NEW w, Carries(w, p, o, n, i, i)
    PROVE  w = <<>>
  <1>1. w \in Seq(Range(w)) /\ Len(w) = 0
    BY DEF Carries
  <1> QED BY <1>1

\* What is carried are turns of the sender's own.
LEMMA CarriesOwn ==
    ASSUME NEW p, NEW o, NEW n, NEW i \in Nat, NEW j \in Nat, NEW w, Carries(w, p, o, n, i, j),
           w # <<>>
    PROVE  Exchange(o, n)[i].by = p
  <1>1. w \in Seq(Range(w)) /\ Len(w) \in Nat /\ Len(w) >= 1
    BY DEF Carries
  <1>2. 1 \in 1..Len(w) /\ i + 1 - 1 = i
    BY <1>1
  <1>3. Exchange(o, n)[i].by = p /\ Says(w[1], Exchange(o, n)[i], n)
    BY <1>2 DEF Carries
  <1> QED BY <1>3

\* Sending carries on by one place,
LEMMA CarriesOneMore ==
    ASSUME NEW p, NEW o, NEW n, NEW i \in Nat, NEW j \in Nat, NEW w, Carries(w, p, o, n, i, j),
           NEW u, Exchange(o, n)[j].by = p, Says(u, Exchange(o, n)[j], n)
    PROVE  Carries(Append(w, u), p, o, n, i, j + 1)
  <1> DEFINE S == Range(w) \cup {u}
             v == Append(w, u)
  <1>1. w \in Seq(S) /\ Len(w) = j - i /\ Len(w) \in Nat
    BY DEF Carries
  <1>2. v \in Seq(S) /\ Len(v) = Len(w) + 1 /\ v[Len(w) + 1] = u
        /\ \A k \in 1..Len(w) : v[k] = w[k]
    BY <1>1
  <1> HIDE DEF v, S
  <1>3. v \in Seq(Range(v)) /\ Len(v) = (j + 1) - i
    BY <1>1, <1>2 DEF Range
  <1>4. ASSUME NEW k \in 1..Len(v)
        PROVE  Exchange(o, n)[i + k - 1].by = p /\ Says(v[k], Exchange(o, n)[i + k - 1], n)
    <2>1. CASE k \in 1..Len(w)
      BY <1>2, <2>1 DEF Carries
    <2>2. CASE k = Len(w) + 1
      <3>1. i + k - 1 = j
        BY <1>1, <2>2
      <3> QED BY <1>2, <2>2, <3>1
    <2> QED BY <1>1, <1>2, <2>1, <2>2
  <1> QED BY <1>3, <1>4 DEF Carries, v

\* and taking makes the start move on by one.
LEMMA CarriesOneLess ==
    ASSUME NEW p, NEW o, NEW n, NEW i \in Nat, NEW j \in Nat, NEW w, Carries(w, p, o, n, i, j),
           w # <<>>
    PROVE  /\ i < j /\ Says(w[1], Exchange(o, n)[i], n)
           /\ Head(w) = w[1] /\ Carries(Tail(w), p, o, n, i + 1, j)
  <1> DEFINE v == Tail(w)
  <1>1. w \in Seq(Range(w)) /\ Len(w) = j - i /\ Len(w) \in Nat /\ Len(w) >= 1
    BY DEF Carries
  <1>2. v \in Seq(Range(w)) /\ Len(v) = Len(w) - 1 /\ \A k \in 1..Len(v) : v[k] = w[k + 1]
    BY <1>1
  <1> HIDE DEF v
  <1>3. v \in Seq(Range(v)) /\ Len(v) = j - (i + 1)
    BY <1>1, <1>2 DEF Range
  <1>4. ASSUME NEW k \in 1..Len(v)
        PROVE  Exchange(o, n)[i + 1 + k - 1].by = p /\ Says(v[k], Exchange(o, n)[i + 1 + k - 1], n)
    <2>1. k + 1 \in 1..Len(w) /\ i + (k + 1) - 1 = i + 1 + k - 1
      BY <1>1, <1>2
    <2> QED BY <1>2, <2>1 DEF Carries
  <1>5. 1 \in 1..Len(w) /\ i + 1 - 1 = i
    BY <1>1
  <1>6. Says(w[1], Exchange(o, n)[i], n)
    BY <1>5 DEF Carries
  <1> QED BY <1>1, <1>3, <1>4, <1>6 DEF Carries, v

\* Of size n or of size m, exchange o is the same at place j.
Agree(o, n, m, j) == j <= Announces(o) \/ Exchange(o, n) = Exchange(o, m)

\* Where two sizes agree the turn is the same.
LEMMA AgreedTurn ==
    ASSUME NEW o \in Operations, NEW n \in Nat, NEW m \in Nat, NEW j \in 1..Len(Exchange(o, n)),
           Agree(o, n, m, j)
    PROVE  j \in 1..Len(Exchange(o, m)) /\ Exchange(o, n)[j] = Exchange(o, m)[j]
  <1>1. CASE j <= Announces(o)
    <2>1. j \in 1..Announces(o)
      BY <1>1 DEF Announces
    <2> QED BY <2>1, SameUntilAnnounced
  <1>2. CASE Exchange(o, n) = Exchange(o, m)
    BY <1>2
  <1> QED BY <1>1, <1>2 DEF Agree

\* The turns of an exchange are at their places, the last is the server's.
LEMMA TurnAtPlace ==
    ASSUME NEW o \in Operations, NEW n \in Nat, NEW j \in 1..Len(Exchange(o, n))
    PROVE  /\ AtPlace(o, j, Exchange(o, n)[j]) /\ Exchange(o, n)[j] \in Turns
           /\ Exchange(o, n)[j].kind = "ListM3" => Exchange(o, n)[j].n = n /\ n # 0
           /\ Len(Exchange(o, n)) \in Nat /\ Len(Exchange(o, n)) >= 2
           /\ Exchange(o, n)[Len(Exchange(o, n))].by = "server"
  BY ExchangeIsProper DEF Proper, AtPlace

\* The size that a side goes by after the message that tells it.
SizeTold(kind, n, m) == IF kind \in {"ListM2", "DownloadM2", "UploadM1"} THEN m ELSE n

\* Once a side of size n has read, it knows the rest of the exchange from its peer, of size m.
LEMMA AfterReading ==
    ASSUME NEW o \in Operations, NEW n \in Nat, NEW m \in Nat, NEW j \in 1..Len(Exchange(o, n)),
           Agree(o, n, m, j), NEW k, k = SizeTold(Exchange(o, n)[j].kind, n, m)
    PROVE  /\ Agree(o, k, m, j + 1)
           /\ j \in 1..Len(Exchange(o, k)) /\ (j = Len(Exchange(o, k)) <=> j = Len(Exchange(o, m)))
  <1> DEFINE turn == Exchange(o, n)[j]
  <1>1. AtPlace(o, j, turn)
    BY TurnAtPlace
  <1>2. turn.kind \in {"ListM2", "DownloadM2", "UploadM1"} <=> j = Announces(o)
    BY <1>1 DEF AtPlace, Announces
  <1> HIDE DEF turn
  <1>3. Announces(o) \in 0..2 /\ k \in Nat
    BY DEF Announces, SizeTold
  <1>4. CASE j < Announces(o)
    <2>1. j \in 1..Announces(o) /\ j + 1 \in 1..Announces(o)
      BY <1>3, <1>4
    <2>2. /\ j \in 1..Len(Exchange(o, k)) /\ j + 1 \in 1..Len(Exchange(o, k))
          /\ j + 1 \in 1..Len(Exchange(o, m))
      BY <1>3, <2>1, SameUntilAnnounced
    <2> QED BY <2>1, <2>2 DEF Agree
  <1>5. CASE j = Announces(o)
    <2>1. k = m /\ j \in 1..Announces(o)
      BY <1>2, <1>5 DEF SizeTold, turn
    <2> QED BY <1>3, <2>1, SameUntilAnnounced DEF Agree
  <1>6. CASE j > Announces(o)
    <2>1. k = n /\ Exchange(o, n) = Exchange(o, m)
      BY <1>2, <1>3, <1>6 DEF SizeTold, turn, Agree
    <2> QED BY <2>1 DEF Agree
  <1> QED BY <1>3, <1>4, <1>5, <1>6

-----------------------------------------------------------------------------
(* The steps of a side.                                                     *)

\* Each side is at a place of its exchange, or between two of them.
Placed ==
    /\ op \in [Sides -> Operations \cup {"idle", "ended"}]
    /\ step \in [Sides -> Nat \ {0}]
    /\ size \in [Sides -> Sizes]
    /\ \A x \in Sides : IF Busy(x) THEN step[x] <= Len(Exchange(op[x], size[x])) ELSE step[x] = 1
    /\ op["server"] = "LIST_REQUEST" /\ step["server"] > 2 => size["server"] \in ListSizes

Heard ==
    /\ NamesValid
    /\ ReadAsWritten /\ \A i \in 1..2 : \A f \in DOMAIN heard[i] : heard[i][f] \in Values

\* A busy side is at a place of its exchange,
LEMMA Here_Placed ==
    ASSUME NEW x \in Sides, Placed, Busy(x)
    PROVE  /\ op[x] \in Operations /\ size[x] \in Nat
           /\ step[x] \in 1..Len(Exchange(op[x], size[x]))
           /\ Here(x) = Exchange(op[x], size[x])[step[x]]
  <1>1. op[x] \in Operations /\ size[x] \in Nat /\ step[x] \in Nat \ {0}
        /\ step[x] <= Len(Exchange(op[x], size[x]))
    BY SizesAreNumbers DEF Placed, Busy
  <1>2. Len(Exchange(op[x], size[x])) \in Nat
    BY <1>1, ExchangeIsProper DEF Proper
  <1> QED BY <1>1, <1>2 DEF Here

Finished(o) == IF o = "LOGOUT_REQUEST" THEN "ended" ELSE "idle"

\* Where Advance leads.
LEMMA AdvanceLeads ==
    ASSUME NEW x \in Sides, Placed, NEW o \in Operations, NEW n \in Sizes, Advance(x, o, n),
           step[x] \in 1..Len(Exchange(o, n)),
           x = "server" /\ o = "LIST_REQUEST" /\ step[x] > 1 => n \in ListSizes
    PROVE  /\ Placed'
           /\ size'[x] = n
           /\ step[x] # Len(Exchange(o, n)) => op'[x] = o /\ step'[x] = step[x] + 1
           /\ step[x] = Len(Exchange(o, n)) => op'[x] = Finished(o) /\ step'[x] = 1
           /\ \A y \in Sides \ {x} : op'[y] = op[y] /\ step'[y] = step[y] /\ size'[y] = size[y]
  <1> DEFINE L == Len(Exchange(o, n))
  <1>1. L \in Nat /\ step[x] \in 1..L
    BY TurnAtPlace, SizesAreNumbers
  <1>2. /\ op' = [op EXCEPT ![x] = IF step[x] # L THEN o ELSE Finished(o)]
        /\ step' = [step EXCEPT ![x] = IF step[x] = L THEN 1 ELSE step[x] + 1]
        /\ size' = [size EXCEPT ![x] = n]
    BY DEF Advance, Finished
  <1> HIDE DEF L
  <1>3. op \in [Sides -> Operations \cup {"idle", "ended"}] /\ step \in [Sides -> Nat \ {0}]
        /\ size \in [Sides -> Sizes]
    BY DEF Placed
  <1>4. Finished(o) \in {"idle", "ended"}
    BY DEF Finished
  <1>5. /\ op' \in [Sides -> Operations \cup {"idle", "ended"}]
        /\ step' \in [Sides -> Nat \ {0}] /\ size' \in [Sides -> Sizes]
    BY <1>1, <1>2, <1>3, <1>4
  <1>6. /\ size'[x] = n
        /\ step[x] # L => op'[x] = o /\ step'[x] = step[x] + 1
        /\ step[x] = L => op'[x] = Finished(o) /\ step'[x] = 1
        /\ \A y \in Sides \ {x} : op'[y] = op[y] /\ step'[y] = step[y] /\ size'[y] = size[y]
    BY <1>2, <1>3
  <1>7. o \notin {"idle", "ended"}
    BY DEF Operations, Requests
  <1>8. ASSUME NEW y \in Sides
        PROVE  IF op'[y] \notin {"idle", "ended"} THEN step'[y] <= Len(Exchange(op'[y], size'[y]))
               ELSE step'[y] = 1
    <2>1. CASE y = x /\ step[x] # L
      <3>1. step'[y] <= L /\ op'[y] = o /\ size'[y] = n
        BY <1>1, <1>6, <2>1
      <3> QED BY <1>7, <3>1 DEF L
    <2>2. CASE y = x /\ step[x] = L
      BY <1>4, <1>6, <2>2
    <2>3. CASE y # x
      BY <1>6, <2>3 DEF Placed, Busy
    <2> QED BY <2>1, <2>2, <2>3
  <1>9. op'["server"] = "LIST_REQUEST" /\ step'["server"] > 2 => size'["server"] \in ListSizes
    <2>1. CASE x = "server"
      BY <1>1, <1>4, <1>6, <2>1
    <2>2. CASE x # "server"
      BY <1>6, <2>2 DEF Placed, Sides
    <2> QED BY <2>1, <2>2
  <1>10. Placed'
    BY <1>5, <1>8, <1>9 DEF Placed, Busy
  <1> QED BY <1>6, <1>10 DEF L

\* Side x, at its place, sends what that place has to say, and goes by the size it tells.
LEMMA SendSays ==
    ASSUME NEW x \in Sides, Placed, Heard, Send(x), NEW j, j = step[x]
    PROVE  \E n, u :
              /\ n \in Sizes /\ Here(x).by = x
              /\ wire' = [wire EXCEPT ![x] = Append(@, u)] /\ Says(u, Here(x), n)
              /\ Advance(x, op[x], n)
              /\ j \in 1..Len(Exchange(op[x], n)) /\ Exchange(op[x], n)[j] = Here(x)
              /\ Agree(op[x], size[x], n, j)
              /\ n = size[x] \/ (j = 2 /\ Announces(op[x]) = 2 /\ x = "server")
              /\ x = "server" /\ op[x] = "LIST_REQUEST" /\ j > 1 => n \in ListSizes
              /\ Heard'
  <1> DEFINE o == op[x]
             turn == Here(x)
  <1>1. Busy(x) /\ turn.by = x
    BY DEF Send
  <1>2. o \in Operations /\ size[x] \in Nat /\ j \in 1..Len(Exchange(o, size[x]))
        /\ turn = Exchange(o, size[x])[j]
    BY <1>1, Here_Placed
  <1> DEFINE Sends(code, n) ==
                /\ wire' = [wire EXCEPT ![x] = Append(@,
                        [m |-> Message(turn, code, n), len |-> SentLen(turn),
                         sealed |-> turn.sealed])]
                /\ Advance(x, o, n)
  <1>3. \E code \in turn.codes : \E n \in SizesAfter(x, turn.kind, code) : Sends(code, n)
    BY DEF Send
  <1> HIDE DEF Sends
  <1>4. PICK code \in turn.codes : \E n \in SizesAfter(x, turn.kind, code) : Sends(code, n)
    BY <1>3
  <1>5. PICK n \in SizesAfter(x, turn.kind, code) : Sends(code, n)
    BY <1>4
  <1>6. /\ wire' = [wire EXCEPT ![x] = Append(@,
                    [m |-> Message(turn, code, n), len |-> SentLen(turn), sealed |-> turn.sealed])]
        /\ Advance(x, o, n)
    BY <1>5 DEF Sends
  <1> DEFINE u == [m |-> Message(turn, code, n), len |-> SentLen(turn), sealed |-> turn.sealed]
  <1> HIDE DEF turn
  <1>7. /\ AtPlace(o, j, turn) /\ turn \in Turns
        /\ (turn.kind = "ListM3" => turn.n = size[x] /\ size[x] # 0)
    BY <1>2, TurnAtPlace
  <1>8. /\ turn.kind = "ListM2" => n \in ListSizes
        /\ turn.kind = "DownloadM2" => n \in FileSizes \cup {0}
        /\ turn.kind \notin {"ListM2", "DownloadM2"} => n = size[x]
    BY DEF SizesAfter, ListSizes
  <1>9. n \in Sizes
    BY <1>8 DEF Sizes, Placed
  <1>10. \/ n = size[x]
        \/ (j = 2 /\ Announces(o) = 2 /\ x = "server" /\ o \in {"LIST_REQUEST", "DOWNLOAD_REQUEST"})
    BY <1>1, <1>7, <1>8 DEF AtPlace, Announces
  <1>11. Agree(o, size[x], n, j)
    BY <1>10 DEF Agree
  <1>12. j \in 1..Len(Exchange(o, n)) /\ Exchange(o, n)[j] = turn
    BY <1>2, <1>9, <1>11, AgreedTurn, SizesAreNumbers
  <1>13. x = "server" /\ o = "LIST_REQUEST" /\ j > 1 => n \in ListSizes
    <2>1. CASE j = 2
      BY <1>7, <1>8, <2>1 DEF AtPlace
    <2>2. CASE j # 2
      BY <1>2, <1>7, <1>8, <2>2 DEF AtPlace, Placed
    <2> QED BY <2>1, <2>2
  <1>14. turn.kind = "ListM3" => turn.n = n /\ n \in ListSizes /\ n # 0
    BY <1>1, <1>7, <1>8, <1>13 DEF AtPlace
  <1>15. NamesValid
    BY DEF Heard
  <1>16. Says(u, turn, n)
    BY <1>7, <1>9, <1>14, <1>15, SentSays
  <1>17. Heard'
    BY DEF Send, Heard, ReadAsWritten, NamesValid, IsStringValid
  <1>18. wire' = [wire EXCEPT ![x] = Append(@, u)]
    BY <1>6
  <1> HIDE DEF u
  <1> QED BY <1>1, <1>6, <1>9, <1>10, <1>11, <1>12, <1>13, <1>16, <1>17, <1>18 DEF turn

\* Side x, at its place, takes just the next unit, and reads it as it is meant.
LEMMA TakeReads ==
    ASSUME NEW x \in Sides, NEW o \in Operations, NEW j, NEW turn, AtPlace(o, j, turn),
           NEW m \in Sizes, NEW p, p = Peer(x), wire[p] # <<>>, Says(Head(wire[p]), turn, m),
           Heard, Take(x, o, turn, AwaitedLen(o, j, turn))
    PROVE  /\ wire' = [wire EXCEPT ![p] = Tail(@)]
           /\ Advance(x, o, SizeTold(turn.kind, size[x], m))
           /\ Heard'
  <1> DEFINE len == AwaitedLen(o, j, turn)
             u == Head(wire[p])
             read == Deserialize(turn.kind, turn.n, u, len, turn.sealed)
  <1>1. turn.kind \in Kinds /\ turn.n \in Nat
    BY DEF AtPlace, Turns
  <1>2. /\ u.len = len /\ u.sealed = turn.sealed
        /\ read = u.m.val /\ DOMAIN read = Named(Class(turn.kind, turn.n).written)
        /\ \A f \in DOMAIN read : read[f] \in Values /\ read[f] # Garbled
    BY SaidIsRead, SizesAreNumbers
  <1>3. /\ heard' = <<u.m.val, read>>
        /\ UnitSize(len, turn.sealed) = UnitSize(u.len, u.sealed) =>
                wire' = [wire EXCEPT ![p] = Tail(@)]
        /\ (\A f \in DOMAIN read : read[f] # Garbled) => Advance(x, o, SizeRead(x, read))
        /\ names' = names
    BY DEF Take
  <1>4. /\ "list_size" \in DOMAIN read <=> turn.kind = "ListM2"
        /\ "file_size" \in DOMAIN read <=> turn.kind \in {"DownloadM2", "UploadM1"}
    BY <1>1, <1>2, SizeFields
  <1>5. \A f \in DOMAIN read \cap {"list_size", "file_size"} : read[f] = <<"number", m>>
    BY <1>2 DEF Says
  <1> HIDE DEF read, u, len
  <1>6. SizeRead(x, read) = SizeTold(turn.kind, size[x], m)
    BY <1>4, <1>5 DEF SizeRead, SizeTold
  <1>7. Heard'
    BY <1>2, <1>3 DEF Heard, ReadAsWritten, NamesValid, IsStringValid
  <1> QED BY <1>2, <1>3, <1>6, <1>7

-----------------------------------------------------------------------------
(* The inductive invariant.                                                 *)

\* Where p is in exchange o, which it may have ended.
Reach(p, o) == IF op[p] = o THEN step[p] ELSE Len(Exchange(o, size[p])) + 1

\* Side x is behind its peer, or level with it: what the peer has sent and x has not taken is
\* in the connection, and nothing else.  Only the client may lag behind the end.
Following(x) ==
    LET p == Peer(x)
        o == op[x]
    IN  /\ Busy(x) /\ (op[p] = o \/ (x = "client" /\ step[x] > 1 /\ op[p] = Finished(o)))
        /\ Carries(wire[p], p, o, size[p], step[x], Reach(p, o))
        /\ wire[x] = <<>> /\ Agree(o, size[x], size[p], step[x])

\* The client has begun a request that run() has not looked at.
Opening ==
    /\ op["client"] \in Requests /\ op["server"] = "idle" /\ step["client"] <= 2
    /\ Carries(wire["client"], "client", op["client"], size["client"], 1, step["client"])
    /\ wire["server"] = <<>>

\* No request is in progress.
Resting ==
    /\ op["client"] \in {"idle", "ended"} /\ op["server"] = op["client"]
    /\ \A x \in Sides : wire[x] = <<>>

InStep == (\E x \in Sides : Following(x)) \/ Opening \/ Resting

Connected == wire = [x \in Sides |-> wire[x]]

WireInv == Placed /\ Heard /\ Connected /\ InStep

\* Two sides are each other's peers.
LEMMA Peers ==
    ASSUME NEW x \in Sides
    PROVE  /\ Peer(x) \in Sides /\ Peer(x) # x /\ Peer(Peer(x)) = x
           /\ \A y \in Sides : y = x \/ y = Peer(x)
           /\ x = "server" <=> Peer(x) = "client"
           /\ x = "client" <=> Peer(x) = "server"
  BY DEF Sides, Peer

\* and both lengths of that place are one.
LEMMA HereAtPlace ==
    ASSUME NEW x \in Sides, Placed, Busy(x)
    PROVE  /\ AtPlace(op[x], step[x], Here(x)) /\ Here(x).by \in Sides /\ Here(x).sealed \in BOOLEAN
           /\ AwaitedLen(op[x], step[x], Here(x)) \in Nat
           /\ AwaitedLen(op[x], step[x], Here(x)) = SentLen(Here(x))
  <1>1. AtPlace(op[x], step[x], Here(x)) /\ Here(x) \in Turns
    BY Here_Placed, TurnAtPlace
  <1>2. Here(x).by \in Sides /\ Here(x).sealed \in BOOLEAN
    BY <1>1 DEF Turns
  <1> QED BY <1>1, <1>2, LengthsAgree

\* Where nothing was sent nothing arrives.
LEMMA NothingArrives ==
    ASSUME NEW x \in Sides, Placed, wire[Peer(x)] = <<>>
    PROVE  ~Arrived(x)
  <1>1. Bytes(Peer(x)) = 0
    BY NoBytes DEF Bytes, BytesIn
  <1>2. UnitSize(PacketSize, TRUE) \in Nat
    BY UnitSizeType, Lengths
  <1>3. CASE Busy(x)
    <2>1. UnitSize(AwaitedLen(op[x], step[x], Here(x)), Here(x).sealed) \in Nat
      BY <1>3, HereAtPlace, UnitSizeType
    <2>2. Asked(x) \in Nat
      BY <1>2, <2>1 DEF Asked
    <2> QED BY <1>1, <2>2 DEF Arrived
  <1>4. CASE ~Busy(x)
    <2>1. Asked(x) \in Nat
      BY <1>2, <1>4 DEF Asked
    <2> QED BY <1>1, <2>1 DEF Arrived
  <1> QED BY <1>3, <1>4

\* What a follower finds in the connection, and where its peer is.
LEMMA FollowerSees ==
    ASSUME NEW x \in Sides, Placed, Following(x), NEW p, p = Peer(x), NEW o, o = op[x],
           NEW j, j = step[x], NEW m, m = size[p]
    PROVE  /\ o \in Operations /\ m \in Sizes /\ m \in Nat
           /\ j \in 1..Len(Exchange(o, m)) /\ Exchange(o, m)[j] = Here(x)
           /\ Agree(o, size[x], m, j) /\ AtPlace(o, j, Here(x))
           /\ Reach(p, o) \in Nat /\ Reach(p, o) <= Len(Exchange(o, m)) + 1
           /\ wire[p] = <<>> => Reach(p, o) = j /\ op[p] = o /\ step[p] = j
           /\ wire[p] # <<>> =>
                /\ j < Reach(p, o) /\ Here(x).by = p
                /\ Head(wire[p]) = wire[p][1] /\ Says(wire[p][1], Here(x), m)
                /\ Carries(Tail(wire[p]), p, o, m, j + 1, Reach(p, o))
  <1>1. p \in Sides /\ p # x
    BY Peers
  <1>2. Busy(x) /\ Carries(wire[p], p, o, m, j, Reach(p, o)) /\ Agree(o, size[x], m, j)
        /\ (op[p] = o \/ op[p] = Finished(o))
    BY DEF Following
  <1>3. /\ o \in Operations /\ size[x] \in Nat /\ j \in 1..Len(Exchange(o, size[x]))
        /\ Here(x) = Exchange(o, size[x])[j]
    BY <1>2, Here_Placed
  <1>4. m \in Sizes /\ m \in Nat
    BY <1>1, SizesAreNumbers DEF Placed
  <1>5. j \in 1..Len(Exchange(o, m)) /\ Exchange(o, m)[j] = Here(x)
    BY <1>2, <1>3, <1>4, AgreedTurn
  <1>6. AtPlace(o, j, Here(x)) /\ Len(Exchange(o, m)) \in Nat
    BY <1>3, <1>4, TurnAtPlace
  <1>7. Reach(p, o) \in Nat /\ Reach(p, o) <= Len(Exchange(o, m)) + 1
        /\ (op[p] # o => Reach(p, o) = Len(Exchange(o, m)) + 1)
        /\ (op[p] = o => Reach(p, o) = step[p])
    <2>1. CASE op[p] = o
      <3>1. Busy(p)
        BY <2>1, <1>2 DEF Busy
      <3>2. step[p] \in 1..Len(Exchange(op[p], size[p]))
        BY <1>1, <3>1, Here_Placed
      <3> QED BY <1>6, <2>1, <3>2 DEF Reach
    <2>2. CASE op[p] # o
      BY <1>6, <2>2 DEF Reach
    <2> QED BY <2>1, <2>2
  <1>8. CASE wire[p] = <<>>
    <2>1. Reach(p, o) - j = 0
      BY <1>2, <1>8 DEF Carries
    <2> QED BY <1>2, <1>3, <1>4, <1>5, <1>6, <1>7, <1>8, <2>1
  <1>9. CASE wire[p] # <<>>
    <2>1. /\ j < Reach(p, o) /\ Exchange(o, m)[j].by = p /\ Says(wire[p][1], Exchange(o, m)[j], m)
          /\ Head(wire[p]) = wire[p][1] /\ Carries(Tail(wire[p]), p, o, m, j + 1, Reach(p, o))
      <3>1. PICK w, r : w = wire[p] /\ r = Reach(p, o)
        OBVIOUS
      <3>2. Carries(w, p, o, m, j, r) /\ w # <<>> /\ j \in Nat /\ r \in Nat
        BY <1>2, <1>5, <1>6, <1>7, <1>9, <3>1
      <3>3. /\ j < r /\ Says(w[1], Exchange(o, m)[j], m)
            /\ Head(w) = w[1] /\ Carries(Tail(w), p, o, m, j + 1, r)
        BY <3>2, CarriesOneLess
      <3>4. Exchange(o, m)[j].by = p
        BY <3>2, CarriesOwn
      <3> QED BY <3>1, <3>3, <3>4
    <2> QED BY <1>2, <1>3, <1>4, <1>5, <1>6, <1>7, <1>9, <2>1
  <1> QED BY <1>8, <1>9

\* A follower takes the next unit.
LEMMA FollowerReceives ==
    ASSUME NEW x \in Sides, WireInv, Following(x), Receive(x)
    PROVE  WireInv'
  <1> DEFINE p == Peer(x)
  <1>0. p \in Sides /\ p # x /\ \A y \in Sides : y = x \/ y = p
    BY Peers
  <1>1. Placed /\ Heard /\ Connected
    BY DEF WireInv
  <1>2. PICK o, j, m, n, r : /\ o = op[x] /\ j = step[x] /\ m = size[p]
                             /\ n = size[x] /\ r = Reach(p, o)
    OBVIOUS
  <1>3. /\ Busy(x) /\ Arrived(x) /\ Take(x, o, Here(x), AwaitedLen(o, j, Here(x)))
    BY <1>2 DEF Receive
  <1>4. wire[p] # <<>>
    BY <1>1, <1>3, NothingArrives
  <1> HIDE DEF p
  <1>5. /\ o \in Operations /\ m \in Sizes /\ m \in Nat
        /\ j \in 1..Len(Exchange(o, m)) /\ Exchange(o, m)[j] = Here(x)
        /\ Agree(o, n, m, j) /\ AtPlace(o, j, Here(x))
        /\ r \in Nat /\ r <= Len(Exchange(o, m)) + 1 /\ j < r
        /\ Head(wire[p]) = wire[p][1] /\ Says(wire[p][1], Here(x), m)
        /\ Carries(Tail(wire[p]), p, o, m, j + 1, r)
    BY <1>1, <1>2, <1>4, FollowerSees DEF p
  <1>6. /\ n \in Nat /\ n \in Sizes /\ j \in 1..Len(Exchange(o, n)) /\ Here(x) = Exchange(o, n)[j]
    BY <1>1, <1>2, <1>3, Here_Placed DEF Placed
  <1>7. PICK k : k = SizeTold(Here(x).kind, n, m)
    OBVIOUS
  <1>8. /\ wire' = [wire EXCEPT ![p] = Tail(@)]
        /\ Advance(x, o, k)
        /\ Heard'
    BY <1>1, <1>2, <1>3, <1>4, <1>5, <1>7, TakeReads DEF p
  <1>9. /\ Agree(o, k, m, j + 1)
        /\ j \in 1..Len(Exchange(o, k)) /\ (j = Len(Exchange(o, k)) <=> j = Len(Exchange(o, m)))
    BY <1>5, <1>6, <1>7, AfterReading
  <1>10. k \in Sizes
    BY <1>5, <1>6, <1>7 DEF SizeTold
  <1>11. x = "server" /\ o = "LIST_REQUEST" /\ j > 1 => k \in ListSizes
    <2>1. Here(x).by = p
      BY <1>1, <1>2, <1>4, FollowerSees DEF p
    <2>2. x = "server" => p = "client"
      BY Peers DEF p
    <2>3. j # 2 => Here(x).kind \notin {"ListM2", "DownloadM2"}
      BY <1>5 DEF AtPlace
    <2>4. x = "server" => j # 2
      BY <1>5, <2>1, <2>2 DEF AtPlace
    <2>5. x = "server" /\ o = "LIST_REQUEST" /\ j > 1 => j > 2 /\ Here(x).kind # "UploadM1"
      BY <1>5, <2>4 DEF AtPlace
    <2>6. x = "server" /\ o = "LIST_REQUEST" /\ j > 1 => n \in ListSizes
      BY <1>1, <1>2, <2>5 DEF Placed
    <2> QED BY <1>7, <2>3, <2>4, <2>5, <2>6 DEF SizeTold
  <1>12. /\ Placed'
         /\ size'[x] = k
         /\ j # Len(Exchange(o, k)) => op'[x] = o /\ step'[x] = j + 1
         /\ j = Len(Exchange(o, k)) => op'[x] = Finished(o) /\ step'[x] = 1
         /\ \A y \in Sides \ {x} : op'[y] = op[y] /\ step'[y] = step[y] /\ size'[y] = size[y]
    <2>1. /\ step[x] \in 1..Len(Exchange(o, k)) /\ k \in Sizes /\ o \in Operations
          /\ x = "server" /\ o = "LIST_REQUEST" /\ step[x] > 1 => k \in ListSizes
      BY <1>2, <1>5, <1>9, <1>10, <1>11
    <2>2. /\ Placed'
          /\ size'[x] = k
          /\ step[x] # Len(Exchange(o, k)) => op'[x] = o /\ step'[x] = step[x] + 1
          /\ step[x] = Len(Exchange(o, k)) => op'[x] = Finished(o) /\ step'[x] = 1
          /\ \A y \in Sides \ {x} : op'[y] = op[y] /\ step'[y] = step[y] /\ size'[y] = size[y]
      BY <1>1, <1>8, <2>1, AdvanceLeads
    <2> QED BY <1>2, <2>2
  <1>13. wire'[p] = Tail(wire[p]) /\ wire'[x] = wire[x] /\ Connected'
    BY <1>0, <1>1, <1>8 DEF Connected
  <1>14. /\ Busy(x) /\ wire[x] = <<>>
         /\ (op[p] = o \/ (x = "client" /\ j > 1 /\ op[p] = Finished(o)))
    BY <1>2 DEF Following, p
  <1>15. op'[p] = op[p] /\ step'[p] = step[p] /\ size'[p] = m
    BY <1>0, <1>2, <1>12
  <1>16. CASE j # Len(Exchange(o, m))
    <2>1. op'[x] = o /\ step'[x] = j + 1
      BY <1>9, <1>12, <1>16
    <2>2. r = IF op'[p] = o THEN step'[p] ELSE Len(Exchange(o, size'[p])) + 1
      BY <1>2, <1>15 DEF Reach
    <2>3. j + 1 > 1 /\ o \notin {"idle", "ended"}
      BY <1>5 DEF Operations, Requests
    <2>4. Following(x)'
      BY <1>2, <1>5, <1>9, <1>12, <1>13, <1>14, <1>15, <2>1, <2>2, <2>3
         DEF Following, Busy, Reach, p
    <2> QED BY <1>8, <1>12, <1>13, <2>4 DEF WireInv, InStep
  <1>17. CASE j = Len(Exchange(o, m))
    <2>1. op[p] = Finished(o) /\ x = "client" /\ p = "server"
      <3>1. op[p] # o
        <4>1. op[p] = o => r = step[p] /\ Busy(p)
          BY <1>2, <1>14 DEF Reach, Busy
        <4>2. op[p] = o => step[p] <= Len(Exchange(o, m))
          BY <1>0, <1>1, <1>2, <4>1 DEF Placed
        <4> QED BY <1>5, <1>17, <4>1, <4>2
      <3> QED BY <1>14, <3>1, Peers DEF p
    <2>2. r = Len(Exchange(o, m)) + 1
      BY <1>2, <1>5, <1>17
    <2>3. Tail(wire[p]) = <<>>
      <3>1. j + 1 = r
        BY <1>17, <2>2
      <3>2. PICK w : w = Tail(wire[p])
        OBVIOUS
      <3>3. Carries(w, p, o, m, r, r) /\ r \in Nat
        BY <1>5, <3>1, <3>2
      <3>4. w = <<>>
        BY <3>3, CarriesNothing
      <3> QED BY <3>2, <3>4
    <2>4. op'["client"] = Finished(o) /\ op'["server"] = Finished(o)
      BY <1>9, <1>12, <1>15, <1>17, <2>1
    <2>5. \A y \in Sides : wire'[y] = <<>>
      BY <1>0, <1>13, <1>14, <2>3
    <2>6. Resting'
      BY <2>4, <2>5 DEF Resting, Finished
    <2> QED BY <1>8, <1>12, <1>13, <2>6 DEF WireInv, InStep
  <1> QED BY <1>16, <1>17

\* A follower speaks only when it has heard everything: it then leads.
LEMMA FollowerSends ==
    ASSUME NEW x \in Sides, WireInv, Following(x), Send(x)
    PROVE  WireInv'
  <1> DEFINE p == Peer(x)
  <1>0. p \in Sides /\ p # x /\ Peer(p) = x /\ \A y \in Sides : y = x \/ y = p
    BY Peers
  <1>1. Placed /\ Heard /\ Connected
    BY DEF WireInv
  <1>2. PICK o, j, m : o = op[x] /\ j = step[x] /\ m = size[p]
    OBVIOUS
  <1>3. Busy(x) /\ wire[x] = <<>> /\ Here(x).by = x
    BY DEF Send, Following
  <1> HIDE DEF p
  <1>4. wire[p] = <<>>
    BY <1>0, <1>1, <1>2, <1>3, FollowerSees DEF p
  <1>5. /\ o \in Operations /\ m \in Nat /\ Agree(o, size[x], m, j) /\ op[p] = o /\ step[p] = j
        /\ j \in 1..Len(Exchange(o, m))
    BY <1>1, <1>2, <1>4, FollowerSees DEF p
  <1>6. PICK n, u :
            /\ n \in Sizes /\ wire' = [wire EXCEPT ![x] = Append(@, u)] /\ Says(u, Here(x), n)
            /\ Advance(x, o, n)
            /\ j \in 1..Len(Exchange(o, n)) /\ Exchange(o, n)[j] = Here(x)
            /\ Agree(o, size[x], n, j)
            /\ n = size[x] \/ (j = 2 /\ Announces(o) = 2 /\ x = "server")
            /\ x = "server" /\ o = "LIST_REQUEST" /\ j > 1 => n \in ListSizes
            /\ Heard'
    BY <1>1, <1>2, SendSays
  <1>7. step[x] \in 1..Len(Exchange(o, n))
        /\ (x = "server" /\ o = "LIST_REQUEST" /\ step[x] > 1 => n \in ListSizes)
    BY <1>2, <1>6
  <1>8. /\ Placed'
        /\ size'[x] = n
        /\ step[x] # Len(Exchange(o, n)) => op'[x] = o /\ step'[x] = step[x] + 1
        /\ step[x] = Len(Exchange(o, n)) => op'[x] = Finished(o) /\ step'[x] = 1
        /\ \A y \in Sides \ {x} : op'[y] = op[y] /\ step'[y] = step[y] /\ size'[y] = size[y]
    BY <1>1, <1>5, <1>6, <1>7, AdvanceLeads
  <1>9. op'[p] = o /\ step'[p] = j /\ size'[p] = m
    BY <1>0, <1>2, <1>5, <1>8
  <1>10. wire'[p] = <<>> /\ wire'[x] = Append(<<>>, u) /\ Connected'
    BY <1>0, <1>1, <1>3, <1>4, <1>6 DEF Connected
  <1>11. Carries(wire'[x], x, o, n, j, j + 1)
    <2>1. PICK e : e = <<>>
      OBVIOUS
    <2>2. Carries(e, x, o, n, j, j) /\ j \in Nat
      BY <1>6, <2>1, NothingCarried
    <2>3. Exchange(o, n)[j].by = x /\ Says(u, Exchange(o, n)[j], n)
      BY <1>3, <1>6
    <2>4. Carries(Append(e, u), x, o, n, j, j + 1)
      BY <2>2, <2>3, CarriesOneMore
    <2> QED BY <1>10, <2>1, <2>4
  <1>12. Agree(o, m, n, j)
    BY <1>5, <1>6 DEF Agree
  <1>13. o \notin {"idle", "ended"}
    BY <1>5 DEF Operations, Requests
  <1>14. CASE j # Len(Exchange(o, n))
    <2>1. op'[x] = o /\ step'[x] = j + 1
      BY <1>2, <1>8, <1>14
    <2>2. Following(p)'
      BY <1>0, <1>8, <1>9, <1>10, <1>11, <1>12, <1>13, <2>1 DEF Following, Busy, Reach
    <2> QED BY <1>0, <1>6, <1>8, <1>10, <2>2 DEF WireInv, InStep
  <1>15. CASE j = Len(Exchange(o, n))
    <2>1. op'[x] = Finished(o) /\ Finished(o) # o
      BY <1>2, <1>8, <1>13, <1>15 DEF Finished
    <2>2. x = "server" /\ p = "client" /\ j > 1
      <3>1. Here(x).by = "server" /\ Len(Exchange(o, n)) >= 2
        BY <1>5, <1>6, <1>15, TurnAtPlace, SizesAreNumbers
      <3> QED BY <1>3, <1>15, <3>1, Peers DEF p
    <2>3. Following(p)'
      BY <1>0, <1>8, <1>9, <1>10, <1>11, <1>12, <1>13, <1>15, <2>1, <2>2 DEF Following, Busy, Reach
    <2> QED BY <1>0, <1>6, <1>8, <1>10, <2>3 DEF WireInv, InStep
  <1> QED BY <1>14, <1>15

\* The side that leads may say more before the other has heard.
LEMMA LeaderSends ==
    ASSUME NEW x \in Sides, WireInv, Following(x), NEW p, p = Peer(x), Send(p)
    PROVE  WireInv'
  <1>0. p \in Sides /\ p # x /\ Peer(p) = x /\ \A y \in Sides : y = x \/ y = p
    BY Peers
  <1>1. Placed /\ Heard /\ Connected
    BY DEF WireInv
  <1>2. PICK o, i, j, m : o = op[x] /\ i = step[x] /\ j = step[p] /\ m = size[p]
    OBVIOUS
  <1>3. Busy(p) /\ Here(p).by = p
    BY DEF Send
  <1>4. op[p] = o /\ Busy(x)
    <2>1. Finished(o) \in {"idle", "ended"}
      BY DEF Finished
    <2> QED BY <1>2, <1>3, <2>1 DEF Following, Busy
  <1>5. /\ o \in Operations /\ m \in Nat /\ i \in 1..Len(Exchange(o, m))
        /\ Exchange(o, m)[i] = Here(x)
        /\ Agree(o, size[x], m, i) /\ AtPlace(o, i, Here(x))
        /\ Carries(wire[p], p, o, m, i, j) /\ wire[x] = <<>>
        /\ wire[p] = <<>> => i = j
        /\ wire[p] # <<>> => i < j /\ Here(x).by = p
    BY <1>1, <1>2, <1>4, FollowerSees DEF Following, Reach
  <1>6. PICK n, u :
            /\ n \in Sizes /\ wire' = [wire EXCEPT ![p] = Append(@, u)] /\ Says(u, Here(p), n)
            /\ Advance(p, o, n)
            /\ j \in 1..Len(Exchange(o, n)) /\ Exchange(o, n)[j] = Here(p)
            /\ Agree(o, m, n, j)
            /\ n = m \/ (j = 2 /\ Announces(o) = 2 /\ p = "server")
            /\ p = "server" /\ o = "LIST_REQUEST" /\ j > 1 => n \in ListSizes
            /\ Heard'
    BY <1>0, <1>1, <1>2, <1>4, SendSays
  <1>7. step[p] \in 1..Len(Exchange(o, n))
        /\ (p = "server" /\ o = "LIST_REQUEST" /\ step[p] > 1 => n \in ListSizes)
    BY <1>2, <1>6
  <1>8. /\ Placed'
        /\ size'[p] = n
        /\ step[p] # Len(Exchange(o, n)) => op'[p] = o /\ step'[p] = step[p] + 1
        /\ step[p] = Len(Exchange(o, n)) => op'[p] = Finished(o) /\ step'[p] = 1
        /\ \A y \in Sides \ {p} : op'[y] = op[y] /\ step'[y] = step[y] /\ size'[y] = size[y]
    BY <1>0, <1>1, <1>5, <1>6, <1>7, AdvanceLeads
  <1>9. op'[x] = o /\ step'[x] = i /\ size'[x] = size[x]
    BY <1>0, <1>2, <1>8
  <1>10. wire'[x] = <<>> /\ wire'[p] = Append(wire[p], u) /\ Connected'
    BY <1>0, <1>1, <1>5, <1>6 DEF Connected
  <1>11. n # m => wire[p] = <<>>
    <2>1. n # m => j = 2 /\ p = "server"
      BY <1>6
    <2>2. wire[p] # <<>> /\ j = 2 => i = 1
      BY <1>5
    <2>3. i = 1 => Here(x).by = "client"
      BY <1>5 DEF AtPlace
    <2> QED BY <1>5, <2>1, <2>2, <2>3
  <1>12. Carries(wire[p], p, o, n, i, j) /\ i \in Nat /\ j \in Nat
    <2>1. CASE n = m
      BY <1>5, <1>6, <2>1
    <2>2. CASE n # m
      <3>1. wire[p] = <<>> /\ i = j
        BY <1>5, <1>11, <2>2
      <3>2. Carries(<<>>, p, o, n, i, i)
        BY <1>5, NothingCarried
      <3> QED BY <1>5, <3>1, <3>2
    <2> QED BY <2>1, <2>2
  <1>13. Carries(wire'[p], p, o, n, i, j + 1)
    <2>1. PICK w : w = wire[p]
      OBVIOUS
    <2>2. Carries(w, p, o, n, i, j) /\ Exchange(o, n)[j].by = p /\ Says(u, Exchange(o, n)[j], n)
      BY <1>3, <1>6, <1>12, <2>1
    <2>3. Carries(Append(w, u), p, o, n, i, j + 1)
      BY <1>12, <2>2, CarriesOneMore
    <2> QED BY <1>10, <2>1, <2>3
  <1>14. Agree(o, size[x], n, i)
    <2>1. CASE n = m
      BY <1>5, <2>1
    <2>2. CASE n # m
      <3>1. j = Announces(o) /\ i = j
        BY <1>5, <1>6, <1>11, <2>2
      <3> QED BY <1>5, <3>1 DEF Agree
    <2> QED BY <2>1, <2>2
  <1>15. o \notin {"idle", "ended"}
    BY <1>5 DEF Operations, Requests
  <1>16. CASE j # Len(Exchange(o, n))
    <2>1. op'[p] = o /\ step'[p] = j + 1
      BY <1>2, <1>8, <1>16
    <2>2. Following(x)'
      BY <1>0, <1>8, <1>9, <1>10, <1>13, <1>14, <1>15, <2>1 DEF Following, Busy, Reach
    <2> QED BY <1>0, <1>6, <1>8, <1>10, <2>2 DEF WireInv, InStep
  <1>17. CASE j = Len(Exchange(o, n))
    <2>1. op'[p] = Finished(o) /\ Finished(o) # o
      BY <1>2, <1>8, <1>15, <1>17 DEF Finished
    <2>2. p = "server" /\ x = "client"
      <3>1. Here(p).by = "server"
        BY <1>5, <1>6, <1>17, TurnAtPlace, SizesAreNumbers
      <3> QED BY <1>0, <1>3, <3>1, Peers
    <2>3. i > 1
      <3>1. j >= 2
        BY <1>5, <1>6, <1>17, TurnAtPlace, SizesAreNumbers
      <3>2. i = 1 => Here(x).by = "client"
        BY <1>5 DEF AtPlace
      <3> QED BY <1>5, <2>2, <3>1, <3>2
    <2>4. Following(x)'
      BY <1>0, <1>8, <1>9, <1>10, <1>13, <1>14, <1>15, <1>17, <2>1, <2>2, <2>3
         DEF Following, Busy, Reach
    <2> QED BY <1>0, <1>6, <1>8, <1>10, <2>4 DEF WireInv, InStep
  <1> QED BY <1>16, <1>17

\* No step of an exchange leads out of step.
LEMMA FollowingSteps ==
    ASSUME NEW x \in Sides, WireInv, Following(x), Next
    PROVE  WireInv'
  <1> DEFINE p == Peer(x)
  <1>0. p \in Sides /\ p # x /\ Peer(p) = x /\ \A y \in Sides : y = x \/ y = p
    BY Peers
  <1>1. Placed /\ Busy(x) /\ wire[x] = <<>>
        /\ (op[p] = op[x] \/ (x = "client" /\ op[p] = Finished(op[x])))
    BY DEF WireInv, Following
  <1>2. ~Begin
    <2>1. x = "client" \/ op["client"] = op[x]
      BY <1>1 DEF p, Peer, Sides
    <2> QED BY <1>1, <2>1 DEF Begin, Busy
  <1>3. ~Dispatch
    <2>1. op["server"] = "idle" => x = "client" /\ p = "server"
      BY <1>1 DEF p, Peer, Sides, Busy
    <2>2. op["server"] = "idle" => ~Arrived("server")
      BY <1>0, <1>1, <2>1, NothingArrives
    <2> QED BY <2>2 DEF Dispatch
  <1>4. ~Connect
    BY <1>1 DEF Connect, Busy
  <1>5. ~Receive(p)
    BY <1>0, <1>1, NothingArrives DEF Receive
  <1>6. CASE Send(x)
    BY <1>6, FollowerSends
  <1>7. CASE Receive(x)
    BY <1>7, FollowerReceives
  <1>8. CASE Send(p)
    BY <1>8, LeaderSends
  <1> QED BY <1>0, <1>2, <1>3, <1>4, <1>5, <1>6, <1>7, <1>8 DEF Next

\* A request reaches run(), which goes by its code to the right exchange.
LEMMA OpeningSteps ==
    ASSUME WireInv, Opening, Next
    PROVE  WireInv'
  <1>0. "client" \in Sides /\ "server" \in Sides /\ \A y \in Sides : y = "client" \/ y = "server"
    BY DEF Sides
  <1>1. Placed /\ Heard /\ Connected
    BY DEF WireInv
  <1>2. PICK o, i, n, w : /\ o = op["client"] /\ i = step["client"]
                          /\ n = size["client"] /\ w = wire["client"]
    OBVIOUS
  <1>3. /\ o \in Requests /\ o \in Operations /\ o \notin {"idle", "ended"}
        /\ op["server"] = "idle" /\ i \in 1..2 /\ step["server"] = 1
        /\ n \in Sizes /\ n \in Nat
        /\ Carries(w, "client", o, n, 1, i) /\ wire["server"] = <<>>
    <2>1. o \in Requests /\ op["server"] = "idle" /\ i <= 2 /\ i \in Nat \ {0} /\ n \in Sizes
          /\ step["server"] = 1
      BY <1>0, <1>1, <1>2 DEF Opening, Placed, Busy
    <2> QED BY <1>2, <2>1, SizesAreNumbers DEF Opening, Operations, Requests
  <1>4. Busy("client") /\ ~Busy("server")
    BY <1>2, <1>3 DEF Busy
  <1>5. /\ i \in 1..Len(Exchange(o, n)) /\ Here("client") = Exchange(o, n)[i]
        /\ AtPlace(o, i, Here("client")) /\ Len(Exchange(o, n)) >= 2 /\ Len(Exchange(o, n)) \in Nat
    BY <1>0, <1>1, <1>2, <1>4, Here_Placed, TurnAtPlace
  <1>6. ~Begin /\ ~Connect /\ ~Receive("server") /\ ~Send("server")
    BY <1>0, <1>2, <1>3, <1>4 DEF Begin, Connect, Receive, Send, Busy
  <1>7. ~Receive("client")
    <2>1. wire[Peer("client")] = <<>>
      BY <1>3 DEF Peer
    <2> QED BY <1>0, <1>1, <2>1, NothingArrives DEF Receive
  <1>8. CASE Send("client")
    <2>1. PICK k, u :
            /\ k \in Sizes /\ Here("client").by = "client"
            /\ wire' = [wire EXCEPT !["client"] = Append(@, u)] /\ Says(u, Here("client"), k)
            /\ Advance("client", o, k)
            /\ i \in 1..Len(Exchange(o, k)) /\ Exchange(o, k)[i] = Here("client")
            /\ k = n
            /\ Heard'
      BY <1>0, <1>1, <1>2, <1>8, SendSays
    <2>2. i = 1
      BY <1>3, <1>5, <2>1 DEF AtPlace
    <2>3. step["client"] \in 1..Len(Exchange(o, k)) /\ Advance("client", o, k) /\ k \in Sizes
      BY <1>2, <2>1
    <2>4. /\ Placed' /\ size'["client"] = k
          /\ step["client"] # Len(Exchange(o, k)) =>
                  op'["client"] = o /\ step'["client"] = step["client"] + 1
          /\ \A y \in Sides \ {"client"} :
                  op'[y] = op[y] /\ step'[y] = step[y] /\ size'[y] = size[y]
      BY <1>0, <1>1, <1>3, <2>3, AdvanceLeads
    <2>5. op'["client"] = o /\ step'["client"] = 2 /\ op'["server"] = "idle" /\ size'["client"] = n
      <3>1. step["client"] = 1 /\ 1 # Len(Exchange(o, k)) /\ "server" \in Sides \ {"client"}
        <4>1. PICK L : L = Len(Exchange(o, n))
          OBVIOUS
        <4>2. 1 # L /\ Len(Exchange(o, k)) = L
          BY <1>5, <2>1, <4>1
        <4> QED BY <1>0, <1>2, <2>2, <4>2
      <3>2. op'["client"] = o /\ step'["client"] = 2
        BY <2>4, <3>1
      <3> QED BY <1>3, <2>1, <2>4, <3>1, <3>2
    <2>6. w = <<>>
      BY <1>3, <2>2, CarriesNothing
    <2>7. wire'["client"] = Append(w, u) /\ wire'["server"] = <<>> /\ Connected'
      BY <1>0, <1>1, <1>2, <1>3, <2>1 DEF Connected
    <2>8. Exchange(o, n)[1].by = "client" /\ Says(u, Exchange(o, n)[1], n)
      BY <2>1, <2>2
    <2>9. Carries(Append(w, u), "client", o, n, 1, 2)
      <3>1. PICK j \in Nat : j = 1
        OBVIOUS
      <3>2. Carries(w, "client", o, n, j, j) /\ Exchange(o, n)[j].by = "client"
            /\ Says(u, Exchange(o, n)[j], n)
        BY <1>3, <2>2, <2>8, <3>1
      <3>3. Carries(Append(w, u), "client", o, n, j, j + 1)
        BY <3>2, CarriesOneMore
      <3> QED BY <3>1, <3>3
    <2>10. Opening'
      BY <1>3, <2>5, <2>7, <2>9 DEF Opening
    <2> QED BY <2>1, <2>4, <2>7, <2>10 DEF WireInv, InStep
  <1>9. CASE Dispatch
    <2> DEFINE turn == Exchange(o, n)[1]
               d == Deserialize("SimpleMessage", 0, Head(wire["client"]), PacketSize, TRUE)["code"]
               q == IF d = Garbled THEN "LOGOUT_REQUEST" ELSE d[2]
    <2>1. Arrived("server") /\ Take("server", q, Exchange(q, 0)[1], PacketSize)
      BY <1>9 DEF Dispatch
    <2>2. w # <<>>
      <3>1. w = wire[Peer("server")]
        BY <1>2 DEF Peer
      <3> QED BY <1>0, <1>1, <2>1, <3>1, NothingArrives
    <2>3. i = 2
      <3>1. i = 1 => w = <<>>
        BY <1>3, CarriesNothing
      <3> QED BY <1>3, <2>2, <3>1
    <2>4. /\ Head(w) = w[1] /\ Says(w[1], turn, n) /\ Carries(Tail(w), "client", o, n, 2, 2)
      <3>1. PICK j \in Nat, k \in Nat : j = 1 /\ k = 2
        OBVIOUS
      <3>2. Carries(w, "client", o, n, j, k)
        BY <1>3, <2>3, <3>1
      <3>3. Says(w[1], Exchange(o, n)[j], n) /\ Head(w) = w[1]
            /\ Carries(Tail(w), "client", o, n, j + 1, k)
        BY <2>2, <3>2, CarriesOneLess
      <3> QED BY <3>1, <3>3
    <2>5. AtPlace(o, 1, turn) /\ 1 \in 1..Len(Exchange(o, n))
      BY <1>3, <1>5, TurnAtPlace
    <2> HIDE DEF turn
    <2>6. turn.sealed
      BY <1>3, <2>5 DEF AtPlace
    <2>7. AwaitedLen(o, 1, turn) = PacketSize
      BY <2>6 DEF AwaitedLen
    <2>8. d = <<"code", o>>
      <3>1. PICK u : u = Head(wire["client"])
        OBVIOUS
      <3>2. Says(u, turn, n)
        BY <1>2, <2>4, <3>1
      <3>3. Deserialize("SimpleMessage", 0, u, PacketSize, TRUE)["code"] = <<"code", o>>
        BY <1>3, <2>5, <3>2, CodeIsRead
      <3> QED BY <3>1, <3>3
    <2>9. q = o
      <3>1. <<"code", o>> # Garbled
        BY DEF Garbled
      <3> HIDE DEF d
      <3> QED BY <2>8, <3>1
    <2> HIDE DEF q, d
    <2>10. Agree(o, 0, n, 1)
      <3>1. CASE Announces(o) = 0
        BY <1>3, <3>1, SameWithoutSize DEF Agree
      <3>2. CASE Announces(o) # 0
        BY <3>2 DEF Announces, Agree
      <3> QED BY <3>1, <3>2
    <2>11. Exchange(o, 0)[1] = turn
      <3>1. 0 \in Nat /\ Len(Exchange(o, 0)) \in Nat /\ Len(Exchange(o, 0)) >= 2
        BY <1>3, ExchangeIsProper DEF Proper
      <3>2. 1 \in 1..Len(Exchange(o, 0))
        BY <3>1
      <3> QED BY <1>3, <2>10, <3>2, AgreedTurn DEF turn
    <2>12. Take("server", o, turn, AwaitedLen(o, 1, turn))
      BY <2>1, <2>7, <2>9, <2>11
    <2>13. PICK s, k : s = size["server"] /\ k = SizeTold(turn.kind, s, n)
      OBVIOUS
    <2>14. s \in Sizes /\ s \in Nat /\ k \in Sizes /\ k \in Nat
      BY <1>0, <1>1, <1>3, <2>13, SizesAreNumbers DEF Placed, SizeTold
    <2>15. /\ wire' = [wire EXCEPT !["client"] = Tail(@)] /\ Advance("server", o, k) /\ Heard'
      <3>1. PICK p : p = Peer("server") /\ p = "client"
        BY DEF Peer
      <3>2. wire[p] # <<>> /\ Says(Head(wire[p]), turn, n)
        BY <1>2, <2>2, <2>4, <3>1
      <3> QED BY <1>0, <1>1, <1>3, <2>5, <2>12, <2>13, <3>1, <3>2, TakeReads
    <2>16. Agree(o, s, n, 1) /\ 1 \in 1..Len(Exchange(o, s)) /\ Exchange(o, s)[1] = turn
      <3>1. Agree(o, s, n, 1)
        <4>1. CASE Announces(o) = 0
          BY <1>3, <4>1, SameWithoutSize DEF Agree
        <4>2. CASE Announces(o) # 0
          BY <4>2 DEF Announces, Agree
        <4> QED BY <4>1, <4>2
      <3>2. Len(Exchange(o, s)) \in Nat /\ Len(Exchange(o, s)) >= 2
        BY <1>3, <2>14, ExchangeIsProper DEF Proper
      <3>3. 1 \in 1..Len(Exchange(o, s))
        BY <3>2
      <3> QED BY <1>3, <2>14, <3>1, <3>3, AgreedTurn DEF turn
    <2>17. Agree(o, k, n, 2) /\ 1 \in 1..Len(Exchange(o, k))
      <3>1. PICK j : j = 1
        OBVIOUS
      <3>2. Agree(o, k, n, j + 1) /\ j \in 1..Len(Exchange(o, k))
        BY <1>3, <2>13, <2>14, <2>16, <3>1, AfterReading
      <3> QED BY <3>1, <3>2
    <2>18. Len(Exchange(o, k)) \in Nat /\ Len(Exchange(o, k)) >= 2
      BY <1>3, <2>14, ExchangeIsProper DEF Proper
    <2>19. step["server"] \in 1..Len(Exchange(o, k)) /\ step["server"] = 1
           /\ step["server"] # Len(Exchange(o, k))
      <3>1. PICK L : L = Len(Exchange(o, k))
        OBVIOUS
      <3>2. L \in Nat /\ L >= 2
        BY <2>18, <3>1
      <3>3. 1 \in 1..L /\ 1 # L
        BY <3>2
      <3> QED BY <1>3, <3>1, <3>3
    <2>20. Placed' /\ size'["server"] = k /\ op'["server"] = o /\ step'["server"] = 2
           /\ op'["client"] = o /\ step'["client"] = 2 /\ size'["client"] = n
      <3>1. /\ Placed' /\ size'["server"] = k
            /\ step["server"] # Len(Exchange(o, k)) =>
                    op'["server"] = o /\ step'["server"] = step["server"] + 1
            /\ \A y \in Sides \ {"server"} :
                    op'[y] = op[y] /\ step'[y] = step[y] /\ size'[y] = size[y]
        <4>1. PICK x \in Sides : x = "server"
          BY <1>0
        <4>2. /\ Advance(x, o, k) /\ step[x] \in 1..Len(Exchange(o, k))
              /\ x = "server" /\ o = "LIST_REQUEST" /\ step[x] > 1 => k \in ListSizes
          BY <2>15, <2>19, <4>1
        <4>3. /\ Placed' /\ size'[x] = k
              /\ step[x] # Len(Exchange(o, k)) => op'[x] = o /\ step'[x] = step[x] + 1
              /\ \A y \in Sides \ {x} : op'[y] = op[y] /\ step'[y] = step[y] /\ size'[y] = size[y]
          BY <1>1, <1>3, <2>14, <4>2, AdvanceLeads
        <4> QED BY <4>1, <4>3
      <3>2. "client" \in Sides \ {"server"} /\ 1 + 1 = 2
        BY <1>0
      <3>3. op'["server"] = o /\ step'["server"] = 2
        BY <2>19, <3>1
      <3> QED BY <1>2, <2>3, <3>1, <3>2, <3>3
    <2>21. wire'["client"] = <<>> /\ wire'["server"] = <<>> /\ Connected'
      <3>1. PICK v : v = Tail(w)
        OBVIOUS
      <3>2. v = <<>>
        BY <2>4, <3>1, CarriesNothing
      <3> QED BY <1>0, <1>1, <1>2, <1>3, <2>15, <3>1, <3>2 DEF Connected
    <2>22. Following("server")'
      <3>1. Carries(<<>>, "client", o, n, 2, 2)
        BY NothingCarried
      <3>2. Peer("server") = "client"
        BY DEF Peer
      <3> QED BY <1>3, <2>17, <2>20, <2>21, <3>1, <3>2 DEF Following, Busy, Reach
    <2> QED BY <1>0, <2>15, <2>20, <2>21, <2>22 DEF WireInv, InStep
  <1> QED BY <1>0, <1>6, <1>7, <1>8, <1>9 DEF Next

\* Both sides at the first message of a login.
Start ==
    /\ op = [x \in Sides |-> "AUTHENTICATION_REQUEST"] /\ step = [x \in Sides |-> 1]
    /\ size = [x \in Sides |-> 0] /\ wire = [x \in Sides |-> <<>>]

\* A session starts in step.
LEMMA Starts == Start => Placed /\ Connected /\ InStep
  <1> SUFFICES ASSUME Start PROVE Placed /\ Connected /\ InStep
    OBVIOUS
  <1> PICK o : o = "AUTHENTICATION_REQUEST"
    OBVIOUS
  <1>0. /\ op = [x \in Sides |-> o] /\ step = [x \in Sides |-> 1]
        /\ size = [x \in Sides |-> 0] /\ wire = [x \in Sides |-> <<>>]
    BY DEF Start
  <1>1. o \in Operations /\ o \notin {"idle", "ended"} /\ 0 \in Sizes /\ 0 \in Nat
    BY DEF Operations, Requests, Sizes
  <1>2. 1 <= Len(Exchange(o, 0))
    BY <1>1, ExchangeIsProper DEF Proper
  <1>3. Placed
    <2>1. /\ op \in [Sides -> Operations \cup {"idle", "ended"}] /\ step \in [Sides -> Nat \ {0}]
          /\ size \in [Sides -> Sizes]
      BY <1>0, <1>1
    <2>2. \A x \in Sides : Busy(x) /\ step[x] <= Len(Exchange(op[x], size[x]))
      BY <1>0, <1>1, <1>2 DEF Busy
    <2>3. op["server"] # "LIST_REQUEST"
      <3>1. "server" \in Sides
        BY DEF Sides
      <3> QED BY <3>1 DEF Start
    <2> QED BY <2>1, <2>2, <2>3 DEF Placed
  <1>4. Carries(<<>>, "client", o, 0, 1, 1)
    BY NothingCarried
  <1>5. Following("server") /\ "server" \in Sides
    <2>1. Peer("server") = "client" /\ "server" \in Sides /\ "client" \in Sides
      BY DEF Peer, Sides
    <2> QED BY <1>0, <1>1, <1>4, <2>1 DEF Following, Busy, Reach, Agree
  <1>6. Connected
    BY <1>0 DEF Connected
  <1> QED BY <1>3, <1>5, <1>6 DEF InStep

\* Between two exchanges there is only the user to act.
LEMMA RestingSteps ==
    ASSUME WireInv, Resting, Next
    PROVE  WireInv'
  <1>0. "client" \in Sides /\ "server" \in Sides /\ \A y \in Sides : y = "client" \/ y = "server"
    BY DEF Sides
  <1>1. Placed /\ Heard /\ Connected
    BY DEF WireInv
  <1>2. /\ op["client"] \in {"idle", "ended"} /\ op["server"] = op["client"]
        /\ \A x \in Sides : wire[x] = <<>> /\ ~Busy(x) /\ step[x] = 1
    BY <1>0, <1>1 DEF Resting, Placed, Busy
  <1>3. ~Dispatch /\ \A x \in Sides : ~Send(x) /\ ~Receive(x)
    <2>1. ~Arrived("server")
      BY <1>0, <1>1, <1>2, NothingArrives DEF Peer
    <2> QED BY <1>2, <2>1 DEF Dispatch, Send, Receive
  <1>4. CASE Begin
    <2>1. PICK o \in Requests, old \in Names, new \in Names, n \in Sizes :
            /\ IsStringValid(old) /\ IsStringValid(new)
            /\ op' = [op EXCEPT !["client"] = o] /\ names' = <<old, new>>
            /\ size' = [size EXCEPT !["client"] = n]
      BY <1>4 DEF Begin, Sizes
    <2>2. step' = step /\ wire' = wire /\ heard' = heard /\ op["client"] = "idle"
      BY <1>4 DEF Begin
    <2>3. n \in Nat /\ o \in Operations /\ o \notin {"idle", "ended"}
      BY <2>1, SizesAreNumbers DEF Operations, Requests
    <2>4. 1 <= Len(Exchange(o, n))
      BY <2>3, ExchangeIsProper DEF Proper
    <2>5. /\ op'["client"] = o /\ op'["server"] = "idle" /\ size'["client"] = n
          /\ size'["server"] = size["server"]
          /\ op' \in [Sides -> Operations \cup {"idle", "ended"}] /\ size' \in [Sides -> Sizes]
      BY <1>0, <1>1, <1>2, <2>1, <2>2, <2>3 DEF Placed
    <2>6. Placed'
      <3>1. step' \in [Sides -> Nat \ {0}] /\ \A x \in Sides : step'[x] = 1
        BY <1>1, <1>2, <2>2 DEF Placed
      <3> QED BY <1>0, <2>3, <2>4, <2>5, <3>1 DEF Placed, Busy
    <2>7. Heard'
      BY <1>1, <2>1, <2>2 DEF Heard, NamesValid, ReadAsWritten, IsStringValid
    <2>8. Opening'
      <3>1. Carries(<<>>, "client", o, n, 1, 1)
        BY NothingCarried
      <3> QED BY <1>0, <1>2, <2>2, <2>5, <3>1 DEF Opening
    <2>9. Connected'
      BY <1>1, <2>2 DEF Connected
    <2> QED BY <2>6, <2>7, <2>8, <2>9 DEF WireInv, InStep
  <1>5. CASE Connect
    <2>1. PICK user \in Names : IsStringValid(user) /\ names' = <<user, user>>
      BY <1>5 DEF Connect
    <2>2. /\ op' = [x \in Sides |-> "AUTHENTICATION_REQUEST"] /\ step' = [x \in Sides |-> 1]
          /\ size' = [x \in Sides |-> 0] /\ wire' = [x \in Sides |-> <<>>] /\ heard' = heard
      BY <1>5 DEF Connect
    <2>3. Heard'
      BY <1>1, <2>1, <2>2 DEF Heard, NamesValid, ReadAsWritten, IsStringValid
    <2>4. Start'
      BY <2>2 DEF Start
    <2>5. (Placed /\ Connected /\ InStep)'
      BY <2>4, Starts, PTL
    <2> QED BY <2>3, <2>5 DEF WireInv
  <1> QED BY <1>0, <1>3, <1>4, <1>5 DEF Next

-----------------------------------------------------------------------------
(* The theorems.                                                            *)

\* The inductive invariant holds initially,
LEMMA InvInit == Init => WireInv
  <1> SUFFICES ASSUME Init PROVE WireInv
    OBVIOUS
  <1>1. Placed /\ Connected /\ InStep
    BY Starts DEF Init, Start
  <1>2. Heard
    <2>1. PICK user \in Names : IsStringValid(user) /\ names = <<user, user>>
      BY DEF Init
    <2>2. heard = << <<>>, <<>> >>
      BY DEF Init
    <2> QED BY <2>1, <2>2 DEF Heard, NamesValid, ReadAsWritten
  <1> QED BY <1>1, <1>2 DEF WireInv

\* and every step preserves it.
LEMMA InvStep == WireInv /\ [Next]_vars => WireInv'
  <1> SUFFICES ASSUME WireInv, [Next]_vars PROVE WireInv'
    OBVIOUS
  <1>1. CASE Next
    <2>1. CASE \E x \in Sides : Following(x)
      BY <1>1, <2>1, FollowingSteps
    <2>2. CASE Opening
      BY <1>1, <2>2, OpeningSteps
    <2>3. CASE Resting
      BY <1>1, <2>3, RestingSteps
    <2> QED BY <2>1, <2>2, <2>3 DEF WireInv, InStep
  <1>2. CASE UNCHANGED vars
    BY <1>2 DEF vars, WireInv, Placed, Heard, NamesValid, ReadAsWritten, IsStringValid, Connected,
                InStep, Following, Opening, Resting, Reach, Busy
  <1> QED BY <1>1, <1>2

\* The two sides stay in step: one of them is behind, and the connection carries exactly what
\* it has not taken (Client::run, Server::run).
THEOREM WireInvariant == Spec => []WireInv
  BY InvInit, InvStep, PTL DEF Spec

\* Every variable has a value of its type, and nothing read is garbled.
THEOREM WireTypes == Spec => []TypeOK
  <1>1. WireInv => TypeOK
    BY DEF WireInv, Placed, Heard, NamesValid, TypeOK, Operations
  <1> QED BY <1>1, WireInvariant, PTL

\* What deserialize of one side reads is what serialize of the other wrote, field by field, in
\* every message of every session (src/messages).
THEOREM EverythingIsReadAsWritten == Spec => []ReadAsWritten
  <1>1. WireInv => ReadAsWritten
    BY DEF WireInv, Heard
  <1> QED BY <1>1, WireInvariant, PTL

\* serialize stays within its buffer, send and encrypt within the bytes that are there, and
\* deserialize within the bytes awaited.
THEOREM BuffersHoldMessages == Spec => []WithinBuffers
  <1>1. WireInv => WithinBuffers
    <2> SUFFICES ASSUME Placed, NEW x \in Sides, Busy(x)
                 PROVE  LET class == Class(Here(x).kind, Here(x).n)
                        IN  IF Here(x).by = x
                            THEN /\ Width(class.written) <= class.buffer
                                 /\ SentLen(Here(x)) <= class.buffer
                            ELSE Width(class.read) <= AwaitedLen(op[x], step[x], Here(x))
      BY DEF WireInv, WithinBuffers
    <2>1. PICK t, o, j : t = Here(x) /\ o = op[x] /\ j = step[x]
      OBVIOUS
    <2>2. AtPlace(o, j, t)
      BY <2>1, HereAtPlace
    <2>3. t.kind \in Kinds /\ t.n \in Nat
      BY <2>2 DEF AtPlace, Turns
    <2>4. /\ SentLen(t) \in Nat /\ AwaitedLen(o, j, t) = SentLen(t)
          /\ Width(Class(t.kind, t.n).written) <= SentLen(t)
          /\ SentLen(t) <= Class(t.kind, t.n).buffer
      BY <2>2, LengthsAgree
    <2>5. PICK c : c = Class(t.kind, t.n)
      OBVIOUS
    <2>6. c.read = c.written /\ c.buffer \in Nat /\ Width(c.written) \in Nat
      <3>1. Shaped(t.kind, t.n)
        BY <2>3, ClassShape
      <3>2. Width(Class(t.kind, t.n).written) \in Nat
        BY <3>1, WidthType DEF Shaped
      <3> QED BY <2>5, <3>1, <3>2 DEF Shaped
    <2>7. /\ Width(c.written) <= c.buffer /\ SentLen(t) <= c.buffer
          /\ Width(c.read) <= AwaitedLen(o, j, t)
      BY <2>4, <2>5, <2>6
    <2> QED BY <2>1, <2>5, <2>7
  <1> QED BY <1>1, WireInvariant, PTL

\* Between two requests no byte is left for the next one to begin with.
THEOREM ConnectionIsLeftEmpty == Spec => []NothingLeft
  <1>1. WireInv => NothingLeft
    <2> SUFFICES ASSUME WireInv, \A x \in Sides : op[x] \in {"idle", "ended"}
                 PROVE  Resting
      BY DEF NothingLeft, Resting
    <2>1. ~ \E x \in Sides : Following(x)
      BY DEF Following, Busy
    <2>2. ~Opening
      <3>1. "client" \in Sides
        BY DEF Sides
      <3> QED BY <3>1 DEF Opening, Requests
    <2> QED BY <2>1, <2>2 DEF WireInv, InStep
  <1> QED BY <1>1, WireInvariant, PTL

\* Where a unit is what a side awaits, it has arrived.
LEMMA UnitArrives ==
    ASSUME NEW x \in Sides, NEW p, p = Peer(x), NEW o, NEW n, NEW i \in Nat, NEW j \in Nat,
           \A k \in i..j - 1 : \E l \in Nat : AtPlace(o, l, Exchange(o, n)[k]),
           Carries(wire[p], p, o, n, i, j), wire[p] # <<>>,
           Asked(x) # 0, Asked(x) = UnitSize(wire[p][1].len, wire[p][1].sealed)
    PROVE  Arrived(x)
  <1>1. PICK w : w = wire[p]
    OBVIOUS
  <1>2. w \in Seq(Range(w)) /\ w # <<>> /\ Len(w) = j - i
    BY <1>1 DEF Carries
  <1>3. ASSUME NEW k \in 1..Len(w) PROVE w[k].len \in Nat /\ w[k].sealed \in BOOLEAN
    <2> DEFINE turn == Exchange(o, n)[i + k - 1]
    <2>1. i + k - 1 \in i..j - 1
      BY <1>2
    <2>2. PICK l \in Nat : AtPlace(o, l, turn)
      BY <2>1
    <2>3. Says(w[k], turn, n)
      BY <1>1 DEF Carries
    <2> HIDE DEF turn
    <2>4. SentLen(turn) \in Nat /\ turn.sealed \in BOOLEAN
      BY <2>2, LengthsAgree DEF AtPlace, Turns
    <2>5. w[k] = [m |-> w[k].m, len |-> SentLen(turn), sealed |-> turn.sealed]
      BY <2>3 DEF Says
    <2> QED BY <2>4, <2>5
  <1>4. BytesIn(w) \in Nat /\ UnitSize(w[1].len, w[1].sealed) <= BytesIn(w)
    BY <1>2, <1>3, HeadIsThere
  <1> QED BY <1>1, <1>4 DEF Arrived, Bytes, BytesIn

\* Both sides never wait for bytes at once.
THEOREM NobodyWaitsInVain == Spec => []SomeoneSends
  <1>1. ASSUME WireInv, NEW x \in Sides, Following(x), \A y \in Sides : Asked(y) # 0 /\ ~Arrived(y)
        PROVE  FALSE
    <2>1. PICK p, o, j, m, r : /\ p = Peer(x) /\ o = op[x] /\ j = step[x]
                               /\ m = size[p] /\ r = Reach(p, o)
      OBVIOUS
    <2>2. /\ o \in Operations /\ m \in Nat /\ j \in 1..Len(Exchange(o, m))
          /\ Exchange(o, m)[j] = Here(x)
          /\ AtPlace(o, j, Here(x)) /\ r \in Nat /\ r <= Len(Exchange(o, m)) + 1
          /\ wire[p] = <<>> => op[p] = o /\ step[p] = j
          /\ wire[p] # <<>> => Here(x).by = p /\ Says(wire[p][1], Here(x), m)
      BY <1>1, <2>1, FollowerSees DEF WireInv
    <2>3. Busy(x) /\ Carries(wire[p], p, o, m, j, r) /\ p \in Sides /\ p # x /\ Peer(p) = x
          /\ \A y \in Sides : y = x \/ y = p
      BY <1>1, <2>1, Peers DEF Following
    <2>4. CASE wire[p] = <<>>
      <3>1. Busy(p) /\ Here(p) = Here(x)
        <4>1. op[p] = op[x] /\ size[p] = m /\ step[p] = j
          BY <2>1, <2>2, <2>4
        <4> QED BY <2>1, <2>2, <2>3, <4>1 DEF Busy, Here
      <3>2. Here(x).by \in Sides
        BY <2>2 DEF AtPlace, Turns
      <3>3. \A y \in Sides : Busy(y) /\ Here(y).by = y => Asked(y) = 0
        BY DEF Asked, Busy, Peer, Sides
      <3> QED BY <1>1, <2>3, <3>1, <3>2, <3>3
    <2>5. CASE wire[p] # <<>>
      <3>1. Asked(x) = UnitSize(AwaitedLen(o, j, Here(x)), Here(x).sealed)
        BY <1>1, <2>1, <2>2, <2>3, <2>5 DEF Asked, Busy
      <3>2. AwaitedLen(o, j, Here(x)) = wire[p][1].len /\ Here(x).sealed = wire[p][1].sealed
        BY <2>2, <2>5, SaidIsRead
      <3>3. \A k \in j..r - 1 : \E l \in Nat : AtPlace(o, l, Exchange(o, m)[k])
        <4>1. ASSUME NEW k \in j..r - 1 PROVE k \in 1..Len(Exchange(o, m))
          <5>1. PICK L : L = Len(Exchange(o, m)) /\ L \in Nat
            BY <2>2, ExchangeIsProper DEF Proper
          <5> QED BY <2>2, <5>1
        <4>2. ASSUME NEW k \in j..r - 1 PROVE k \in Nat /\ AtPlace(o, k, Exchange(o, m)[k])
          BY <2>2, <4>1, TurnAtPlace
        <4> QED BY <4>2
      <3>4. j \in Nat
        BY <2>2
      <3>5. Asked(x) = UnitSize(wire[p][1].len, wire[p][1].sealed)
        BY <3>1, <3>2
      <3>6. Carries(wire[p], p, o, m, j, r) /\ r \in Nat /\ Asked(x) # 0 /\ p = Peer(x)
        BY <1>1, <2>1, <2>2, <2>3
      <3>7. Arrived(x)
        BY <2>5, <3>3, <3>4, <3>5, <3>6, UnitArrives
      <3> QED BY <1>1, <3>7
    <2> QED BY <2>4, <2>5
  <1>2. ASSUME WireInv, Opening, \A y \in Sides : Asked(y) # 0 /\ ~Arrived(y)
        PROVE  FALSE
    <2>0. "client" \in Sides /\ "server" \in Sides
      BY DEF Sides
    <2>1. PICK o, i, n : o = op["client"] /\ i = step["client"] /\ n = size["client"]
      OBVIOUS
    <2>2. Placed /\ Busy("client") /\ o \in Requests /\ o \in Operations /\ op["server"] = "idle"
          /\ n \in Nat /\ i \in 1..2 /\ Carries(wire["client"], "client", o, n, 1, i)
      <3>1. Placed /\ Busy("client") /\ o \in Requests /\ o \in Operations
        BY <1>2, <2>1 DEF WireInv, Opening, Busy, Requests, Operations
      <3>2. i <= 2 /\ i \in Nat \ {0} /\ n \in Sizes
        BY <1>2, <2>0, <2>1, <3>1 DEF Opening, Placed
      <3> QED BY <1>2, <2>1, <3>1, <3>2, SizesAreNumbers DEF Opening
    <2>3. AtPlace(o, i, Here("client")) /\ Here("client") = Exchange(o, n)[i]
      BY <2>0, <2>1, <2>2, Here_Placed, TurnAtPlace
    <2>4. CASE i = 1
      <3>1. Here("client").by = "client"
        BY <2>3, <2>4 DEF AtPlace
      <3>2. Asked("client") = 0
        BY <2>2, <3>1 DEF Asked, Peer
      <3> QED BY <1>2, <2>0, <3>2
    <2>5. CASE i = 2
      <3>1. PICK w, k : w = wire["client"] /\ k = 1
        OBVIOUS
      <3>2. Carries(w, "client", o, n, k, i) /\ k \in Nat /\ i \in Nat /\ Len(w) = 1
        BY <2>2, <2>5, <3>1 DEF Carries
      <3>3. w # <<>>
        BY <3>2
      <3>4. Says(w[1], Exchange(o, n)[k], n)
        BY <3>2, <3>3, CarriesOneLess
      <3>5. AtPlace(o, k, Exchange(o, n)[k])
        <4>1. Len(Exchange(o, n)) \in Nat /\ Len(Exchange(o, n)) >= 2
          BY <2>2, ExchangeIsProper DEF Proper
        <4>2. k \in 1..Len(Exchange(o, n))
          BY <3>1, <4>1
        <4> QED BY <2>2, <4>2, TurnAtPlace
      <3>6. PICK t : t = Exchange(o, n)[k]
        OBVIOUS
      <3>7. t.sealed /\ AwaitedLen(o, k, t) = PacketSize
        <4>1. t.sealed
          BY <2>2, <3>1, <3>5, <3>6 DEF AtPlace
        <4> QED BY <3>1, <4>1 DEF AwaitedLen
      <3>8. w[1].len = PacketSize /\ w[1].sealed = t.sealed
        <4>1. PICK u : u = w[1]
          OBVIOUS
        <4>2. AtPlace(o, k, t) /\ Says(u, t, n) /\ n \in Nat
          BY <2>2, <3>4, <3>5, <3>6, <4>1
        <4>3. u.len = AwaitedLen(o, k, t) /\ u.sealed = t.sealed
          BY <4>2, SaidIsRead
        <4> QED BY <3>7, <4>1, <4>3
      <3>9. w[1].sealed = TRUE
        <4>1. t.sealed \in BOOLEAN
          BY <3>5, <3>6 DEF AtPlace, Turns
        <4> QED BY <3>7, <3>8, <4>1
      <3>10. Asked("server") = UnitSize(PacketSize, TRUE)
        BY <2>2 DEF Asked
      <3>11. \A q \in k..i - 1 : \E l \in Nat : AtPlace(o, l, Exchange(o, n)[q])
        <4>1. \A q \in k..i - 1 : q = k
          BY <2>5, <3>1
        <4> QED BY <3>2, <3>5, <4>1
      <3>12. Peer("server") = "client"
        BY DEF Peer
      <3>13. Arrived("server")
        <4>1. PICK p : p = "client"
          OBVIOUS
        <4>2. p = Peer("server") /\ Carries(wire[p], p, o, n, k, i) /\ wire[p] # <<>>
              /\ Asked("server") = UnitSize(wire[p][1].len, wire[p][1].sealed)
          BY <3>1, <3>2, <3>3, <3>8, <3>9, <3>10, <3>12, <4>1
        <4> QED BY <1>2, <2>0, <3>2, <3>11, <4>2, UnitArrives
      <3> QED BY <1>2, <2>0, <3>13
    <2> QED BY <2>2, <2>4, <2>5
  <1>3. ASSUME Resting PROVE Asked("client") = 0
    BY <1>3 DEF Resting, Asked, Busy
  <1>4. WireInv => SomeoneSends
    <2> SUFFICES ASSUME WireInv, \A x \in Sides : Asked(x) # 0 /\ ~Arrived(x) PROVE FALSE
      BY DEF SomeoneSends
    <2>1. "client" \in Sides
      BY DEF Sides
    <2> QED BY <1>1, <1>2, <1>3, <2>1 DEF WireInv, InStep
  <1> QED BY <1>4, WireInvariant, PTL

=============================================================================
