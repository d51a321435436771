-------------------------- MODULE ValidationProofs --------------------------
(***************************************************************************)
(* Proofs about Validation: what the finds and slices of validate_email    *)
(* accept, for texts of every length, characters of every width and every  *)
(* limit.                                                                  *)
(***************************************************************************)
EXTENDS Validation, FiniteSetTheorems, TLAPS

-----------------------------------------------------------------------------
(* The first and the last of some positions.                               *)

(* A set of naturals that is not empty has a least member. *)
LEMMA LeastOf ==
  ASSUME NEW S \in SUBSET Nat, S # {}
  PROVE  Min(S) \in S /\ \A i \in S : Min(S) <= i
  <1>1. PICK x \in S : \A y \in S : ~ (<<y, x>> \in OpToRel(<, Nat))
    BY NatLessThanWellFounded, WFMin
  <1>2. ASSUME NEW y \in S, y < x
        PROVE  FALSE
    <2>1. <<y, x>> \in OpToRel(<, Nat)
      BY <1>2 DEF OpToRel
    <2>. QED
      BY <1>1, <2>1
  <1>3. \A y \in S : x <= y
    BY <1>2
  <1>. QED
    BY <1>3 DEF Min

(* And a greatest, if it is bounded. *)
LEMMA GreatestOf ==
  ASSUME NEW n \in Nat, NEW S \in SUBSET (1 .. n), S # {}
  PROVE  Max(S) \in S /\ \A i \in S : i <= Max(S)
  <1>. DEFINE T == {n - i : i \in S}
  <1>1. T \in SUBSET Nat /\ T # {}
    <2>1. \A i \in S : n - i \in T /\ n - i \in Nat
      OBVIOUS
    <2>. QED
      BY <2>1
  <1>2. Min(T) \in T /\ \A k \in T : Min(T) <= k
    BY <1>1, LeastOf
  <1>3. PICK x \in S : Min(T) = n - x
    BY <1>2
  <1>4. ASSUME NEW y \in S
        PROVE  x >= y
    <2>1. n - y \in T
      OBVIOUS
    <2>2. n - x <= n - y
      BY <1>2, <1>3, <2>1
    <2>. QED
      BY <2>2
  <1>. QED
    BY <1>4 DEF Max

(* str::find, str::rfind. *)
LEMMA FindIs ==
  ASSUME NEW s \in Seq(Char), NEW c
  PROVE  /\ Find(s, c) = 0 <=> \A i \in 1 .. Len(s) : s[i] # c
         /\ Find(s, c) # 0 =>
               /\ Find(s, c) \in 1 .. Len(s) /\ s[Find(s, c)] = c
               /\ \A i \in 1 .. Len(s) : s[i] = c => Find(s, c) <= i
  <1>. DEFINE I == {i \in 1 .. Len(s) : s[i] = c}
  <1>1. Find(s, c) = IF I # {} THEN Min(I) ELSE 0
    BY DEF Find, SelectInSeq
  <1>2. I \in SUBSET Nat
    OBVIOUS
  <1>3. I # {} => Min(I) \in I /\ \A i \in I : Min(I) <= i
    BY <1>2, LeastOf
  <1>. QED
    BY <1>1, <1>3

(* str::rfind. *)
LEMMA RFindIs ==
  ASSUME NEW s \in Seq(Char), NEW c
  PROVE  /\ RFind(s, c) = 0 <=> \A i \in 1 .. Len(s) : s[i] # c
         /\ RFind(s, c) # 0 =>
               /\ RFind(s, c) \in 1 .. Len(s) /\ s[RFind(s, c)] = c
               /\ \A i \in 1 .. Len(s) : s[i] = c => i <= RFind(s, c)
  <1>. DEFINE I == {i \in 1 .. Len(s) : s[i] = c}
  <1>1. RFind(s, c) = IF I # {} THEN Max(I) ELSE 0
    BY DEF RFind, SelectLastInSeq
  <1>2. I \in SUBSET (1 .. Len(s)) /\ Len(s) \in Nat
    OBVIOUS
  <1>3. I # {} => Max(I) \in I /\ \A i \in I : i <= Max(I)
    BY <1>2, GreatestOf
  <1>. QED
    BY <1>1, <1>3

(* The slices before and after a position. *)
LEMMA Slices ==
  ASSUME NEW s \in Seq(Char), NEW i \in 1 .. Len(s)
  PROVE  /\ Before(s, i) \in Seq(Char) /\ Len(Before(s, i)) = i - 1
         /\ After(s, i) \in Seq(Char) /\ Len(After(s, i)) = Len(s) - i
         /\ \A k \in 1 .. Len(s) - i : After(s, i)[k] = s[i + k]
  BY DEF Before, After

(* str::len: a text has at least a byte for each of its characters. *)
LEMMA BytesIs ==
  ASSUME NEW s \in Seq(Char)
  PROVE  Bytes(s) \in Nat /\ Bytes(s) >= Len(s) /\ (Bytes(s) = 0 <=> s = <<>>)
  <1>. DEFINE W == {i \in DOMAIN s : s[i] = Wide}
  <1>1. Cardinality(W) \in Nat
    <2>1. IsFiniteSet(1 .. Len(s)) /\ W \in SUBSET (1 .. Len(s))
      BY FS_Interval
    <2>. QED
      BY <2>1, FS_Subset, FS_CardinalityType
  <1>2. s = <<>> => Cardinality(W) = 0
    BY FS_EmptySet
  <1>. HIDE DEF W
  <1>3. WIDE_BYTES - 1 \in Nat
    BY LimitAssumption
  <1>4. \A m, n \in Nat : m * n \in Nat /\ m * 0 = 0
    OBVIOUS
  <1>5. (WIDE_BYTES - 1) * Cardinality(W) \in Nat
    BY <1>1, <1>3, <1>4
  <1>6. Bytes(s) = Len(s) + (WIDE_BYTES - 1) * Cardinality(W)
    BY DEF Bytes, W
  <1>7. s = <<>> => Bytes(s) = 0
    BY <1>2, <1>3, <1>4, <1>6
  <1>. QED
    BY <1>5, <1>6, <1>7

-----------------------------------------------------------------------------
(* What the checks accept.                                                 *)

(* The domain: that it has a dot, and not at its edges, is found out from   *)
(* its first character and from what is after its last dot.                *)
LEMMA DomainIs ==
  ASSUME NEW d \in Seq(Char)
  PROVE  DomainOk(d) <=> Dot \in Range(d) /\ Dot \notin {Head(d), Last(d)}
  <1>. DEFINE r == RFind(d, Dot)
  <1>1. /\ r = 0 <=> \A i \in 1 .. Len(d) : d[i] # Dot
        /\ r # 0 => /\ r \in 1 .. Len(d) /\ d[r] = Dot
                    /\ \A i \in 1 .. Len(d) : d[i] = Dot => i <= r
    BY RFindIs
  <1>2. Dot \in Range(d) <=> r # 0
    BY <1>1 DEF Range
  <1>3. r # 0 => (After(d, r) # <<>> <=> r < Len(d))
    <2>1. ASSUME r # 0
          PROVE  After(d, r) \in Seq(Char) /\ Len(After(d, r)) = Len(d) - r
      BY <1>1, <2>1, Slices
    <2>. QED
      BY <1>1, <2>1
  <1>4. r # 0 => (r < Len(d) <=> Last(d) # Dot)
    BY <1>1 DEF Last
  <1>5. r # 0 => (IsPrefix(<<Dot>>, d) <=> Head(d) = Dot)
    <2>1. ASSUME r # 0
          PROVE  IsPrefix(<<Dot>>, d) <=> d[1] = Dot
      <3>1. Len(d) >= 1
        BY <1>1, <2>1
      <3>2. <<Dot>> \in Seq(Char) /\ Len(<<Dot>>) = 1 /\ <<Dot>>[1] = Dot
        BY DEF Char
      <3>3. IsPrefix(<<Dot>>, d) <=> SubSeq(<<Dot>>, 1, 1) = SubSeq(d, 1, 1)
        BY <3>1, <3>2 DEF IsPrefix
      <3>4. \A s \in Seq(Char) : Len(s) >= 1 => SubSeq(s, 1, 1) = [i \in 1 .. 1 |-> s[1]]
        OBVIOUS
      <3>5. SubSeq(<<Dot>>, 1, 1) = [i \in 1 .. 1 |-> Dot] /\ SubSeq(d, 1, 1) = [i \in 1 .. 1 |-> d[1]]
        BY <3>1, <3>2, <3>4
      <3>6. [i \in 1 .. 1 |-> Dot] = [i \in 1 .. 1 |-> d[1]] <=> Dot = d[1]
        OBVIOUS
      <3>. QED
        BY <3>3, <3>5, <3>6
    <2>2. r # 0 => Head(d) = d[1]
      BY <1>1
    <2>. QED
      BY <2>1, <2>2
  <1>. HIDE DEF r
  <1>. QED
    BY <1>2, <1>3, <1>4, <1>5 DEF DomainOk, r

(* validate_email decides by positions exactly what an address is said to   *)
(* be without them: one '@', a local part that is there and not too long,   *)
(* and a domain with a dot inside.                                         *)
THEOREM AddressesAreValid ==
  ASSUME NEW email \in Seq(Char)
  PROVE  ValidateEmail(email) <=> IsAddress(email)
  <1>. DEFINE at == Find(email, AtSign)
              local == Before(email, at)
              domain == After(email, at)
              OneAt(i) == \A j \in DOMAIN email : email[j] = AtSign <=> j = i
  <1>1. /\ at = 0 <=> \A i \in 1 .. Len(email) : email[i] # AtSign
        /\ at # 0 => /\ at \in 1 .. Len(email) /\ email[at] = AtSign
                     /\ \A i \in 1 .. Len(email) : email[i] = AtSign => at <= i
    BY FindIs
  <1>2. at # 0 => /\ local \in Seq(Char) /\ domain \in Seq(Char)
                  /\ Len(domain) = Len(email) - at
                  /\ \A k \in 1 .. Len(email) - at : domain[k] = email[at + k]
    BY <1>1, Slices
  <1>3. at # 0 => (Contains(domain, AtSign) <=> ~OneAt(at))
    <2>1. ASSUME at # 0, Contains(domain, AtSign)
          PROVE  ~OneAt(at)
      <3>1. PICK k \in 1 .. Len(domain) : domain[k] = AtSign
        BY <2>1 DEF Contains
      <3>2. at + k \in 1 .. Len(email) /\ email[at + k] = AtSign /\ at + k # at
        BY <1>1, <1>2, <2>1, <3>1
      <3>. QED
        BY <3>2
    <2>2. ASSUME at # 0, ~OneAt(at)
          PROVE  Contains(domain, AtSign)
      <3>1. PICK j \in 1 .. Len(email) : email[j] = AtSign /\ j > at
        BY <1>1, <2>2
      <3>2. j - at \in 1 .. Len(domain) /\ domain[j - at] = AtSign
        BY <1>1, <1>2, <2>2, <3>1
      <3>. QED
        BY <3>2 DEF Contains
    <2>. QED
      BY <2>1, <2>2
  <1>4. at # 0 => (local # <<>> /\ Bytes(local) <= MAX_LOCAL <=> Bytes(local) \in 1 .. MAX_LOCAL)
    BY <1>2, BytesIs, LimitAssumption
  <1>5. at # 0 => (DomainOk(domain) <=>
                       Dot \in Range(domain) /\ Dot \notin {Head(domain), Last(domain)})
    BY <1>2, DomainIs
  <1>6. \A i \in DOMAIN email : OneAt(i) => at # 0 /\ i = at
    BY <1>1
  <1>. HIDE DEF OneAt, at
  <1>7. IsAddress(email) <=>
          /\ Bytes(email) <= MAX_EMAIL
          /\ at # 0 /\ OneAt(at)
          /\ Bytes(local) \in 1 .. MAX_LOCAL
          /\ Dot \in Range(domain) /\ Dot \notin {Head(domain), Last(domain)}
    <2>1. IsAddress(email) <=>
            /\ Bytes(email) <= MAX_EMAIL
            /\ \E i \in DOMAIN email :
                 /\ OneAt(i)
                 /\ Bytes(Before(email, i)) \in 1 .. MAX_LOCAL
                 /\ Dot \in Range(After(email, i))
                 /\ Dot \notin {Head(After(email, i)), Last(After(email, i))}
      BY DEF IsAddress, OneAt, Before, After
    <2>2. at # 0 => at \in DOMAIN email
      BY <1>1
    <2>. HIDE DEF OneAt
    <2>. QED
      BY <1>6, <2>1, <2>2
  <1>. QED
    BY <1>3, <1>4, <1>5, <1>7 DEF ValidateEmail, at

(* Every password that may be set may be asked for. *)
LEMMA SetIsAccepted ==
  ASSUME NEW password \in Seq(Char), ValidatePassword(password)
  PROVE  AcceptsToVerify(password)
  BY BytesIs, LimitAssumption DEF ValidatePassword, AcceptsToVerify

(* A text without wide characters has a byte for each. *)
LEMMA NarrowBytes ==
  ASSUME NEW s \in Seq(Char), {i \in DOMAIN s : s[i] = Wide} = {}
  PROVE  Bytes(s) = Len(s)
  <1>1. Bytes(s) = Len(s) + (WIDE_BYTES - 1) * 0
    BY FS_EmptySet DEF Bytes
  <1>2. \A k \in Int : k * 0 = 0
    OBVIOUS
  <1>3. WIDE_BYTES - 1 \in Int /\ Len(s) \in Nat
    BY LimitAssumption
  <1>4. (WIDE_BYTES - 1) * 0 = 0
    BY <1>2, <1>3
  <1>. QED
    BY <1>1, <1>3, <1>4

(* The password the other fields are tried with may be set. *)
LEMMA GoodPasswordIsValid ==
  GoodPassword \in Seq(Char) /\ ValidatePassword(GoodPassword)
  <1>1. MIN_PASSWORD \in Nat
    BY LimitAssumption
  <1>2. GoodPassword \in Seq(Char) /\ Len(GoodPassword) = MIN_PASSWORD
    BY <1>1 DEF GoodPassword, Char
  <1>3. {i \in DOMAIN GoodPassword : GoodPassword[i] = Wide} = {}
    BY CharAssumption DEF GoodPassword
  <1>4. Bytes(GoodPassword) = MIN_PASSWORD
    BY <1>2, <1>3, NarrowBytes
  <1>. QED
    BY <1>2, <1>4, LimitAssumption DEF ValidatePassword

(* The email the other fields are tried with is accepted. *)
LEMMA GoodEmailIsValid ==
  GoodEmail \in Seq(Char) /\ ValidateEmail(GoodEmail)
  <1>1. GoodEmail \in Seq(Char) /\ Len(GoodEmail) = 5
    BY DEF GoodEmail, Char
  <1>2. \A i \in 1 .. 5 : GoodEmail[i] = IF i = 2 THEN AtSign ELSE IF i = 4 THEN Dot ELSE Letter
    BY DEF GoodEmail
  <1>. USE CharAssumption
  <1>3. Bytes(GoodEmail) = 5
    <2>1. {i \in DOMAIN GoodEmail : GoodEmail[i] = Wide} = {}
      BY <1>1, <1>2
    <2>. QED
      BY <1>1, <2>1, NarrowBytes
  <1>. DEFINE domain == SubSeq(GoodEmail, 3, Len(GoodEmail))
              local == SubSeq(GoodEmail, 1, 1)
  <1>4. \A j \in DOMAIN GoodEmail : GoodEmail[j] = AtSign <=> j = 2
    BY <1>1, <1>2
  <1>5. Bytes(local) \in 1 .. MAX_LOCAL
    <2>1. local \in Seq(Char) /\ Len(local) = 1 /\ local[1] = Letter
      BY <1>1, <1>2
    <2>2. {i \in DOMAIN local : local[i] = Wide} = {}
      BY <2>1
    <2>. HIDE DEF local
    <2>3. Bytes(local) = 1
      BY <2>1, <2>2, NarrowBytes
    <2>. QED
      BY <2>3, LimitAssumption
  <1>6. Dot \in Range(domain) /\ Dot \notin {Head(domain), Last(domain)}
    <2>1. /\ domain \in Seq(Char) /\ Len(domain) = 3
          /\ domain[1] = Letter /\ domain[2] = Dot /\ domain[3] = Letter
      BY <1>1, <1>2
    <2>. HIDE DEF domain
    <2>2. Head(domain) = Letter
      BY <2>1
    <2>. QED
      BY <2>1, <2>2 DEF Range, Last
  <1>7. IsAddress(GoodEmail)
    <2>1. 2 \in DOMAIN GoodEmail
      BY <1>1
    <2>2. SubSeq(GoodEmail, 2 + 1, Len(GoodEmail)) = domain /\ SubSeq(GoodEmail, 1, 2 - 1) = local
      OBVIOUS
    <2>. HIDE DEF domain, local
    <2>. QED
      BY <1>3, <1>4, <1>5, <1>6, <2>1, <2>2, LimitAssumption DEF IsAddress
  <1>. QED
    BY <1>1, <1>7, AddressesAreValid

-----------------------------------------------------------------------------
(* Theorems of the specification.                                          *)

(* The field holds characters, as many as have been typed. *)
IsText == text \in Seq(Char)

(* A field holds a text, whatever is typed. *)
LEMMA TextIsText ==
  Spec => []IsText
  <1>1. Init => IsText
    BY DEF Init, IsText
  <1>2. ASSUME IsText, [Next]_text
        PROVE  IsText'
    <2>1. ASSUME NEW c \in Char, Type(c)
          PROVE  IsText'
      BY <1>2, <2>1 DEF Type, IsText
    <2>2. CASE Clear
      BY <2>2 DEF Clear, IsText
    <2>3. CASE text' = text
      BY <1>2, <2>3 DEF IsText
    <2>. QED
      BY <1>2, <2>1, <2>2, <2>3 DEF Next
  <1>. QED
    BY <1>1, <1>2, PTL DEF Spec

(* In each of the three requests that take an address, the checks accept    *)
(* addresses and nothing else, however long the field and wherever its '@'  *)
(* and its dots stand.                                                     *)
THEOREM EmailsHold == Spec => []EmailIsAddress
  <1>1. IsText => EmailIsAddress
    BY AddressesAreValid, GoodPasswordIsValid, SetIsAccepted
       DEF IsText, EmailIsAddress, Register, Login, ResetRequest
  <1>. QED
    BY <1>1, TextIsText, PTL

(* Nobody is let in with a password that keeps them out afterwards.         *)
THEOREM PasswordsHold == Spec => []SetPasswordLogsIn
  <1>1. IsText => SetPasswordLogsIn
    BY GoodEmailIsValid, GoodPasswordIsValid, SetIsAccepted
       DEF IsText, SetPasswordLogsIn, Register, ChangePassword, ResetConfirm, Login
  <1>. QED
    BY <1>1, TextIsText, PTL
=============================================================================
