--------------------------- MODULE CredentialsProofs ---------------------------
(***************************************************************************)
(* What becomes of a password between StorageSaveCredential and            *)
(* StorageLoadCredential, for every key and every password.                *)
(***************************************************************************)
EXTENDS Credentials, WellFoundedInduction, SequenceTheorems, TLAPS

(* A set of numbers that has a member has a least one.                     *)
LEMMA LeastExists ==
    ASSUME NEW S \in SUBSET Nat, S # {}
    PROVE  \E i \in S : \A j \in S : i <= j
<1> DEFINE R == OpToRel(<, Nat)
<1>1. IsWellFoundedOn(R, Nat)
  BY NatLessThanWellFounded
<1>2. \A x, y \in Nat : y < x => <<y, x>> \in R
  BY DEF OpToRel
<1> HIDE DEF R
<1>3. PICK i \in S : \A j \in S : <<j, i>> \notin R
  BY <1>1, WFMin
<1>4. \A j \in S : ~(j < i)
  BY <1>2, <1>3, Zenon
<1>. QED
  BY <1>4

(* The key is used again from its start.                                   *)
LEMMA KeyAtType ==
    ASSUME NEW i \in Nat \ {0}
    PROVE  KeyAt(i) \in Chars
<1>1. Key \in Seq(Chars) /\ Len(Key) \in Nat \ {0}
  BY KeyAssumption
<1>2. \A a \in Nat, b \in Nat \ {0} : a % b \in 0..(b - 1)
  OBVIOUS
<1>3. (i - 1) % Len(Key) \in 0..(Len(Key) - 1)
  <2>1. i - 1 \in Nat
    OBVIOUS
  <2> DEFINE L == Len(Key)
  <2> HIDE DEF L
  <2>2. L \in Nat \ {0}
    BY <1>1 DEF L
  <2>3. (i - 1) % L \in 0..(L - 1)
    BY <1>2, <2>1, <2>2
  <2>. QED
    BY <2>3 DEF L
<1>4. ((i - 1) % Len(Key)) + 1 \in 1..Len(Key)
  BY <1>1, <1>3
<1>. QED
  BY <1>1, <1>4 DEF KeyAt

(* What strlen makes of a buffer is the part before its first 0.           *)
LEMMA Cut ==
    ASSUME NEW buf \in Seq(Nat)
    PROVE  \E n \in 0..Len(buf) :
              /\ CString(buf) = SubSeq(buf, 1, n)
              /\ \A i \in 1..n : buf[i] # 0
              /\ n < Len(buf) => buf[n + 1] = 0
<1> DEFINE ends == {i \in 1..Len(buf) : buf[i] = 0}
<1>1. Len(buf) \in Nat
  OBVIOUS
<1>2. CASE ends = {}
  <2>1. CString(buf) = SubSeq(buf, 1, Len(buf))
    BY <1>2, SubSeqFull DEF CString
  <2>2. \A i \in 1..Len(buf) : buf[i] # 0
    BY <1>2
  <2>. QED
    BY <1>1, <2>1, <2>2
<1>3. CASE ends # {}
  <2> DEFINE e == CHOOSE i \in ends : \A j \in ends : i <= j
  <2>1. ends \in SUBSET Nat
    BY <1>1
  <2>2. e \in ends /\ \A j \in ends : e <= j
    <3>1. \E i \in ends : \A j \in ends : i <= j
      BY <1>3, <2>1, LeastExists
    <3>. QED
      BY <3>1
  <2>3. CString(buf) = SubSeq(buf, 1, e - 1)
    BY <1>3 DEF CString
  <2> HIDE DEF e
  <2>4. e \in 1..Len(buf) /\ buf[e] = 0
    BY <2>2
  <2>5. \A i \in 1..(e - 1) : buf[i] # 0
    <3> SUFFICES ASSUME NEW i \in 1..(e - 1), buf[i] = 0 PROVE FALSE
      OBVIOUS
    <3>1. i \in 1..Len(buf) /\ ~(e <= i)
      BY <1>1, <2>4
    <3>. QED
      BY <2>2, <3>1
  <2>6. e - 1 \in 0..Len(buf) /\ (e - 1) + 1 = e
    BY <1>1, <2>4
  <2>. QED
    BY <2>3, <2>4, <2>5, <2>6
<1>. QED
  BY <1>2, <1>3

(* Encrypting a sequence of numbers character by character.                *)
LEMMA EncryptType ==
    ASSUME NEW p \in Seq(Chars)
    PROVE  /\ cred_encrypt(p) \in Seq(Nat) /\ Len(cred_encrypt(p)) = Len(p)
           /\ \A i \in 1..Len(p) : cred_encrypt(p)[i] = Xor(p[i], KeyAt(i))
<1>1. Len(p) \in Nat /\ \A i \in 1..Len(p) : p[i] \in Chars
  OBVIOUS
<1>2. \A i \in 1..Len(p) : Xor(p[i], KeyAt(i)) \in Nat
  <2> SUFFICES ASSUME NEW i \in 1..Len(p) PROVE Xor(p[i], KeyAt(i)) \in Nat
    OBVIOUS
  <2>1. i \in Nat \ {0} /\ p[i] \in Chars
    BY <1>1
  <2>. QED
    BY <2>1, KeyAtType, KeyAssumption
<1>3. cred_encrypt(p) \in [1..Len(p) -> Nat]
  BY <1>2 DEF cred_encrypt
<1>. QED
  BY <1>1, <1>3 DEF cred_encrypt

(* What is read back is the password up to its first character that is the *)
(* key's at its place: such a character becomes the 0 that ends a string.  *)
THEOREM ReadBackUpToKey ==
    ASSUME NEW p \in Passwords
    PROVE  /\ Stored(p) \in Seq(Nat)
           /\ \E n \in 0..Len(p) :
                 /\ Reloaded(Stored(p)) = SubSeq(p, 1, n)
                 /\ \A i \in 1..n : p[i] # KeyAt(i)
                 /\ n < Len(p) => p[n + 1] = KeyAt(n + 1)
<1> DEFINE c == cred_encrypt(p)
<1>0. p \in Seq(Chars) /\ Len(p) \in Nat
  BY DEF Passwords
<1>1. c \in Seq(Nat) /\ Len(c) = Len(p) /\ \A i \in 1..Len(p) : c[i] = Xor(p[i], KeyAt(i))
  BY <1>0, EncryptType
<1> HIDE DEF c
<1>2. PICK n \in 0..Len(p) : /\ CString(c) = SubSeq(c, 1, n)
                             /\ \A i \in 1..n : c[i] # 0
                             /\ n < Len(p) => c[n + 1] = 0
  BY <1>1, Cut
<1>3. ASSUME NEW i \in 1..Len(p)
      PROVE  /\ p[i] \in Chars /\ KeyAt(i) \in Chars
             /\ c[i] = 0 <=> p[i] = KeyAt(i)
             /\ c[i] # 0 => Xor(c[i], KeyAt(i)) = p[i]
  <2>1. p[i] \in Chars /\ KeyAt(i) \in Chars
    BY <1>0, KeyAtType
  <2>2. \A a, b \in Chars : (Xor(a, b) = 0 <=> a = b) /\ (Xor(a, b) # 0 => Xor(Xor(a, b), b) = a)
    BY KeyAssumption, Zenon
  <2>3. /\ Xor(p[i], KeyAt(i)) = 0 <=> p[i] = KeyAt(i)
        /\ Xor(p[i], KeyAt(i)) # 0 => Xor(Xor(p[i], KeyAt(i)), KeyAt(i)) = p[i]
    BY <2>1, <2>2, Zenon
  <2>4. c[i] = Xor(p[i], KeyAt(i))
    BY <1>1
  <2>. QED
    BY <2>1, <2>3, <2>4
<1> DEFINE s == SubSeq(c, 1, n)
<1>4. s \in Seq(Nat) /\ Len(s) = n /\ \A i \in 1..n : s[i] = c[i]
  <2>1. \A i \in 1..n : c[i] \in Nat
    BY <1>0, <1>1
  <2>2. n \in Nat /\ 1 \in Int
    BY <1>0
  <2>. QED
    BY <2>1, <2>2, SubSeqProperties
<1>5. Stored(p) = s
  BY <1>2 DEF Stored, c
<1> HIDE DEF s
<1> DEFINE d == cred_encrypt(s)
<1>6. d = SubSeq(p, 1, n)
  <2>1. d = [i \in 1..n |-> Xor(s[i], KeyAt(i))]
    BY <1>4 DEF cred_encrypt
  <2>2. \A i \in 1..n : Xor(s[i], KeyAt(i)) = p[i]
    BY <1>0, <1>2, <1>3, <1>4
  <2>3. d = [i \in 1..n |-> p[i]]
    BY <2>1, <2>2
  <2>4. d \in Seq(Chars) /\ Len(d) = n /\ \A i \in 1..n : d[i] = p[i]
    <3>1. \A i \in 1..n : p[i] \in Chars
      BY <1>0
    <3>2. d \in [1..n -> Chars] /\ n \in Nat
      BY <1>0, <2>3, <3>1
    <3>. QED
      BY <2>3, <3>2
  <2>5. SubSeq(p, 1, n) \in Seq(Chars) /\ Len(SubSeq(p, 1, n)) = n
        /\ \A i \in 1..n : SubSeq(p, 1, n)[i] = p[i]
    <3>1. \A i \in 1..n : p[i] \in Chars
      BY <1>0
    <3>2. n \in Nat /\ 1 \in Int
      BY <1>0
    <3>. QED
      BY <3>1, <3>2, SubSeqProperties
  <2> HIDE DEF d
  <2>. QED
    BY <2>4, <2>5, SeqEqual
<1> HIDE DEF d
<1>7. CString(d) = d
  <2>1. Len(d) = n /\ \A i \in 1..n : d[i] = p[i]
    <3>1. \A i \in 1..n : p[i] \in Chars
      BY <1>0
    <3>2. n \in Nat /\ 1 \in Int
      BY <1>0
    <3>. QED
      BY <1>6, <3>1, <3>2, SubSeqProperties
  <2>2. \A i \in 1..Len(d) : d[i] # 0
    BY <1>0, <1>3, <2>1, KeyAssumption
  <2>3. {i \in 1..Len(d) : d[i] = 0} = {}
    BY <2>2
  <2>. QED
    BY <2>3 DEF CString
<1>8. Reloaded(Stored(p)) = SubSeq(p, 1, n)
  BY <1>5, <1>6, <1>7 DEF Reloaded, d
<1>9. \A i \in 1..n : p[i] # KeyAt(i)
  BY <1>0, <1>2, <1>3
<1>10. n < Len(p) => p[n + 1] = KeyAt(n + 1)
  <2>1. n < Len(p) => n + 1 \in 1..Len(p)
    BY <1>0
  <2>. QED
    BY <1>2, <1>3, <2>1
<1>. QED
  BY <1>4, <1>5, <1>8, <1>9, <1>10

(* A password none of whose characters is the key's is read back as it is. *)
THEOREM ReadBack ==
    ASSUME NEW p \in Passwords, ~HasKeyChar(p)
    PROVE  Reloaded(Stored(p)) = p
<1>1. PICK n \in 0..Len(p) : Reloaded(Stored(p)) = SubSeq(p, 1, n)
                             /\ (n < Len(p) => p[n + 1] = KeyAt(n + 1))
  BY ReadBackUpToKey
<1>2. p \in Seq(Chars) /\ Len(p) \in Nat
  BY DEF Passwords
<1>3. n = Len(p)
  <2> SUFFICES ASSUME n < Len(p) PROVE FALSE
    BY <1>2
  <2>1. n + 1 \in 1..Len(p)
    BY <1>2
  <2>. QED
    BY <1>1, <2>1 DEF HasKeyChar
<1>. QED
  BY <1>1, <1>2, <1>3, SubSeqFull
=============================================================================
