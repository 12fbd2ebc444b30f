------------------------------ MODULE Credentials ------------------------------
(***************************************************************************)
(* How core/storage.c writes a password to user_credentials and reads it   *)
(* back: every character is combined with the key, the result is a C       *)
(* string, and its bytes are written in hexadecimal.  Hexadecimal digits   *)
(* are read back as they were written, so that step is left out; the end   *)
(* of a C string is not.                                                   *)
(*                                                                         *)
(* A password is a sequence of characters, which are numbers but 0.        *)
(***************************************************************************)
EXTENDS Integers, Sequences

CONSTANTS
    Chars,          \* characters of a password
    Key,            \* CRED_KEY
    Xor(_, _)       \* ^ of the characters

Passwords == {p \in Seq(Chars) : p # <<>>}

ASSUME KeyAssumption ==
    /\ Chars \subseteq Nat \ {0}
    /\ Key \in Seq(Chars) /\ Key # <<>>
    /\ \A a, b \in Chars :
          /\ Xor(a, b) \in Nat
          /\ Xor(a, b) = 0 <=> a = b
          /\ Xor(a, b) # 0 => Xor(Xor(a, b), b) = a

KeyAt(i) == Key[((i - 1) % Len(Key)) + 1]

(* What is seen of a buffer through strlen: it ends at the first 0.        *)
CString(buf) ==
    LET ends == {i \in 1..Len(buf) : buf[i] = 0}
    IN  IF ends = {} THEN buf
        ELSE SubSeq(buf, 1, (CHOOSE i \in ends : \A j \in ends : i <= j) - 1)

(* cred_encrypt, which is cred_decrypt too                                 *)
cred_encrypt(plain) == [i \in 1..Len(plain) |-> Xor(plain[i], KeyAt(i))]

Stored(p) == CString(cred_encrypt(p))       \* StorageSaveCredential

Reloaded(row) == CString(cred_encrypt(row)) \* StorageLoadCredential

(* A character equal to the one of the key at its place becomes a 0.       *)
HasKeyChar(p) == \E i \in 1..Len(p) : p[i] = KeyAt(i)
=============================================================================
