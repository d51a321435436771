----------------------------- MODULE Validation -----------------------------
(***************************************************************************)
(* The checks on request bodies (src/src/routes/mod.rs) that decide which  *)
(* requests reach a handler.  They measure str::len, which is bytes of     *)
(* UTF-8, so a text is a sequence of characters of different width: the two *)
(* that matter to an address, one more of one byte, and a wide one.  Slices *)
(* are cut at '@' and '.' only, which are characters of their own, so that *)
(* positions may be counted in characters.                                 *)
(*                                                                         *)
(* Every check looks at one field and stops at the first that fails; the   *)
(* state is a field being filled in, so that TLC meets every short text.   *)
(***************************************************************************)
EXTENDS Integers, SequencesExt

CONSTANTS
    AtSign, Dot, Letter, Wide,    \* characters
    WIDE_BYTES,                   \* length of Wide in UTF-8, two to four
    MAX_EMAIL,                    \* 254 bytes in the code
    MAX_LOCAL,                    \* 64
    MIN_PASSWORD, MAX_PASSWORD,   \* 8 and 128
    MaxLen                        \* bounds the texts tried, in characters

ASSUME LimitAssumption ==
    /\ {WIDE_BYTES, MAX_EMAIL, MAX_LOCAL, MIN_PASSWORD, MAX_PASSWORD} \subseteq Nat \ {0}
    /\ MIN_PASSWORD <= MAX_PASSWORD
    /\ 5 <= MAX_EMAIL    \* the length of the shortest address, and of GoodEmail below

ASSUME CharAssumption ==
    AtSign \notin {Dot, Letter, Wide} /\ Dot \notin {Letter, Wide} /\ Letter # Wide

Char == {AtSign, Dot, Letter, Wide}

(* str::len *)
Bytes(text) == Len(text) + (WIDE_BYTES - 1) * Cardinality({i \in DOMAIN text : text[i] = Wide})

(* str::find and str::rfind: 0 stands for None. *)
Find(text, c) == SelectInSeq(text, LAMBDA x : x = c)
RFind(text, c) == SelectLastInSeq(text, LAMBDA x : x = c)

Before(text, i) == SubSeq(text, 1, i - 1)
After(text, i) == SubSeq(text, i + 1, Len(text))

-----------------------------------------------------------------------------
(* Seeded fault: find in place of rfind. *)
DomainOkByFirstDot(domain) ==
    /\ ~ IsPrefix(<<Dot>>, domain)
    /\ Find(domain, Dot) # 0
    /\ After(domain, Find(domain, Dot)) # <<>>

DomainOk(domain) ==
    /\ ~ IsPrefix(<<Dot>>, domain)
    /\ RFind(domain, Dot) # 0
    /\ After(domain, RFind(domain, Dot)) # <<>>

ValidateEmail(email) ==
    LET at == Find(email, AtSign)
        local == Before(email, at)
        domain == After(email, at)
    IN /\ Bytes(email) <= MAX_EMAIL
       /\ at # 0
       /\ ~ Contains(domain, AtSign)
       /\ local # <<>>
       /\ Bytes(local) <= MAX_LOCAL
       /\ DomainOk(domain)

ValidatePassword(password) == Bytes(password) \in MIN_PASSWORD .. MAX_PASSWORD

(* Seeded fault: the bound is taken as exclusive. *)
AcceptsShorter(password) == password # <<>> /\ Bytes(password) < MAX_PASSWORD

(* A password that is only to be verified, by login and change_password. *)
AcceptsToVerify(password) == password # <<>> /\ Bytes(password) <= MAX_PASSWORD

-----------------------------------------------------------------------------
(* The bodies of the requests. *)
Register(email, password) == ValidateEmail(email) /\ ValidatePassword(password)
Login(email, password) == ValidateEmail(email) /\ AcceptsToVerify(password)
ChangePassword(current, new) == AcceptsToVerify(current) /\ ValidatePassword(new)
ResetRequest(email) == ValidateEmail(email)
ResetConfirm(token, new) == token # <<>> /\ ValidatePassword(new)

-----------------------------------------------------------------------------
VARIABLE text

Init == text = <<>>

Type(c) == Len(text) < MaxLen /\ text' = Append(text, c)

Clear == text # <<>> /\ text' = <<>>

Next == (\E c \in Char : Type(c)) \/ Clear

Spec == Init /\ [][Next]_text

-----------------------------------------------------------------------------
(* What an address is, said without positions: the comments of             *)
(* validate_email ask for one '@', and a dot in the domain that is neither *)
(* its first nor its last character.                                       *)
IsAddress(email) ==
    /\ Bytes(email) <= MAX_EMAIL
    /\ \E i \in DOMAIN email :
          LET domain == SubSeq(email, i + 1, Len(email))
          IN /\ \A j \in DOMAIN email : email[j] = AtSign <=> j = i
             /\ Bytes(SubSeq(email, 1, i - 1)) \in 1 .. MAX_LOCAL
             /\ Dot \in Range(domain)
             /\ Dot \notin {Head(domain), Last(domain)}

(* Good values for the fields that a property is not about. *)
GoodPassword == [i \in 1 .. MIN_PASSWORD |-> Letter]
GoodEmail == <<Letter, AtSign, Letter, Dot, Letter>>
Token == <<Letter>>

(* validate_email, with its finds and slices, accepts addresses and nothing *)
(* else, whatever stands at the edges, and in each of the three requests:   *)
(* what can be registered can log in and be reset.                         *)
EmailIsAddress ==
    /\ Register(text, GoodPassword) <=> IsAddress(text)
    /\ Login(text, GoodPassword) <=> IsAddress(text)
    /\ ResetRequest(text) <=> IsAddress(text)

(* The three requests that set a password and the two that ask for one have *)
(* limits of their own: nobody may be let in with a password that keeps     *)
(* them out afterwards, or that they cannot change.                        *)
SetPasswordLogsIn ==
    LET sets == \/ Register(GoodEmail, text)
                \/ ChangePassword(GoodPassword, text)
                \/ ResetConfirm(Token, text)
    IN sets => Login(GoodEmail, text) /\ ChangePassword(text, GoodPassword)
=============================================================================
