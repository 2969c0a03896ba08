---------------------------------- MODULE SRP6 ----------------------------------
(*************************************************************************)
(* The server's side of SRP6: the verifier of a password, the exchange   *)
(* of ephemeral keys, and the check of the client's answer. The client   *)
(* is not part of the program; it follows the protocol, with a password  *)
(* of its own.                                                           *)
(*                                                                       *)
(* A digest is the tuple of what was hashed, where it is only compared;  *)
(* the digests that are used as numbers are given by constants.          *)
(*************************************************************************)
EXTENDS Integers, Sequences, SequencesExt

CONSTANTS
    N, g,               \* a prime, and a generator of the integers mod N
    Secrets,            \* what b and the client's a are chosen from
    PasswordHash,       \* H(s || H(u || ':' || p)), by password
    Scramblers,         \* the values of u
    KeyBase, KeyLength  \* ToByteArray: digits of a key, and their number, which is even

ASSUME SRP6Assumption == /\ N \in Nat \ {0, 1} /\ g \in 1 .. N - 1 /\ KeyBase ^ KeyLength >= N
                         /\ Secrets \cup Scramblers \subseteq Nat

VARIABLES srp,          \* "new", "challenge", "answer", "key" or "refused"
          v,            \* the verifier, and
          password,     \* the password it was made from
          secretB, pubB,\* _b and B
          entered,      \* the password of the client,
          secretA, pubA,\* its a and A
          u, clientKey, clientM,
          sessionKey
srpVars == <<srp, v, password, secretB, pubB, entered, secretA, pubA, u, clientKey, clientM,
             sessionKey>>

Passwords == DOMAIN PasswordHash
SRP6TypeOK == /\ srp \in {"new", "challenge", "answer", "key", "refused"}
              /\ {v, pubA, pubB} \subseteq 0 .. N - 1
              /\ {password, entered} \subseteq Passwords

-------------------------------------------------------------------------------
ModExp(base, exponent) ==
    LET Power[e \in 0 .. exponent] ==
            IF e = 0 THEN 1
            ELSE (((Power[e \div 2] ^ 2) % N) * (IF e % 2 = 1 THEN base % N ELSE 1)) % N
    IN  Power[exponent]

CalculateVerifier(p) == ModExp(g, PasswordHash[p])

\* _B: B = 3v + g^b
PublicKey(b, verifier) == (ModExp(g, b) + 3 * verifier) % N

ToByteArray(n) == [i \in 1 .. KeyLength |-> (n \div KeyBase ^ (i - 1)) % KeyBase]

\* The bytes at even and at odd positions, from the first byte on that is not zero; from
\* the one after it, if its position is odd.
SHA1Interleave(S) ==
    LET Half(odd) == [i \in 1 .. KeyLength \div 2 |-> S[2 * i - 1 + odd]]
        zeros == {p \in 0 .. KeyLength : \A i \in 1 .. p : S[i] = 0}
        p == Max(zeros)
        skip == (p + (p % 2)) \div 2
        From(half) == SubSeq(half, skip + 1, KeyLength \div 2)
    IN  <<From(Half(0)), From(Half(1))>>

SRP6Init == /\ srp = "new" /\ password \in Passwords /\ v = CalculateVerifier(password)
            /\ secretB = 0 /\ pubB = 0 /\ entered \in Passwords /\ secretA = 0 /\ pubA = 0
            /\ u = 0 /\ clientKey = <<>> /\ clientM = <<>> /\ sessionKey = <<>>

\* The constructor of SRP6.
Challenge(b) == /\ srp = "new"
                /\ srp' = "challenge" /\ secretB' = b /\ pubB' = PublicKey(b, v)
                /\ UNCHANGED <<v, password, entered, secretA, pubA, u, clientKey, clientM, sessionKey>>

\* The client: S = (B - 3 g^x) ^ (a + u x)
ClientAnswers(a, scrambler) ==
    LET x == PasswordHash[entered]
        S == ModExp((pubB - 3 * ModExp(g, x)) % N, a + scrambler * x)
    IN  /\ srp = "challenge"
        /\ srp' = "answer" /\ secretA' = a /\ pubA' = ModExp(g, a) /\ u' = scrambler
        /\ clientKey' = SHA1Interleave(ToByteArray(S))
        /\ clientM' = <<pubA', pubB, clientKey'>>
        /\ UNCHANGED <<v, password, secretB, pubB, entered, sessionKey>>

\* Once for each object: a second call is stopped by its assertion.
VerifyChallengeResponse ==
    LET S == ModExp(pubA * ModExp(v, u), secretB)
        K == SHA1Interleave(ToByteArray(S))
    IN  /\ srp = "answer"
        /\ IF pubA % N # 0 /\ <<pubA, pubB, K>> = clientM
           THEN srp' = "key" /\ sessionKey' = K
           ELSE srp' = "refused" /\ UNCHANGED sessionKey
        /\ UNCHANGED <<v, password, secretB, pubB, entered, secretA, pubA, u, clientKey, clientM>>

SRP6Next == \/ \E b \in Secrets : Challenge(b)
            \/ \E a \in Secrets, scrambler \in Scramblers : ClientAnswers(a, scrambler)
            \/ VerifyChallengeResponse

-------------------------------------------------------------------------------
\* A client with the password of the verifier is accepted, whatever numbers were drawn;
\* and whoever is accepted has the key of the server.
KeysAgree == /\ srp = "refused" => PasswordHash[entered] # PasswordHash[password]
             /\ srp = "key" => sessionKey = clientKey
===============================================================================
