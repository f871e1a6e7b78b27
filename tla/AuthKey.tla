------------------------------- MODULE AuthKey -------------------------------
(***************************************************************************)
(* The keys of the drone's authentication (relay/auth.py, of which         *)
(* client/auth.py is a copy) and the exchange of them (_authenticate of    *)
(* relay/relay.py).  The drone is taken to use the same two functions, for *)
(* its own side.                                                           *)
(*                                                                         *)
(* A word is the set of its bits that are 1, in the width of the code.     *)
(* The version of the protocol is always 0.                                *)
(***************************************************************************)
EXTENDS Integers

CONSTANTS Words,    \* the random 32-bit words there are
          Users,    \* the user ids, of 30 bits
          KeyTable  \* keytable.bin: a word for each index of 9 bits

Bits(n) == 0 .. n - 1

ASSUME WordAssumption == Words \subseteq SUBSET Bits(32) /\ Users \subseteq SUBSET Bits(30)
ASSUME TableAssumption == KeyTable \in [SUBSET Bits(9) -> SUBSET Bits(32)]

-----------------------------------------------------------------------------
(* Words *)

Xor(a, b) == (a \ b) \cup (b \ a)

\* (w >> low) & (2^n - 1)
Field(w, low, n) == {i \in Bits(n) : low + i \in w}

\* (w & ~mask) | ((f & (2^n - 1)) << low), for the mask of those n bits.
Place(w, low, n, f) ==
    {i \in w : i < low \/ i >= low + n} \cup {i \in low .. low + n - 1 : i - low \in f}

\* A field of two bits as a number.
Number(f) == (IF 0 \in f THEN 1 ELSE 0) + (IF 1 \in f THEN 2 ELSE 0)

-----------------------------------------------------------------------------
(* LogCheck: key0 and key1 of 64 bits, app and dev of 32 *)

LogCheck == [key0 : SUBSET Bits(64), key1 : SUBSET Bits(64),
             app : SUBSET Bits(32), dev : SUBSET Bits(32)]

\* get_rdm
Rdm1(ck) == Field(ck.key0, 32, 32)
Rdm2(ck) == Field(ck.key1, 0, 32)
Rdm3(ck) == Field(ck.key1, 32, 32)

\* Four calls of _get_rmad, each different from the one before.
Randoms == {r \in [0 .. 3 -> Words] : /\ r[0] # {}
                                      /\ \A i \in 1 .. 3 : r[i] # r[i - 1]}

\* set_rdm of all four, and version 0.
NewKeys(ck, r) == [ck EXCEPT !.key0 = Place(r[0], 32, 32, r[1]),
                             !.key1 = Place(Place(r[2], 32, 32, r[3]), 43, 8, {})]

TableWord(ck) == KeyTable[Field(Xor(Field(ck.key0, 0, 12), Field(ck.key0, 14, 12)), 0, 9)]

\* The user id, in three parts of ten bits, each hidden behind a word of the table
\* and a part of the key.
Hide(part, mask, word) == Xor(Xor(part, mask), word)

WriteUser(ck, user, word) ==
    [ck EXCEPT !.key0 = Place(@, 34, 10, Hide(Field(user, 20, 10), Field(ck.key0, 47, 8), word)),
               !.key1 = Place(Place(@, 5, 10, Hide(Field(user, 10, 10), Field(ck.key1, 17, 8), word)),
                              33, 10, Hide(Field(user, 0, 10), Field(ck.key1, 25, 8), word))]

ReadUser(ck, word) ==
    Place(Place(Field(Hide(Field(ck.key1, 33, 10), Field(ck.key1, 25, 8), word), 0, 10),
                10, 10, Hide(Field(ck.key1, 5, 10), Field(ck.key1, 17, 8), word)),
          20, 10, Hide(Field(ck.key0, 34, 10), Field(ck.key0, 47, 8), word))

\* The three parts of the key that hide them are hidden themselves, behind the
\* same word shifted by what other bits of the key say.
Shifted(word, old, by) == Xor(Field(word, Number(by), 8), old)

\* A bug: the first shift is read from the bits it changes.
ScrambleOverlaps(ck, word) ==
    [ck EXCEPT !.key0 = Place(@, 47, 8, Shifted(word, Field(@, 47, 8), Field(@, 47, 2))),
               !.key1 = Place(Place(@, 17, 8,
                                    Shifted(word, Field(@, 17, 8), Field(ck.key0, 26, 2))),
                              25, 8, Shifted(word, Field(@, 25, 8), Field(ck.key0, 28, 2)))]

Scramble(ck, word) ==
    [ck EXCEPT !.key0 = Place(@, 47, 8, Shifted(word, Field(@, 47, 8), Field(@, 12, 2))),
               !.key1 = Place(Place(@, 17, 8,
                                    Shifted(word, Field(@, 17, 8), Field(ck.key0, 26, 2))),
                              25, 8, Shifted(word, Field(@, 25, 8), Field(ck.key0, 28, 2)))]

MixLow(ck, word) == [ck EXCEPT !.key0 = Place(@, 0, 12, Xor(@, word))]

\* The eight bits that stand where the version was.
CheckSum(ck) == Xor(Field(ck.key0, 14, 12), Field(ck.key0, 30, 4))

\* The end of log_encode_key for each side, and what undoes it: the words app and
\* dev are hidden behind parts of the key, the low bits of the key behind one of
\* them.
Seal(ck, isApp) ==
    IF isApp THEN [MixLow(ck, ck.app) EXCEPT !.app = Xor(@, Rdm1(ck)), !.dev = Xor(@, Rdm3(ck))]
             ELSE [MixLow(ck, ck.dev) EXCEPT !.app = Xor(@, Rdm3(ck)), !.dev = Xor(@, Rdm2(ck))]

Unseal(ck, isApp) ==
    LET open == IF isApp THEN [ck EXCEPT !.app = Xor(@, Rdm3(ck)), !.dev = Xor(@, Rdm2(ck))]
                         ELSE [ck EXCEPT !.app = Xor(@, Rdm1(ck)), !.dev = Xor(@, Rdm3(ck))]
    IN  MixLow(open, IF isApp THEN open.dev ELSE open.app)

-----------------------------------------------------------------------------
\* log_encode_key
Encode(ck, isApp, user, r) ==
    LET new    == NewKeys(ck, r)
        word   == TableWord(new)
        sealed == Seal(Scramble(WriteUser(new, user, word), word), isApp)
    IN  [sealed EXCEPT !.key1 = Place(@, 43, 8, CheckSum(sealed))]

\* log_decode_key: the key, and the user id if the version comes out as 0.
Decode(ck, isApp) ==
    LET version == Xor(Field(ck.key1, 43, 8), CheckSum(ck))
        open    == Unseal([ck EXCEPT !.key1 = Place(@, 43, 8, version)], isApp)
        word    == TableWord(open)
        key     == Scramble(open, word)
    IN  IF Field(open.key1, 43, 8) = {} THEN [ok |-> TRUE, ck |-> key, user |-> ReadUser(key, word)]
                                        ELSE [ok |-> FALSE, ck |-> open, user |-> {}]

-----------------------------------------------------------------------------
(* The exchange *)

VARIABLES pc,     \* what comes next: "challenge", "decode", "answer", "verify";
                  \* or "failed", an exception of _authenticate
          ck,     \* the LogCheck that is sent, and that _authenticate works on
          user,   \* the user id the relay found
          drone,  \* what the drone put into its challenge
          fresh,  \* the word the relay put into its answer
          verdict \* what the drone makes of the answer

authVars == <<pc, ck, user, drone, fresh, verdict>>

NoVerdict == [ok |-> FALSE, user |-> {}, app |-> {}, dev |-> {}]

Zero == [key0 |-> {}, key1 |-> {}, app |-> {}, dev |-> {}]

AuthInit == /\ pc = "challenge"
            /\ ck = Zero
            /\ user = {}
            /\ drone = [user |-> {}, app |-> {}, dev |-> {}]
            /\ fresh = {}
            /\ verdict = NoVerdict

\* The drone sends a challenge on a new connection.
Challenge == /\ pc \in {"challenge", "failed"}
             /\ drone' \in [user : Users, app : Words, dev : Words]
             /\ \E r \in Randoms :
                  ck' = Encode([Zero EXCEPT !.app = drone'.app, !.dev = drone'.dev],
                               FALSE, drone'.user, r)
             /\ pc' = "decode"
             /\ user' = {}
             /\ verdict' = NoVerdict
             /\ UNCHANGED fresh

DecodeChallenge == /\ pc = "decode"
                   /\ LET d == Decode(ck, TRUE)
                      IN  /\ ck' = d.ck
                          /\ user' = d.user
                          /\ pc' = IF d.ok THEN "answer" ELSE "failed"
                   /\ UNCHANGED <<drone, fresh, verdict>>

\* A bug: the answer repeats the word of the challenge.
AnswerRepeats == /\ pc = "answer"
                 /\ fresh' = ck.app
                 /\ \E r \in Randoms : ck' = Encode(ck, TRUE, user, r)
                 /\ pc' = "verify"
                 /\ UNCHANGED <<user, drone, verdict>>

\* A new word for the application, the drone's is kept.
Answer == /\ pc = "answer"
          /\ fresh' \in Words \ {ck.app}
          /\ \E r \in Randoms : ck' = Encode([ck EXCEPT !.app = fresh'], TRUE, user, r)
          /\ pc' = "verify"
          /\ UNCHANGED <<user, drone, verdict>>

\* The drone decodes the answer, and with that the keys are done with.
Verify == /\ pc = "verify"
          /\ LET d == Decode(ck, FALSE)
             IN  verdict' = [ok |-> d.ok, user |-> d.user, app |-> d.ck.app, dev |-> d.ck.dev]
          /\ pc' = "challenge"
          /\ ck' = Zero
          /\ user' = {}
          /\ fresh' = {}
          /\ UNCHANGED drone

AuthNext == Challenge \/ DecodeChallenge \/ Answer \/ Verify

AuthSpec == AuthInit /\ [][AuthNext]_authVars

-----------------------------------------------------------------------------
(* Properties *)

\* The relay reads from a challenge what the drone put into it, for any keys: no
\* step of log_decode_key reads a field that the encoding has changed by then, or
\* changes one it still reads.
ChallengeRead ==
    /\ pc # "failed"
    /\ pc = "answer" => /\ user = drone.user
                        /\ ck.app = drone.app
                        /\ ck.dev = drone.dev

\* The drone finds in the answer the user id it had sent and its own word,
\* but a new one of the application (docs/protocol.md:112 "randomize CkApp, keep
\* CkDev").
AnswerAccepted ==
    [][Verify => /\ verdict'.ok
                 /\ verdict'.user = drone.user
                 /\ verdict'.dev = drone.dev
                 /\ verdict'.app = fresh
                 /\ fresh # drone.app]_authVars
=============================================================================
