------------------------------ MODULE NoiseXX ------------------------------
(***************************************************************************)
(* The Noise XX handshake of crypto/noise.mjs, symbolically.               *)
(*                                                                         *)
(*   -> e        <- e, ee, s, es        -> s, se                           *)
(*                                                                         *)
(* A key pair and its public half are the set of one name; what two keys   *)
(* agree on is the set of both names, so both ends compute the same one.   *)
(* A hash or a derived key is the sequence of what was mixed into it: two  *)
(* are equal exactly when the same things were mixed in the same order.    *)
(***************************************************************************)
EXTENDS Naturals, Sequences

NoKey == {}
NoPayload == {}

\* Diffie-Hellman, from either side.
Dh(private, public) == private \cup public

-----------------------------------------------------------------------------
(* SymmetricState.  The cipher key is derived from the chaining key and     *)
(* the latest input, which is to say from ck as it is now; no key yet is    *)
(* ck = <<>>.                                                               *)

SymmetricState(prologue) == [h |-> <<prologue>>, ck |-> <<>>, n |-> 0]

Sha256(hash, data) == Append(hash, data)
Hkdf2(chainingKey, ikm) == Append(chainingKey, ikm)

MixHash(sym, data) == [sym EXCEPT !.h = Sha256(@, data)]

MixKey(sym, ikm) == [sym EXCEPT !.ck = Hkdf2(@, ikm), !.n = 0]

Keyed(sym) == sym.ck # <<>>

\* What a party that encrypts in this state puts on the wire.
Box(sym, plain) == [key |-> sym.ck, n |-> sym.n, ad |-> sym.h, plain |-> plain]

AfterBox(sym, plain) ==
    [MixHash(sym, plain) EXCEPT !.n = IF Keyed(sym) THEN @ + 1 ELSE @]

\* The tag check: same key, same nonce, same transcript so far.
Authentic(sym, box) == box = Box(sym, box.plain)

Opens(sym, box) == Keyed(sym) => Authentic(sym, box)

KeyHalf(sym, half) == [half |-> half, of |-> sym.ck]

-----------------------------------------------------------------------------
(* HandshakeState.  The ephemeral pair is made when its message is written.  *)

HandshakeState(initiator, static, prologue) ==
    [initiator |-> initiator, s |-> static, e |-> NoKey, re |-> NoKey, rs |-> NoKey,
     sym |-> SymmetricState(prologue), step |-> 0, done |-> FALSE]

\* The key agreement of message 2 as each side computes it.
MixEe(hs, sym) == MixKey(sym, Dh(hs.e, hs.re))

\* -> e
WriteFirst(hs, e) ==
    LET sent == MixHash(hs.sym, e)
    IN [hs  |-> [hs EXCEPT !.e = e, !.sym = AfterBox(sent, NoPayload), !.step = 1],
        msg |-> [e |-> e, boxes |-> <<Box(sent, NoPayload)>>]]

\* <- e, ee, s, es
WriteSecond(hs, e) ==
    LET mine   == [hs EXCEPT !.e = e]
        agreed == MixEe(mine, MixHash(hs.sym, e))
        named  == MixKey(AfterBox(agreed, hs.s), Dh(hs.s, hs.re))
    IN [hs  |-> [mine EXCEPT !.sym = AfterBox(named, NoPayload), !.step = 2],
        msg |-> [e |-> e,
                 boxes |-> <<Box(agreed, hs.s), Box(named, NoPayload)>>]]

\* -> s, se
WriteThird(hs) ==
    LET named == MixKey(AfterBox(hs.sym, hs.s), Dh(hs.s, hs.re))
    IN [hs  |-> [hs EXCEPT !.sym = AfterBox(named, NoPayload), !.step = 3, !.done = TRUE],
        msg |-> [e |-> NoKey,
                 boxes |-> <<Box(hs.sym, hs.s), Box(named, NoPayload)>>]]

\* Reading answers [ok, hs]: ok is FALSE where the code throws.
ReadFirst(hs, msg) ==
    LET seen == MixHash(hs.sym, msg.e)
    IN [ok |-> Opens(seen, msg.boxes[1]),
        hs |-> [hs EXCEPT !.re = msg.e, !.sym = AfterBox(seen, msg.boxes[1].plain), !.step = 1]]

ReadSecond(hs, msg) ==
    LET known  == [hs EXCEPT !.re = msg.e]
        agreed == MixEe(known, MixHash(hs.sym, msg.e))
        rs     == msg.boxes[1].plain
        named  == MixKey(AfterBox(agreed, rs), Dh(hs.e, rs))
    IN [ok |-> Opens(agreed, msg.boxes[1]) /\ Opens(named, msg.boxes[2]),
        hs |-> [known EXCEPT !.rs = rs, !.sym = AfterBox(named, msg.boxes[2].plain), !.step = 2]]

ReadThird(hs, msg) ==
    LET rs    == msg.boxes[1].plain
        named == MixKey(AfterBox(hs.sym, rs), Dh(hs.e, rs))
    IN [ok |-> Opens(hs.sym, msg.boxes[1]) /\ Opens(named, msg.boxes[2]),
        hs |-> [hs EXCEPT !.rs = rs, !.sym = AfterBox(named, msg.boxes[2].plain),
                          !.step = 3, !.done = TRUE]]

\* Mutant: both sides send with the first key.
SplitAlike(hs) == [send |-> KeyHalf(hs.sym, 1), recv |-> KeyHalf(hs.sym, 2)]

\* The initiator sends with the first key, the responder with the second.
Split(hs) ==
    IF hs.initiator THEN [send |-> KeyHalf(hs.sym, 1), recv |-> KeyHalf(hs.sym, 2)]
                    ELSE [send |-> KeyHalf(hs.sym, 2), recv |-> KeyHalf(hs.sym, 1)]

\* The four words are a function of the transcript hash.
DeriveSAS(hs) == hs.sym.h
=============================================================================
