--------------------------- MODULE DerCertificate ---------------------------
(***************************************************************************)
(* The certificate and the key that src/lib/base/p2p-glue.c writes on      *)
(* Apple's systems, in DER.  Keys and signatures are strings of bytes of   *)
(* any length, object identifiers, names and times some bytes; what is     *)
(* kept is how everything is nested, how lengths and integers are written  *)
(* and where each one counts.  A reader of DER must find in it what was    *)
(* put in.                                                                 *)
(***************************************************************************)
EXTENDS Integers, Sequences, SequencesExt

CONSTANTS
    Base,       \* values of a byte (256)
    Width,      \* bytes of an integer (8)
    MaxLength   \* of a key or a signature

ConstantsOK ==
    /\ Base \in Nat /\ Base % 2 = 0 /\ Base >= 8
    /\ Width \in Nat \ {0} /\ MaxLength \in Nat

VARIABLES publicKey, privateKey, signature, number, out

vars == <<publicKey, privateKey, signature, number, out>>

Half == Base \div 2
Bytes == {[i \in 1..n |-> 1] : n \in 0..MaxLength}
-----------------------------------------------------------------------------
(* Encoding. *)

\* The bytes of a number, first the least significant one, up to the last that is not zero.
Digits[n \in Nat] == IF n = 0 THEN <<>> ELSE <<n % Base>> \o Digits[n \div Base]

\* frida_der_append_length ()
Length(n) == IF n < Half THEN <<n>> ELSE <<Half + Len(Digits[n])>> \o Reverse(Digits[n])

Tlv(tag, value) == <<tag>> \o Length(Len(value)) \o value

\* Leading zeros are left out as long as what follows does not look negative.
Start(b) == CHOOSE k \in 0..Width :
    /\ \A j \in 1..k : b[j] = 0 /\ b[j + 1] < Half
    /\ k = Width \/ b[k + 1] # 0 \/ b[k + 2] >= Half

\* frida_der_append_integer_uint ()
Integer(n) ==
    LET b == [i \in 1..Width + 1 |-> IF Width + 2 - i <= Len(Digits[n]) THEN Digits[n][Width + 2 - i] ELSE 0]
    IN Tlv(2, SubSeq(b, Start(b) + 1, Width + 1))

\* Mutant: the byte that tells the unused bits is not counted.
BitStringShort(bytes) == <<3>> \o Length(Len(bytes)) \o <<0>> \o bytes

\* frida_der_append_bit_string ()
BitString(bytes) == <<3>> \o Length(Len(bytes) + 1) \o <<0>> \o bytes

Sequence(inner) == Tlv(48, inner)
Oid(n) == Tlv(6, [i \in 1..n |-> 1])
AlgorithmIdentifier == Sequence(Oid(3) \o Tlv(5, <<>>))
Rdn(n) == Tlv(49, Sequence(Oid(1) \o Tlv(12, [i \in 1..n |-> 1])))
Name == Sequence(Rdn(1) \o Rdn(2) \o Rdn(3))
Validity == Sequence(Tlv(23, <<1, 1>>) \o Tlv(23, <<1, 1>>))
SubjectPublicKeyInfo(key) == Sequence(AlgorithmIdentifier \o BitString(key))
TbsCertificate(info) ==
    Sequence(Integer(number) \o AlgorithmIdentifier \o Name \o Validity \o Name \o info)
SignedCertificate(tbs, sig) == Sequence(tbs \o AlgorithmIdentifier \o BitString(sig))
Pkcs8PrivateKeyInfo(key) == Sequence(Integer(0) \o AlgorithmIdentifier \o Tlv(4, key))
-----------------------------------------------------------------------------
Init ==
    /\ publicKey \in Bytes /\ privateKey \in Bytes /\ signature \in Bytes
    /\ number \in {1, Half - 1, Half, Base - 1, Base, Base * Half, Base * Base - 1} /\ out = <<>>

\* _frida_generate_certificate ()
GenerateCertificate ==
    /\ out = <<>>
    /\ out' = <<SignedCertificate(TbsCertificate(SubjectPublicKeyInfo(publicKey)), signature),
                Pkcs8PrivateKeyInfo(privateKey)>>
    /\ UNCHANGED <<publicKey, privateKey, signature, number>>

Next == GenerateCertificate

Spec == Init /\ [][Next]_vars
-----------------------------------------------------------------------------
(* A reader. *)

Value(bytes) == FoldLeft(LAMBDA n, b : n * Base + b, 0, bytes)
\* The number of bytes that the length takes, and the length.
LengthSize(s) == IF s[2] < Half THEN 1 ELSE 1 + s[2] - Half
LengthOf(s) == IF s[2] < Half THEN s[2] ELSE Value(SubSeq(s, 3, 2 + s[2] - Half))
Body(s) == SubSeq(s, 2 + LengthSize(s), 1 + LengthSize(s) + LengthOf(s))
Rest(s) == SubSeq(s, 2 + LengthSize(s) + LengthOf(s), Len(s))

RECURSIVE Items(_)
\* What is inside of a constructed value: for each item its tag and its body.
Items(s) == IF Len(s) < 2 THEN <<>> ELSE <<[tag |-> s[1], body |-> Body(s)]>> \o Items(Rest(s))
Tags(s) == LET items == Items(s) IN [i \in DOMAIN items |-> items[i].tag]
Item(s, i) == Items(s)[i].body
\* It is the whole of the input that is read.
Whole(s) == Rest(s) = <<>>

\* The certificate reads as version 1 of X.509: a signed part, an algorithm and a signature, the
\* signed part with the number, the names, the times and the key that were put in.
CertificateReadsBack ==
    out # <<>> =>
        LET tbs == Item(Body(out[1]), 1)
        IN /\ Whole(out[1]) /\ Tags(Body(out[1])) = <<48, 48, 3>>
           /\ Item(Body(out[1]), 3) = <<0>> \o signature
           /\ Tags(tbs) = <<2, 48, 48, 48, 48, 48>> /\ Tags(Item(tbs, 3)) = <<49, 49, 49>>
           /\ Tags(Item(tbs, 4)) = <<23, 23>> /\ Tags(Item(tbs, 6)) = <<48, 3>>
           /\ Item(Item(tbs, 6), 2) = <<0>> \o publicKey

\* Integers are written as DER demands: the number is read back, it is not negative, and no
\* shorter form has these two properties.
IntegersAreMinimal ==
    out # <<>> =>
        \A n \in {<<number, Item(Item(Body(out[1]), 1), 1)>>, <<0, Item(Body(out[2]), 1)>>} :
            /\ Value(n[2]) = n[1] /\ n[2][1] < Half
            /\ Len(n[2]) > 1 => n[2][1] # 0 \/ n[2][2] >= Half

\* The private key reads as PKCS #8: version 0, an algorithm, and the key in a string.
KeyReadsBack ==
    out # <<>> => Whole(out[2]) /\ Tags(Body(out[2])) = <<2, 48, 4>> /\ Item(Body(out[2]), 3) = privateKey
=============================================================================
