---------------------------- MODULE MCMd5Digest -----------------------------
(* The test suite of RFC 1321: texts that end in every part of a block,    *)
(* one whose length needs a block of its own, and one of two blocks.       *)
EXTENDS Md5Digest

Ascii == 1 .. 127

Digit(k) == 48 + (k % 10)
Upper == [k \in 1 .. 26 |-> 64 + k]
Lower == [k \in 1 .. 26 |-> 96 + k]
MessageDigest == <<109, 101, 115, 115, 97, 103, 101, 32, 100, 105, 103, 101, 115, 116>>

Case(t, d) == [text |-> t, digest |-> d]

TestSuite ==
    {Case(<<>>, "d41d8cd98f00b204e9800998ecf8427e"),
     Case(<<97>>, "0cc175b9c0f1b6a831c399e269772661"),
     Case(<<97, 98, 99>>, "900150983cd24fb0d6963f7d28e17f72"),
     Case(MessageDigest, "f96b697d7cb7938d525a2f31aaf161d0"),
     Case(Lower, "c3fcd3d76192e4007dfb496cca67e13b"),
     Case(Upper \o Lower \o [k \in 1 .. 10 |-> Digit(k - 1)],
          "d174ab98d277d9f5a5611c2c9f419d9f"),
     Case([k \in 1 .. 80 |-> Digit(k)], "57edf4a22be3c955ac49da2e2107b67a")}
=============================================================================
