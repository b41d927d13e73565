------------------------------ MODULE SslFactory ------------------------------
(***************************************************************************)
(* ssl_factory: the three functions that make an SSL_CTX, each a row of    *)
(* OpenSSL calls of which any may fail, with the objects that have to be   *)
(* given back wherever it does.  A call is what was made for it before     *)
(* (makes), what it makes itself (gives), what is given back or handed on  *)
(* when it has succeeded (drops), and, when it fails, what is given back   *)
(* (frees) and whether the function returns its context all the same.      *)
(***************************************************************************)
EXTENDS Integers, Sequences

Throws(makes, gives, drops, frees) ==
  [makes |-> makes, gives |-> gives, drops |-> drops, frees |-> frees, returns |-> FALSE]

(* goto cleanup: everything is given back but the context, and that is     *)
(* returned.                                                               *)
All == {"bne", "rsa", "pkey", "x509", "certBio", "keyBio"}
Cleanup(makes, drops) ==
  [makes |-> makes, gives |-> {}, drops |-> drops, frees |-> All, returns |-> TRUE]

NewContext == Throws({}, {"ctx"}, {}, {})

(* createClient(host); the results of setting the parameters are ignored.  *)
Client == <<NewContext>>

(* createServer(): a key and a certificate signed with it.  pkey takes rsa *)
(* over.  The PEM texts in the two BIOs are not used for anything.         *)
SelfSigned ==
  <<NewContext,
    Cleanup({"bne"}, {}), Cleanup({"rsa"}, {}), Cleanup({"pkey"}, {"rsa"}),
    Cleanup({"x509"}, {}), Cleanup({"certBio", "keyBio"}, {}), Cleanup({}, {}),
    Throws({}, {"certificate"}, All, {})>>

(* createServer(cert, key). *)
FromPem_KeyKept ==                                           \* mutant
  <<NewContext,
    Throws({}, {"x509"}, {}, {"ctx"}),
    Throws({}, {"certificate"}, {}, {"x509", "ctx"}),
    Throws({}, {"pkey"}, {}, {"x509", "ctx"}),
    Throws({}, {}, {}, {"pkey", "x509", "ctx"}),
    Throws({}, {}, {"pkey", "x509"}, {"x509", "ctx"})>>
FromPem ==
  <<NewContext,
    Throws({}, {"x509"}, {}, {"ctx"}),
    Throws({}, {"certificate"}, {}, {"x509", "ctx"}),
    Throws({}, {"pkey"}, {}, {"x509", "ctx"}),
    Throws({}, {}, {}, {"pkey", "x509", "ctx"}),
    Throws({}, {}, {"pkey", "x509"}, {"pkey", "x509", "ctx"})>>

(* What is there when the k-th call of a row is made, and after a run in   *)
(* which the k-th fails, or none (k = 0).  The certificate is in the       *)
(* context, and goes with it.                                              *)
Before(calls, k) ==
  ((UNION {calls[i].makes \cup calls[i].gives : i \in 1..k-1})
     \ (UNION {calls[i].drops : i \in 1..k-1}))
    \cup (IF k \in DOMAIN calls THEN calls[k].makes ELSE {})

After(calls, k) ==
  IF k = 0 THEN Before(calls, Len(calls) + 1)
  ELSE LET left == Before(calls, k) \ calls[k].frees
       IN  IF "ctx" \in left THEN left ELSE left \ {"certificate"}

Returns(calls, k) == k \in {0} \cup {i \in DOMAIN calls : calls[i].returns}

(* What such a run leaves behind besides the context that it returns. *)
Debris(calls, k) ==
  IF Returns(calls, k) THEN After(calls, k) \ {"ctx", "certificate"}
  ELSE After(calls, k)

(* What a call of one of the three may leave, with a context and without. *)
Runs == UNION {{calls} \X (0..Len(calls)) : calls \in {Client, SelfSigned, FromPem}}
LeftByMade == {Debris(u[1], u[2]) : u \in {v \in Runs : Returns(v[1], v[2])}}
LeftByFailed == {Debris(u[1], u[2]) : u \in {v \in Runs : ~Returns(v[1], v[2])}}
==============================================================================
