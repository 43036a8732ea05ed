---------------------------- MODULE ReceiptFormat ----------------------------
(***************************************************************************)
(* The canonical receipt of @tollway/core (receipt/*.ts): what a well      *)
(* formed receipt is, how one is built and signed, and what verifyReceipt  *)
(* answers about an object that came over the wire.  Operators only; the   *)
(* archive and the dashboard use them.                                     *)
(*                                                                         *)
(* An object is a function from its field names to values.  Bad stands for *)
(* every value that no field accepts: of another type, empty, misspelt.    *)
(* A signature is the pair of the key and the bytes it was made over, as   *)
(* Ed25519 cannot be forged; Garbled is a text that is no base64url.       *)
(***************************************************************************)
EXTENDS ModelRouter

CONSTANTS Bad, Garbled

StellarNetwork == {"testnet", "mainnet"}

RefKind == {"transaction", "channel-commitment"}
refKindForModel(model) == IF model = "mpp-channel" THEN "channel-commitment" ELSE "transaction"

\* A txHash, or a channelId with a sequence number, is one value.  A reference
\* that is no object has a bad kind.
SettlementRef(ref) == ref.kind \in RefKind /\ ref.anchor # Bad

BodyField == {"version", "id", "payer", "payee", "amount", "asset", "resource",
              "model", "settlement", "network", "issuedAt"}
SignatureField == {"keyId", "algorithm", "value"}

FieldOk(f, v) ==
  CASE f = "version"    -> v = 1
    [] f = "amount"     -> v \in Nat
    [] f = "model"      -> v \in Model
    [] f = "settlement" -> SettlementRef(v)
    [] f = "network"    -> v \in StellarNetwork
    [] OTHER            -> v # Bad

BodyOk(body) ==
  /\ BodyField \subseteq DOMAIN body
  /\ \A f \in BodyField : FieldOk(f, body[f])
  /\ body.settlement.kind = refKindForModel(body.model)

SignatureOk(signature) ==
  /\ SignatureField \subseteq DOMAIN signature
  /\ \A f \in SignatureField : signature[f] # Bad

SignedOk(candidate) == BodyOk(candidate.receipt) /\ SignatureOk(candidate.signature)

\* Parsing keeps the fields of the schema, here and in the reference, and drops
\* all others.
Parsed(body) ==
  [f \in BodyField |->
     IF f = "settlement" THEN [kind |-> body[f].kind, anchor |-> body[f].anchor] ELSE body[f]]

\* An object is written as its keys and values, in an order that depends on the
\* keys alone: texts are equal just when these sets are.
Pairs(object) == {<<key, object[key]>> : key \in DOMAIN object}

\* Mutant: of a nested object only the kind is written.
FlatBytes(body) == Pairs([body EXCEPT !.settlement = @.kind])

canonicalBytes(body) == Pairs([body EXCEPT !.settlement = Pairs(@)])

-----------------------------------------------------------------------------
(* Building and signing. *)

\* Version, id and issue date are filled in; what does not fit the schema throws.
BuiltBody(input, id, issuedAt) ==
  [f \in DOMAIN input \cup {"version", "id", "issuedAt"} |->
     CASE f = "version"  -> 1
       [] f = "id"       -> id
       [] f = "issuedAt" -> issuedAt
       [] OTHER          -> input[f]]

CanBuild(input, id, issuedAt) == BodyOk(BuiltBody(input, id, issuedAt))

Sign(key, bytes) == [key |-> key, bytes |-> bytes]

SignReceipt(body, signer) ==
  [receipt   |-> Parsed(body),
   signature |-> [keyId     |-> signer.keyId,
                  algorithm |-> "Ed25519",
                  value     |-> Sign(signer.key, canonicalBytes(Parsed(body)))]]

-----------------------------------------------------------------------------
(* Verifying.  keys is the verifier's map from key ids to public keys. *)

VerifierAccepts(keys, bytes, signature) ==
  /\ signature.algorithm = "Ed25519"
  /\ signature.keyId \in DOMAIN keys
  /\ signature.value = Sign(keys[signature.keyId], bytes)

\* "threw": the promise of verifyReceipt rejects.
Verification == {"valid", "invalid", "threw"}

VerifyReceipt(candidate, keys) ==
  IF ~SignedOk(candidate) THEN "invalid"
  ELSE IF candidate.signature.value = Garbled THEN "threw"
  ELSE IF VerifierAccepts(keys, canonicalBytes(Parsed(candidate.receipt)), candidate.signature)
  THEN "valid" ELSE "invalid"

=============================================================================
