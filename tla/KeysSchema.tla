----------------------------- MODULE KeysSchema -----------------------------
(***************************************************************************)
(* The structures of asn1crypto/keys.py: private and public keys, curves.  *)
(* Each definition carries the name of its class; where two classes share  *)
(* a name, that of their module comes first.                               *)
(***************************************************************************)
EXTENDS AlgosSchema

OtherPrimeInfo ==
    Fields(<<Req("prime", Integer), Req("exponent", Integer), Req("coefficient", Integer)>>)
OtherPrimeInfos == SequenceOf("OtherPrimeInfo")
RSAPrivateKeyVersion == Named(Integer, <<"two-prime", "multi">>)
RSAPrivateKey == Fields(<<
    Req("version", RSAPrivateKeyVersion), Req("modulus", Integer),
    Req("public_exponent", Integer), Req("private_exponent", Integer), Req("prime1", Integer),
    Req("prime2", Integer), Req("exponent1", Integer), Req("exponent2", Integer),
    Req("coefficient", Integer), Opt("other_prime_infos", OtherPrimeInfos)>>)
RSAPublicKey == Fields(<<Req("modulus", Integer), Req("public_exponent", Integer)>>)
DSAPrivateKey == Fields(<<
    Req("version", Integer), Req("p", Integer), Req("q", Integer), Req("g", Integer),
    Req("public_key", Integer), Req("private_key", Integer)>>)
ECPoint == OctetString
ECPointBitString == OctetBitString
SpecifiedECDomainVersion == Named(Integer, <<"ecdpVer1", "ecdpVer2", "ecdpVer3">>)
FieldType == Named(ObjectIdentifier, <<"prime_field", "characteristic_two_field">>)
CharacteristicTwoBasis == Named(ObjectIdentifier, <<"gn_basis", "tp_basis", "pp_basis">>)
Pentanomial == Fields(<<Req("k1", Integer), Req("k2", Integer), Req("k3", Integer)>>)
CharacteristicTwo == Paired("basis", "parameters", <<
    Req("m", Integer), Req("basis", CharacteristicTwoBasis), Req("parameters", Any)>>,
    [gn_basis |-> Null, tp_basis |-> Integer, pp_basis |-> Struct("Pentanomial")])
FieldID == Paired("field_type", "parameters", <<Req("field_type", FieldType), Req("parameters",
    Any)>>,
    [prime_field |-> Integer, characteristic_two_field |-> Struct("CharacteristicTwo")])
Curve == Fields(<<Req("a", OctetString), Req("b", OctetString), Opt("seed", OctetBitString)>>)
SpecifiedECDomain == Fields(<<
    Req("version", SpecifiedECDomainVersion), Req("field_id", Struct("FieldID")), Req("curve",
    Struct("Curve")),
    Req("base", ECPoint), Req("order", Integer), Opt("cofactor", Integer),
    Opt("hash", Struct("DigestAlgorithm"))>>)
NamedCurve == Named(ObjectIdentifier, <<
    "c2pnb163v1", "c2pnb163v2", "c2pnb163v3", "c2pnb176w1", "c2tnb191v1", "c2tnb191v2",
    "c2tnb191v3", "c2onb191v4", "c2onb191v5", "c2pnb208w1", "c2tnb239v1", "c2tnb239v2",
    "c2tnb239v3", "c2onb239v4", "c2onb239v5", "c2pnb272w1", "c2pnb304w1", "c2tnb359v1",
    "c2pnb368w1", "c2tnb431r1", "prime192v2", "prime192v3", "prime239v1", "prime239v2",
    "prime239v3", "secp192r1", "secp256r1", "sect163k1", "sect163r1", "sect239k1", "sect113r1",
    "sect113r2", "secp112r1", "secp112r2", "secp160r1", "secp160k1", "secp256k1", "sect163r2",
    "sect283k1", "sect283r1", "sect131r1", "sect131r2", "sect193r1", "sect193r2", "sect233k1",
    "sect233r1", "secp128r1", "secp128r2", "secp160r2", "secp192k1", "secp224k1", "secp224r1",
    "secp384r1", "secp521r1", "sect409k1", "sect409r1", "sect571k1", "sect571r1",
    "brainpoolp160r1", "brainpoolp160t1", "brainpoolp192r1", "brainpoolp192t1",
    "brainpoolp224r1", "brainpoolp224t1", "brainpoolp256r1", "brainpoolp256t1",
    "brainpoolp320r1", "brainpoolp320t1", "brainpoolp384r1", "brainpoolp384t1",
    "brainpoolp512r1", "brainpoolp512t1">>)
ECDomainParameters ==
    OneOf(<<Alt("specified", Struct("SpecifiedECDomain")), Alt("named", NamedCurve),
    Alt("implicit_ca", Null)>>)
ECPrivateKeyVersion == Named(Integer, <<"ecPrivkeyVer1">>)
ECPrivateKey == Fields(<<
    Req("version", ECPrivateKeyVersion), Req("private_key", IntegerOctetString),
    Opt("parameters", Explicit(0, ECDomainParameters)),
    Opt("public_key", Explicit(1, ECPointBitString))>>)
DSAParams == Fields(<<Req("p", Integer), Req("q", Integer), Req("g", Integer)>>)
KeysAttribute == Fields(<<Req("type", ObjectIdentifier), Req("values", SetOf("Any"))>>)
KeysAttributes == SetOf("KeysAttribute")
PrivateKeyAlgorithmId == Named(ObjectIdentifier, <<
    "rsa", "rsassa_pss", "dsa", "ec", "x25519", "x448", "ed25519", "ed448">>)
PrivateKeyAlgorithm == Paired("algorithm", "parameters", <<
    Req("algorithm", PrivateKeyAlgorithmId), Opt("parameters", Any)>>,
    [dsa |-> Struct("DSAParams"), ec |-> ECDomainParameters,
    rsassa_pss |-> Struct("RSASSAPSSParams")])
PrivateKeyInfo == Fields(<<
    Req("version", Integer), Req("private_key_algorithm", Struct("PrivateKeyAlgorithm")),
    Req("private_key", ParsableOctetString), Opt("attributes", Implicit(0, KeysAttributes))>>)
EncryptedPrivateKeyInfo ==
    Fields(<<Req("encryption_algorithm", Struct("EncryptionAlgorithm")), Req("encrypted_data",
    OctetString)>>)
ValidationParms == Fields(<<Req("seed", BitString), Req("pgen_counter", Integer)>>)
DomainParameters == Fields(<<
    Req("p", Integer), Req("g", Integer), Req("q", Integer), Opt("j", Integer),
    Opt("validation_params", Struct("ValidationParms"))>>)
PublicKeyAlgorithmId == Named(ObjectIdentifier, <<
    "rsa", "rsaes_oaep", "rsassa_pss", "dsa", "ec", "dh", "x25519", "x448", "ed25519", "ed448">>)
PublicKeyAlgorithm == Paired("algorithm", "parameters", <<
    Req("algorithm", PublicKeyAlgorithmId), Opt("parameters", Any)>>,
    [
        dsa |-> Struct("DSAParams"), ec |-> ECDomainParameters, dh |-> Struct("DomainParameters"),
        rsaes_oaep |-> Struct("RSAESOAEPParams"), rsassa_pss |-> Struct("RSASSAPSSParams")])
PublicKeyInfo ==
    Fields(<<Req("algorithm", Struct("PublicKeyAlgorithm")), Req("public_key",
    ParsableOctetBitString)>>)
=============================================================================
