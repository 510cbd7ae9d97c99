---------------------------- MODULE AlgosSchema ----------------------------
(***************************************************************************)
(* The structures of asn1crypto/algos.py: algorithm identifiers and their  *)
(* parameters. A type that the source declares further down appears by its *)
(* outer tag, as does any type of a later module. Each definition carries  *)
(* the name of its class; where two classes share a name, that of their    *)
(* module comes first.                                                     *)
(***************************************************************************)
EXTENDS Asn1Types

AlgorithmIdentifier == Fields(<<Req("algorithm", ObjectIdentifier), Opt("parameters", Any)>>)
HmacAlgorithmId == Named(ObjectIdentifier, <<
    "des_mac", "sha1", "sha224", "sha256", "sha384", "sha512", "sha512_224", "sha512_256",
    "sha3_224", "sha3_256", "sha3_384", "sha3_512">>)
HmacAlgorithm == Fields(<<Req("algorithm", HmacAlgorithmId), Opt("parameters", Any)>>)
DigestAlgorithmId == Named(ObjectIdentifier, <<
    "md2", "md5", "sha1", "sha224", "sha256", "sha384", "sha512", "sha512_224", "sha512_256",
    "sha3_224", "sha3_256", "sha3_384", "sha3_512", "shake128", "shake256", "shake128_len",
    "shake256_len">>)
DigestAlgorithm == Fields(<<Req("algorithm", DigestAlgorithmId), Opt("parameters", Any)>>)
DigestInfo == Fields(<<Req("digest_algorithm", Struct("DigestAlgorithm")), Req("digest",
    OctetString)>>)
MaskGenAlgorithmId == Named(ObjectIdentifier, <<"mgf1">>)
MaskGenAlgorithm == Paired("algorithm", "parameters", <<
    Req("algorithm", MaskGenAlgorithmId), Opt("parameters", Any)>>,
    [mgf1 |-> Struct("DigestAlgorithm")])
TrailerField == Named(Integer, <<"trailer_field_bc">>)
RSASSAPSSParams == Fields(<<
    Def("hash_algorithm", Explicit(0, Struct("DigestAlgorithm"))),
    Def("mask_gen_algorithm", Explicit(1, Struct("MaskGenAlgorithm"))),
    Def("salt_length", Explicit(2, Integer)), Def("trailer_field", Explicit(3, TrailerField))>>)
SignedDigestAlgorithmId == Preferring([
    dsa |-> 27, ecdsa |-> 28, ed25519 |-> 29, ed448 |-> 30, md2_rsa |-> 4, md5_rsa |-> 5,
    rsassa_pkcs1v15 |-> 26, rsassa_pss |-> 11, sha1_dsa |-> 12, sha1_ecdsa |-> 17,
    sha1_rsa |-> 6, sha224_dsa |-> 15, sha224_ecdsa |-> 18, sha224_rsa |-> 7, sha256_dsa |-> 16,
    sha256_ecdsa |-> 19, sha256_rsa |-> 8, sha384_ecdsa |-> 20, sha384_rsa |-> 9,
    sha3_224_ecdsa |-> 22, sha3_256_ecdsa |-> 23, sha3_384_ecdsa |-> 24, sha3_512_ecdsa |-> 25,
    sha512_ecdsa |-> 21, sha512_rsa |-> 10],
    Named(ObjectIdentifier, <<
    "md5_rsa", "sha1_rsa", "md2_rsa", "md2_rsa", "md5_rsa", "sha1_rsa", "sha224_rsa",
    "sha256_rsa", "sha384_rsa", "sha512_rsa", "rsassa_pss", "sha1_dsa", "sha1_dsa", "sha1_dsa",
    "sha224_dsa", "sha256_dsa", "sha1_ecdsa", "sha224_ecdsa", "sha256_ecdsa", "sha384_ecdsa",
    "sha512_ecdsa", "sha3_224_ecdsa", "sha3_256_ecdsa", "sha3_384_ecdsa", "sha3_512_ecdsa",
    "rsassa_pkcs1v15", "dsa", "ecdsa", "ed25519", "ed448">>))
SignedDigestAlgorithm == Paired("algorithm", "parameters", <<
    Req("algorithm", SignedDigestAlgorithmId), Opt("parameters", Any)>>,
    [rsassa_pss |-> Struct("RSASSAPSSParams")])
Pbkdf2Salt == OneOf(<<Alt("specified", OctetString), Alt("other_source",
    Struct("AlgorithmIdentifier"))>>)
Pbkdf2Params == Fields(<<
    Req("salt", Pbkdf2Salt), Req("iteration_count", Integer), Opt("key_length", Integer),
    Def("prf", Struct("HmacAlgorithm"))>>)
KdfAlgorithmId == Named(ObjectIdentifier, <<"pbkdf2">>)
KdfAlgorithm == Paired("algorithm", "parameters", <<Req("algorithm", KdfAlgorithmId),
    Opt("parameters", Any)>>,
    [pbkdf2 |-> Struct("Pbkdf2Params")])
DHParameters ==
    Fields(<<Req("p", Integer), Req("g", Integer), Opt("private_value_length", Integer)>>)
KeyExchangeAlgorithmId == Named(ObjectIdentifier, <<"dh">>)
KeyExchangeAlgorithm == Paired("algorithm", "parameters", <<
    Req("algorithm", KeyExchangeAlgorithmId), Opt("parameters", Any)>>,
    [dh |-> Struct("DHParameters")])
Rc2Params == Fields(<<Opt("rc2_parameter_version", Integer), Req("iv", OctetString)>>)
Rc5ParamVersion == Named(Integer, <<"v1-0">>)
Rc5Params == Fields(<<
    Req("version", Rc5ParamVersion), Req("rounds", Integer), Req("block_size_in_bits", Integer),
    Opt("iv", OctetString)>>)
Pbes1Params == Fields(<<Req("salt", OctetString), Req("iterations", Integer)>>)
CcmParams == Fields(<<Req("aes_nonce", OctetString), Req("aes_icvlen", Integer)>>)
PSourceAlgorithmId == Named(ObjectIdentifier, <<"p_specified">>)
PSourceAlgorithm == Paired("algorithm", "parameters", <<
    Req("algorithm", PSourceAlgorithmId), Opt("parameters", Any)>>,
    [p_specified |-> OctetString])
RSAESOAEPParams == Fields(<<
    Def("hash_algorithm", Explicit(0, Struct("DigestAlgorithm"))),
    Def("mask_gen_algorithm", Explicit(1, Struct("MaskGenAlgorithm"))),
    Def("p_source_algorithm", Explicit(2, Struct("PSourceAlgorithm")))>>)
DSASignature == Fields(<<Req("r", Integer), Req("s", Integer)>>)
EncryptionAlgorithmId == Named(ObjectIdentifier, <<
    "des", "tripledes_3key", "rc2", "rc4", "rc5", "aes128_ecb", "aes128_cbc", "aes128_ofb",
    "aes128_cfb", "aes128_wrap", "aes128_gcm", "aes128_ccm", "aes128_wrap_pad", "aes192_ecb",
    "aes192_cbc", "aes192_ofb", "aes192_cfb", "aes192_wrap", "aes192_gcm", "aes192_ccm",
    "aes192_wrap_pad", "aes256_ecb", "aes256_cbc", "aes256_ofb", "aes256_cfb", "aes256_wrap",
    "aes256_gcm", "aes256_ccm", "aes256_wrap_pad", "pbes2", "pbes1_md2_des", "pbes1_md5_des",
    "pbes1_md2_rc2", "pbes1_md5_rc2", "pbes1_sha1_des", "pbes1_sha1_rc2", "pkcs12_sha1_rc4_128",
    "pkcs12_sha1_rc4_40", "pkcs12_sha1_tripledes_3key", "pkcs12_sha1_tripledes_2key",
    "pkcs12_sha1_rc2_128", "pkcs12_sha1_rc2_40", "rsaes_pkcs1v15", "rsaes_oaep">>)
EncryptionAlgorithm == Paired("algorithm", "parameters", <<
    Req("algorithm", EncryptionAlgorithmId), Opt("parameters", Any)>>,
    [
        des |-> OctetString, tripledes_3key |-> OctetString, rc2 |-> Struct("Rc2Params"),
        rc5 |-> Struct("Rc5Params"), aes128_cbc |-> OctetString, aes192_cbc |-> OctetString,
        aes256_cbc |-> OctetString, aes128_ofb |-> OctetString, aes192_ofb |-> OctetString,
        aes256_ofb |-> OctetString, aes128_ccm |-> Struct("CcmParams"),
        aes192_ccm |-> Struct("CcmParams"),
        aes256_ccm |-> Struct("CcmParams"), pbes1_md2_des |-> Struct("Pbes1Params"),
        pbes1_md5_des |-> Struct("Pbes1Params"),
        pbes1_md2_rc2 |-> Struct("Pbes1Params"), pbes1_md5_rc2 |-> Struct("Pbes1Params"),
        pbes1_sha1_des |-> Struct("Pbes1Params"), pbes1_sha1_rc2 |-> Struct("Pbes1Params"),
        pkcs12_sha1_rc4_128 |-> Struct("Pbes1Params"),
        pkcs12_sha1_rc4_40 |-> Struct("Pbes1Params"),
        pkcs12_sha1_tripledes_3key |-> Struct("Pbes1Params"),
        pkcs12_sha1_tripledes_2key |-> Struct("Pbes1Params"),
        pkcs12_sha1_rc2_128 |-> Struct("Pbes1Params"),
        pkcs12_sha1_rc2_40 |-> Struct("Pbes1Params"),
        rsaes_oaep |-> Struct("RSAESOAEPParams"), pbes2 |-> Sequence])
Pbes2Params == Fields(<<
    Req("key_derivation_func", Struct("KdfAlgorithm")), Req("encryption_scheme",
    Struct("EncryptionAlgorithm"))>>)
Pbmac1Params ==
    Fields(<<Req("key_derivation_func", Struct("KdfAlgorithm")), Req("message_auth_scheme",
    Struct("HmacAlgorithm"))>>)
Pkcs5MacId == Named(ObjectIdentifier, <<"pbmac1">>)
Pkcs5MacAlgorithm == Paired("algorithm", "parameters", <<Req("algorithm", Pkcs5MacId),
    Req("parameters", Any)>>,
    [pbmac1 |-> Struct("Pbmac1Params")])
AnyAlgorithmId == ObjectIdentifier
AnyAlgorithmIdentifier == Fields(<<Req("algorithm", AnyAlgorithmId), Opt("parameters", Any)>>)
=============================================================================
