----------------------------- MODULE CmsSchema -----------------------------
(***************************************************************************)
(* The structures of asn1crypto/cms.py: signed, enveloped and other        *)
(* messages. Each definition carries the name of its class; where two      *)
(* classes share a name, that of their module comes first.                 *)
(***************************************************************************)
EXTENDS X509Schema

ExtendedCertificateInfo == Fields(<<
    Req("version", Integer), Req("certificate", Struct("Certificate")),
    Req("attributes", X509Attributes)>>)
ExtendedCertificate == Fields(<<
    Req("extended_certificate_info", Struct("ExtendedCertificateInfo")),
    Req("signature_algorithm", Struct("SignedDigestAlgorithm")), Req("signature",
    OctetBitString)>>)
CMSVersion == Named(Integer, <<"v0", "v1", "v2", "v3", "v4", "v5">>)
CMSAttributeType == Named(ObjectIdentifier, <<
    "content_type", "message_digest", "signing_time", "counter_signature", "smime_capabilities",
    "encrypt_key_pref", "signature_time_stamp_token", "cms_algorithm_protection",
    "microsoft_nested_signature", "microsoft_time_stamp_token", "signing_certificate",
    "signing_certificate_v2", "adobe_revocation_info_archival">>)
CmsTime == OneOf(<<Alt("utc_time", UTCTime), Alt("generalized_time", GeneralizedTime)>>)
ContentType == Named(ObjectIdentifier, <<
    "data", "signed_data", "enveloped_data", "signed_and_enveloped_data", "digested_data",
    "encrypted_data", "authenticated_data", "compressed_data", "authenticated_enveloped_data",
    "tst_info", "timestamped_data">>)
CMSAlgorithmProtection == Fields(<<
    Req("digest_algorithm", Struct("DigestAlgorithm")),
    Opt("signature_algorithm", Implicit(1, Struct("SignedDigestAlgorithm"))),
    Opt("mac_algorithm", Implicit(2, Struct("HmacAlgorithm")))>>)
SetOfContentType == SetOf("ContentType")
CmsSetOfOctetString == SetOf("OctetString")
SetOfTime == SetOf("CmsTime")
CmsSetOfAny == SetOf("Any")
SetOfCMSAlgorithmProtection == SetOf("CMSAlgorithmProtection")
CMSAttribute == Fields(<<Req("type", CMSAttributeType), Req("values", Any)>>)
CMSAttributes == SetOf("CMSAttribute")
CmsIssuerSerial ==
    Fields(<<Req("issuer", GeneralNames), Req("serial", Integer), Opt("issuer_uid",
    OctetBitString)>>)
AttCertVersion == Named(Integer, <<"v1", "v2">>)
AttCertSubject == OneOf(<<
    Alt("base_certificate_id", Explicit(0, Struct("CmsIssuerSerial"))),
    Alt("subject_name", Explicit(1, GeneralNames))>>)
AttCertValidityPeriod ==
    Fields(<<Req("not_before_time", GeneralizedTime), Req("not_after_time", GeneralizedTime)>>)
AttributeCertificateInfoV1 == Fields(<<
    Def("version", AttCertVersion), Req("subject", AttCertSubject), Req("issuer", GeneralNames),
    Req("signature", Struct("SignedDigestAlgorithm")), Req("serial_number", Integer),
    Req("att_cert_validity_period", Struct("AttCertValidityPeriod")), Req("attributes",
    X509Attributes),
    Opt("issuer_unique_id", OctetBitString), Opt("extensions", X509Extensions)>>)
AttributeCertificateV1 == Fields(<<
    Req("ac_info", Struct("AttributeCertificateInfoV1")),
    Req("signature_algorithm", Struct("SignedDigestAlgorithm")), Req("signature",
    OctetBitString)>>)
DigestedObjectType == Named(Enumerated, <<"public_key", "public_key_cert", "other_objy_types">>)
ObjectDigestInfo == Fields(<<
    Req("digested_object_type", DigestedObjectType),
    Opt("other_object_type_id", ObjectIdentifier), Req("digest_algorithm",
    Struct("DigestAlgorithm")),
    Req("object_digest", OctetBitString)>>)
Holder == Fields(<<
    Opt("base_certificate_id", Implicit(0, Struct("CmsIssuerSerial"))),
    Opt("entity_name", Implicit(1, GeneralNames)),
    Opt("object_digest_info", Implicit(2, Struct("ObjectDigestInfo")))>>)
V2Form == Fields(<<
    Opt("issuer_name", GeneralNames), Opt("base_certificate_id", Explicit(0,
    Struct("CmsIssuerSerial"))),
    Opt("object_digest_info", Explicit(1, Struct("ObjectDigestInfo")))>>)
AttCertIssuer == OneOf(<<Alt("v1_form", GeneralNames), Alt("v2_form", Implicit(0,
    Struct("V2Form")))>>)
IetfAttrValue ==
    OneOf(<<Alt("octets", OctetString), Alt("oid", ObjectIdentifier), Alt("string", UTF8String)>>)
IetfAttrValues == SequenceOf("IetfAttrValue")
IetfAttrSyntax ==
    Fields(<<Opt("policy_authority", Implicit(0, GeneralNames)), Req("values", IetfAttrValues)>>)
SetOfIetfAttrSyntax == SetOf("IetfAttrSyntax")
SvceAuthInfo ==
    Fields(<<Req("service", GeneralName), Req("ident", GeneralName), Opt("auth_info",
    OctetString)>>)
SetOfSvceAuthInfo == SetOf("SvceAuthInfo")
RoleSyntax == Fields(<<
    Opt("role_authority", Implicit(0, GeneralNames)),
    Req("role_name", Explicit(1, GeneralName))>>)
SetOfRoleSyntax == SetOf("RoleSyntax")
ClassList == Named(BitString, <<
    "unmarked", "unclassified", "restricted", "confidential", "secret", "top_secret">>)
SecurityCategory ==
    Fields(<<Req("type", Implicit(0, ObjectIdentifier)), Req("value", Explicit(1, Any))>>)
SetOfSecurityCategory == SetOf("SecurityCategory")
Clearance == Fields(<<
    Req("policy_id", ObjectIdentifier), Def("class_list", ClassList),
    Opt("security_categories", SetOfSecurityCategory)>>)
SetOfClearance == SetOf("Clearance")
BigTime ==
    Fields(<<Req("major", Integer), Req("fractional_seconds", Integer), Opt("sign", Integer)>>)
LeapData == Fields(<<Req("leap_time", Struct("BigTime")), Req("action", Integer)>>)
SetOfLeapData == SetOf("LeapData")
TimingMetrics == Fields(<<
    Req("ntp_time", Struct("BigTime")), Req("offset", Struct("BigTime")), Req("delay",
    Struct("BigTime")),
    Req("expiration", Struct("BigTime")), Opt("leap_event", SetOfLeapData)>>)
SetOfTimingMetrics == SetOf("TimingMetrics")
TimingPolicy == Fields(<<
    Req("policy_id", SequenceOf("ObjectIdentifier")), Opt("max_offset", Explicit(0,
    Struct("BigTime"))),
    Opt("max_delay", Explicit(1, Struct("BigTime")))>>)
SetOfTimingPolicy == SetOf("TimingPolicy")
AttCertAttributeType == Named(ObjectIdentifier, <<
    "authentication_info", "access_identity", "charging_identity", "group", "role", "clearance",
    "timing_metrics", "timing_policy">>)
AttCertAttribute == Fields(<<Req("type", AttCertAttributeType), Req("values", Any)>>)
AttCertAttributes == SequenceOf("AttCertAttribute")
AttributeCertificateInfoV2 == Fields(<<
    Req("version", AttCertVersion), Req("holder", Struct("Holder")), Req("issuer", AttCertIssuer),
    Req("signature", Struct("SignedDigestAlgorithm")), Req("serial_number", Integer),
    Req("att_cert_validity_period", Struct("AttCertValidityPeriod")), Req("attributes",
    AttCertAttributes),
    Opt("issuer_unique_id", OctetBitString), Opt("extensions", X509Extensions)>>)
AttributeCertificateV2 == AlsoTagged(Fields(<<
    Req("ac_info", Struct("AttributeCertificateInfoV2")),
    Req("signature_algorithm", Struct("SignedDigestAlgorithm")), Req("signature",
    OctetBitString)>>), {1})
OtherCertificateFormat ==
    Fields(<<Req("other_cert_format", ObjectIdentifier), Req("other_cert", Any)>>)
CertificateChoices == OneOf(<<
    Alt("certificate", Struct("Certificate")),
    Alt("extended_certificate", Implicit(0, Struct("ExtendedCertificate"))),
    Alt("v1_attr_cert", Implicit(1, Struct("AttributeCertificateV1"))),
    Alt("v2_attr_cert", Implicit(2, AttributeCertificateV2)),
    Alt("other", Implicit(3, Struct("OtherCertificateFormat")))>>)
CertificateSet == SetOf("CertificateChoices")
ContentInfo == Paired("content_type", "content", <<
    Req("content_type", ContentType), Opt("content", Explicit(0, Any))>>,
    [
        data |-> OctetString, signed_data |-> Sequence, enveloped_data |-> Sequence,
        signed_and_enveloped_data |-> Sequence, digested_data |-> Sequence,
        encrypted_data |-> Sequence, authenticated_data |-> Sequence,
        compressed_data |-> Sequence, authenticated_enveloped_data |-> Sequence,
        timestamped_data |-> Sequence])
SetOfContentInfo == SetOf("ContentInfo")
EncapsulatedContentInfo == Paired("content_type", "content", <<
    Req("content_type", ContentType), Opt("content", Explicit(0, ParsableOctetString))>>,
    [
        signed_data |-> Sequence, enveloped_data |-> Sequence,
        signed_and_enveloped_data |-> Sequence, digested_data |-> Sequence,
        encrypted_data |-> Sequence, authenticated_data |-> Sequence,
        compressed_data |-> Sequence, authenticated_enveloped_data |-> Sequence,
        tst_info |-> Sequence, timestamped_data |-> Sequence])
IssuerAndSerialNumber == Fields(<<Req("issuer", Name), Req("serial_number", Integer)>>)
SignerIdentifier == OneOf(<<
    Alt("issuer_and_serial_number", Struct("IssuerAndSerialNumber")),
    Alt("subject_key_identifier", Implicit(0, OctetString))>>)
CmsDigestAlgorithms == SetOf("DigestAlgorithm")
CertificateRevocationLists == SetOf("Sequence")
SCVPReqRes == Fields(<<Opt("request", Explicit(0, Struct("ContentInfo"))), Req("response",
    Struct("ContentInfo"))>>)
OtherRevInfoFormatId == Named(ObjectIdentifier, <<"ocsp_response", "scvp">>)
OtherRevocationInfoFormat == Paired("other_rev_info_format", "other_rev_info", <<
    Req("other_rev_info_format", OtherRevInfoFormatId), Req("other_rev_info", Any)>>,
    [ocsp_response |-> Sequence, scvp |-> Struct("SCVPReqRes")])
RevocationInfoChoice ==
    OneOf(<<Alt("crl", Sequence), Alt("other", Implicit(1,
    Struct("OtherRevocationInfoFormat")))>>)
RevocationInfoChoices == SetOf("RevocationInfoChoice")
SignerInfo == Fields(<<
    Req("version", CMSVersion), Req("sid", SignerIdentifier),
    Req("digest_algorithm", Struct("DigestAlgorithm")), Opt("signed_attrs", Implicit(0,
    CMSAttributes)),
    Req("signature_algorithm", Struct("SignedDigestAlgorithm")), Req("signature", OctetString),
    Opt("unsigned_attrs", Implicit(1, CMSAttributes))>>)
SignerInfos == SetOf("SignerInfo")
SignedData == Fields(<<
    Req("version", CMSVersion), Req("digest_algorithms", CmsDigestAlgorithms),
    Req("encap_content_info", Any), Opt("certificates", Implicit(0, CertificateSet)),
    Opt("crls", Implicit(1, RevocationInfoChoices)), Req("signer_infos", SignerInfos)>>)
OriginatorInfo == Fields(<<
    Opt("certs", Implicit(0, CertificateSet)), Opt("crls", Implicit(1, RevocationInfoChoices))>>)
RecipientIdentifier == OneOf(<<
    Alt("issuer_and_serial_number", Struct("IssuerAndSerialNumber")),
    Alt("subject_key_identifier", Implicit(0, OctetString))>>)
KeyEncryptionAlgorithmId == Preferring([
    aes128_wrap |-> 3, aes128_wrap_pad |-> 4, aes192_wrap |-> 5, aes192_wrap_pad |-> 6,
    aes256_wrap |-> 7, aes256_wrap_pad |-> 8, rsa |-> 1, rsaes_oaep |-> 2, rsaes_pkcs1v15 |-> 1],
    Named(ObjectIdentifier, <<
    "rsaes_pkcs1v15", "rsaes_oaep", "aes128_wrap", "aes128_wrap_pad", "aes192_wrap",
    "aes192_wrap_pad", "aes256_wrap", "aes256_wrap_pad">>))
KeyEncryptionAlgorithm == Paired("algorithm", "parameters", <<
    Req("algorithm", KeyEncryptionAlgorithmId), Opt("parameters", Any)>>,
    [rsaes_oaep |-> Struct("RSAESOAEPParams")])
KeyTransRecipientInfo == Fields(<<
    Req("version", CMSVersion), Req("rid", RecipientIdentifier),
    Req("key_encryption_algorithm", Struct("KeyEncryptionAlgorithm")), Req("encrypted_key",
    OctetString)>>)
OriginatorIdentifierOrKey == OneOf(<<
    Alt("issuer_and_serial_number", Struct("IssuerAndSerialNumber")),
    Alt("subject_key_identifier", Implicit(0, OctetString)),
    Alt("originator_key", Implicit(1, Struct("PublicKeyInfo")))>>)
OtherKeyAttribute == Fields(<<Req("key_attr_id", ObjectIdentifier), Req("key_attr", Any)>>)
RecipientKeyIdentifier == Fields(<<
    Req("subject_key_identifier", OctetString), Opt("date", GeneralizedTime),
    Opt("other", Struct("OtherKeyAttribute"))>>)
KeyAgreementRecipientIdentifier == OneOf(<<
    Alt("issuer_and_serial_number", Struct("IssuerAndSerialNumber")),
    Alt("r_key_id", Implicit(0, Struct("RecipientKeyIdentifier")))>>)
RecipientEncryptedKey ==
    Fields(<<Req("rid", KeyAgreementRecipientIdentifier), Req("encrypted_key", OctetString)>>)
RecipientEncryptedKeys == SequenceOf("RecipientEncryptedKey")
KeyAgreeRecipientInfo == Fields(<<
    Req("version", CMSVersion), Req("originator", Explicit(0, OriginatorIdentifierOrKey)),
    Opt("ukm", Explicit(1, OctetString)),
    Req("key_encryption_algorithm", Struct("KeyEncryptionAlgorithm")),
    Req("recipient_encrypted_keys", RecipientEncryptedKeys)>>)
KEKIdentifier == Fields(<<
    Req("key_identifier", OctetString), Opt("date", GeneralizedTime),
    Opt("other", Struct("OtherKeyAttribute"))>>)
KEKRecipientInfo == Fields(<<
    Req("version", CMSVersion), Req("kekid", Struct("KEKIdentifier")),
    Req("key_encryption_algorithm", Struct("KeyEncryptionAlgorithm")), Req("encrypted_key",
    OctetString)>>)
PasswordRecipientInfo == Fields(<<
    Req("version", CMSVersion), Opt("key_derivation_algorithm", Implicit(0,
    Struct("KdfAlgorithm"))),
    Req("key_encryption_algorithm", Struct("KeyEncryptionAlgorithm")), Req("encrypted_key",
    OctetString)>>)
OtherRecipientInfo == Fields(<<Req("ori_type", ObjectIdentifier), Req("ori_value", Any)>>)
RecipientInfo == OneOf(<<
    Alt("ktri", Struct("KeyTransRecipientInfo")), Alt("kari", Implicit(1,
    Struct("KeyAgreeRecipientInfo"))),
    Alt("kekri", Implicit(2, Struct("KEKRecipientInfo"))), Alt("pwri", Implicit(3,
    Struct("PasswordRecipientInfo"))),
    Alt("ori", Implicit(4, Struct("OtherRecipientInfo")))>>)
RecipientInfos == SetOf("RecipientInfo")
EncryptedContentInfo == Fields(<<
    Req("content_type", ContentType), Req("content_encryption_algorithm",
    Struct("EncryptionAlgorithm")),
    Opt("encrypted_content", Implicit(0, OctetString))>>)
EnvelopedData == Fields(<<
    Req("version", CMSVersion), Opt("originator_info", Implicit(0, Struct("OriginatorInfo"))),
    Req("recipient_infos", RecipientInfos), Req("encrypted_content_info",
    Struct("EncryptedContentInfo")),
    Opt("unprotected_attrs", Implicit(1, CMSAttributes))>>)
SignedAndEnvelopedData == Fields(<<
    Req("version", CMSVersion), Req("recipient_infos", RecipientInfos),
    Req("digest_algorithms", CmsDigestAlgorithms),
    Req("encrypted_content_info", Struct("EncryptedContentInfo")),
    Opt("certificates", Implicit(0, CertificateSet)),
    Opt("crls", Implicit(1, CertificateRevocationLists)), Req("signer_infos", SignerInfos)>>)
DigestedData == Fields(<<
    Req("version", CMSVersion), Req("digest_algorithm", Struct("DigestAlgorithm")),
    Req("encap_content_info", Any), Req("digest", OctetString)>>)
EncryptedData == Fields(<<
    Req("version", CMSVersion), Req("encrypted_content_info", Struct("EncryptedContentInfo")),
    Opt("unprotected_attrs", Implicit(1, CMSAttributes))>>)
AuthenticatedData == Fields(<<
    Req("version", CMSVersion), Opt("originator_info", Implicit(0, Struct("OriginatorInfo"))),
    Req("recipient_infos", RecipientInfos), Req("mac_algorithm", Struct("HmacAlgorithm")),
    Opt("digest_algorithm", Implicit(1, Struct("DigestAlgorithm"))),
    Req("encap_content_info", Struct("EncapsulatedContentInfo")),
    Opt("auth_attrs", Implicit(2, CMSAttributes)), Req("mac", OctetString),
    Opt("unauth_attrs", Implicit(3, CMSAttributes))>>)
AuthEnvelopedData == Fields(<<
    Req("version", CMSVersion), Opt("originator_info", Implicit(0, Struct("OriginatorInfo"))),
    Req("recipient_infos", RecipientInfos),
    Req("auth_encrypted_content_info", Struct("EncryptedContentInfo")),
    Opt("auth_attrs", Implicit(1, CMSAttributes)), Req("mac", OctetString),
    Opt("unauth_attrs", Implicit(2, CMSAttributes))>>)
CompressionAlgorithmId == Named(ObjectIdentifier, <<"zlib">>)
CompressionAlgorithm ==
    Fields(<<Req("algorithm", CompressionAlgorithmId), Opt("parameters", Any)>>)
CompressedData == Fields(<<
    Req("version", CMSVersion), Req("compression_algorithm", Struct("CompressionAlgorithm")),
    Req("encap_content_info", Struct("EncapsulatedContentInfo"))>>)
SmimeRecipientKeyIdentifier == Fields(<<
    Req("subjectKeyIdentifier", OctetString), Opt("date", GeneralizedTime),
    Opt("other", Struct("OtherKeyAttribute"))>>)
SMIMEEncryptionKeyPreference == OneOf(<<
    Alt("issuer_and_serial_number", Implicit(0, Struct("IssuerAndSerialNumber"))),
    Alt("recipientKeyId", Implicit(1, Struct("SmimeRecipientKeyIdentifier"))),
    Alt("subjectAltKeyIdentifier", Implicit(2, Struct("PublicKeyInfo")))>>)
SMIMEEncryptionKeyPreferences == SetOf("SMIMEEncryptionKeyPreference")
SMIMECapabilityIdentifier ==
    Fields(<<Req("capability_id", EncryptionAlgorithmId), Opt("parameters", Any)>>)
SMIMECapabilites == SequenceOf("SMIMECapabilityIdentifier")
SetOfSMIMECapabilites == SetOf("SMIMECapabilites")
=============================================================================
