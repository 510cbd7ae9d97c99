----------------------------- MODULE PkixSchema -----------------------------
(***************************************************************************)
(* The structures of the smaller asn1crypto modules: OCSP, revocation      *)
(* lists, signing requests, time stamps, PKCS 12 and PDF. Each definition  *)
(* carries the name of its class; where two classes share a name, that of  *)
(* their module comes first.                                               *)
(***************************************************************************)
EXTENDS CmsSchema


(* ocsp.py: online status requests and responses                           *)
OcspVersion == Named(Integer, <<"v1">>)
OcspCertId == Fields(<<
    Req("hash_algorithm", Struct("DigestAlgorithm")), Req("issuer_name_hash", OctetString),
    Req("issuer_key_hash", OctetString), Req("serial_number", Integer)>>)
ServiceLocator == Fields(<<Req("issuer", Name), Req("locator", AuthorityInfoAccessSyntax)>>)
RequestExtensionId == Named(ObjectIdentifier, <<"service_locator">>)
RequestExtension == Paired("extn_id", "extn_value", <<
    Req("extn_id", RequestExtensionId), Def("critical", Boolean),
    Req("extn_value", ParsableOctetString)>>,
    [service_locator |-> Struct("ServiceLocator")])
RequestExtensions == SequenceOf("RequestExtension")
Request == Fields(<<
    Req("req_cert", Struct("OcspCertId")),
    Opt("single_request_extensions", Explicit(0, RequestExtensions))>>)
Requests == SequenceOf("Request")
ResponseType == Named(ObjectIdentifier, <<"basic_ocsp_response">>)
AcceptableResponses == SequenceOf("ResponseType")
PreferredSignatureAlgorithm == Fields(<<
    Req("sig_identifier", Struct("SignedDigestAlgorithm")), Opt("cert_identifier",
    Struct("PublicKeyAlgorithm"))>>)
PreferredSignatureAlgorithms == SequenceOf("PreferredSignatureAlgorithm")
TBSRequestExtensionId ==
    Named(ObjectIdentifier, <<"nonce", "acceptable_responses", "preferred_signature_algorithms">>)
TBSRequestExtension == Paired("extn_id", "extn_value", <<
    Req("extn_id", TBSRequestExtensionId), Def("critical", Boolean),
    Req("extn_value", ParsableOctetString)>>,
    [
        nonce |-> OctetString, acceptable_responses |-> AcceptableResponses,
        preferred_signature_algorithms |-> PreferredSignatureAlgorithms])
TBSRequestExtensions == SequenceOf("TBSRequestExtension")
TBSRequest == Fields(<<
    Def("version", Explicit(0, OcspVersion)), Opt("requestor_name", Explicit(1, GeneralName)),
    Req("request_list", Requests),
    Opt("request_extensions", Explicit(2, TBSRequestExtensions))>>)
Certificates == SequenceOf("Certificate")
Signature == Fields(<<
    Req("signature_algorithm", Struct("SignedDigestAlgorithm")), Req("signature", OctetBitString),
    Opt("certs", Explicit(0, Certificates))>>)
OCSPRequest ==
    Fields(<<Req("tbs_request", Struct("TBSRequest")), Opt("optional_signature", Explicit(0,
    Struct("Signature")))>>)
OCSPResponseStatus == Named(Enumerated, <<
    "successful", "malformed_request", "internal_error", "try_later", "sign_required",
    "unauthorized">>)
ResponderId ==
    OneOf(<<Alt("by_name", Explicit(1, Name)), Alt("by_key", Explicit(2, OctetString))>>)
StatusGood == Null
StatusUnknown == Null
RevokedInfo == Fields(<<
    Req("revocation_time", GeneralizedTime), Opt("revocation_reason", Explicit(0, Enumerated))>>)
CertStatus == OneOf(<<
    Alt("good", Implicit(0, StatusGood)), Alt("revoked", Implicit(1, Struct("RevokedInfo"))),
    Alt("unknown", Implicit(2, StatusUnknown))>>)
CrlId == Fields(<<
    Opt("crl_url", Explicit(0, IA5String)), Opt("crl_num", Explicit(1, Integer)),
    Opt("crl_time", Explicit(2, GeneralizedTime))>>)
SingleResponseExtensionId == Named(ObjectIdentifier, <<
    "crl", "archive_cutoff", "crl_reason", "invalidity_date", "certificate_issuer",
    "signed_certificate_timestamp_list">>)
SingleResponseExtension == Paired("extn_id", "extn_value", <<
    Req("extn_id", SingleResponseExtensionId), Def("critical", Boolean),
    Req("extn_value", ParsableOctetString)>>,
    [
        crl |-> Struct("CrlId"), archive_cutoff |-> GeneralizedTime, crl_reason |-> Enumerated,
        invalidity_date |-> GeneralizedTime, certificate_issuer |-> GeneralNames,
        signed_certificate_timestamp_list |-> OctetString])
SingleResponseExtensions == SequenceOf("SingleResponseExtension")
SingleResponse == Fields(<<
    Req("cert_id", Struct("OcspCertId")), Req("cert_status", CertStatus),
    Req("this_update", GeneralizedTime), Opt("next_update", Explicit(0, GeneralizedTime)),
    Opt("single_extensions", Explicit(1, SingleResponseExtensions))>>)
Responses == SequenceOf("SingleResponse")
ResponseDataExtensionId == Named(ObjectIdentifier, <<"nonce", "extended_revoke">>)
ResponseDataExtension == Paired("extn_id", "extn_value", <<
    Req("extn_id", ResponseDataExtensionId), Def("critical", Boolean),
    Req("extn_value", ParsableOctetString)>>,
    [nonce |-> OctetString, extended_revoke |-> Null])
ResponseDataExtensions == SequenceOf("ResponseDataExtension")
ResponseData == Fields(<<
    Def("version", Explicit(0, OcspVersion)), Req("responder_id", ResponderId),
    Req("produced_at", GeneralizedTime), Req("responses", Responses),
    Opt("response_extensions", Explicit(1, ResponseDataExtensions))>>)
BasicOCSPResponse == Fields(<<
    Req("tbs_response_data", Struct("ResponseData")), Req("signature_algorithm",
    Struct("SignedDigestAlgorithm")),
    Req("signature", OctetBitString), Opt("certs", Explicit(0, Certificates))>>)
ResponseBytes == Paired("response_type", "response", <<
    Req("response_type", ResponseType), Req("response", ParsableOctetString)>>,
    [basic_ocsp_response |-> Struct("BasicOCSPResponse")])
OCSPResponse == Fields(<<
    Req("response_status", OCSPResponseStatus),
    Opt("response_bytes", Explicit(0, Struct("ResponseBytes")))>>)

(* crl.py: revocation lists                                                *)
CrlVersion == Named(Integer, <<"v1", "v2", "v3">>)
IssuingDistributionPoint == Fields(<<
    Opt("distribution_point", Explicit(0, DistributionPointName)),
    Def("only_contains_user_certs", Implicit(1, Boolean)),
    Def("only_contains_ca_certs", Implicit(2, Boolean)),
    Opt("only_some_reasons", Implicit(3, ReasonFlags)),
    Def("indirect_crl", Implicit(4, Boolean)),
    Def("only_contains_attribute_certs", Implicit(5, Boolean))>>)
TBSCertListExtensionId == Named(ObjectIdentifier, <<
    "issuer_alt_name", "crl_number", "delta_crl_indicator", "issuing_distribution_point",
    "authority_key_identifier", "freshest_crl", "authority_information_access">>)
TBSCertListExtension == Paired("extn_id", "extn_value", <<
    Req("extn_id", TBSCertListExtensionId), Def("critical", Boolean),
    Req("extn_value", ParsableOctetString)>>,
    [
        issuer_alt_name |-> GeneralNames, crl_number |-> Integer,
        delta_crl_indicator |-> Integer,
        issuing_distribution_point |-> Struct("IssuingDistributionPoint"),
        authority_key_identifier |-> Struct("AuthorityKeyIdentifier"),
        freshest_crl |-> CRLDistributionPoints,
        authority_information_access |-> AuthorityInfoAccessSyntax])
TBSCertListExtensions == SequenceOf("TBSCertListExtension")
CRLReason == Named(Enumerated, <<
    "unspecified", "key_compromise", "ca_compromise", "affiliation_changed", "superseded",
    "cessation_of_operation", "certificate_hold", "remove_from_crl", "privilege_withdrawn",
    "aa_compromise">>)
CRLEntryExtensionId == Named(ObjectIdentifier, <<
    "crl_reason", "hold_instruction_code", "invalidity_date", "certificate_issuer">>)
CRLEntryExtension == Paired("extn_id", "extn_value", <<
    Req("extn_id", CRLEntryExtensionId), Def("critical", Boolean),
    Req("extn_value", ParsableOctetString)>>,
    [
        crl_reason |-> CRLReason, hold_instruction_code |-> ObjectIdentifier,
        invalidity_date |-> GeneralizedTime, certificate_issuer |-> GeneralNames])
CRLEntryExtensions == SequenceOf("CRLEntryExtension")
RevokedCertificate == Fields(<<
    Req("user_certificate", Integer), Req("revocation_date", X509Time),
    Opt("crl_entry_extensions", CRLEntryExtensions)>>)
RevokedCertificates == SequenceOf("RevokedCertificate")
TbsCertList == Fields(<<
    Opt("version", CrlVersion), Req("signature", Struct("SignedDigestAlgorithm")), Req("issuer",
    Name),
    Req("this_update", X509Time), Opt("next_update", X509Time),
    Opt("revoked_certificates", RevokedCertificates),
    Opt("crl_extensions", Explicit(0, TBSCertListExtensions))>>)
CertificateList == Fields(<<
    Req("tbs_cert_list", Struct("TbsCertList")), Req("signature_algorithm",
    Struct("SignedDigestAlgorithm")),
    Req("signature", OctetBitString)>>)

(* csr.py: signing requests                                                *)
CsrVersion == Named(Integer, <<"v1">>)
CSRAttributeType == Named(ObjectIdentifier, <<
    "challenge_password", "extended_certificate_attributes", "extension_request",
    "microsoft_enrollment_csp_provider", "microsoft_os_version",
    "microsoft_request_client_info">>)
CsrSetOfDirectoryString == SetOf("DirectoryString")
CsrAttribute == Fields(<<Req("type", ObjectIdentifier), Req("values", SetOf("Any"))>>)
SetOfAttributes == SetOf("CsrAttribute")
SetOfExtensions == SetOf("X509Extensions")
MicrosoftEnrollmentCSProvider ==
    Fields(<<Req("keyspec", Integer), Req("cspname", BMPString), Req("signature", BitString)>>)
SetOfMicrosoftEnrollmentCSProvider == SetOf("MicrosoftEnrollmentCSProvider")
MicrosoftRequestClientInfo == Fields(<<
    Req("clientid", Integer), Req("machinename", UTF8String), Req("username", UTF8String),
    Req("processname", UTF8String)>>)
SetOfMicrosoftRequestClientInfo == SetOf("MicrosoftRequestClientInfo")
CRIAttribute == Paired("type", "values", <<Req("type", CSRAttributeType), Req("values", Any)>>,
    [
        challenge_password |-> CsrSetOfDirectoryString,
        extended_certificate_attributes |-> SetOfAttributes,
        extension_request |-> SetOfExtensions,
        microsoft_enrollment_csp_provider |-> SetOfMicrosoftEnrollmentCSProvider,
        microsoft_os_version |-> CsrSetOfDirectoryString,
        microsoft_request_client_info |-> SetOfMicrosoftRequestClientInfo])
CRIAttributes == SetOf("CRIAttribute")
CertificationRequestInfo == Fields(<<
    Req("version", CsrVersion), Req("subject", Name), Req("subject_pk_info",
    Struct("PublicKeyInfo")),
    Opt("attributes", Implicit(0, CRIAttributes))>>)
CertificationRequest == Fields(<<
    Req("certification_request_info", Struct("CertificationRequestInfo")),
    Req("signature_algorithm", Struct("SignedDigestAlgorithm")), Req("signature",
    OctetBitString)>>)

(* tsp.py: time stamps                                                     *)
TspVersion == Named(Integer, <<"v0", "v1", "v2", "v3", "v4", "v5">>)
MessageImprint ==
    Fields(<<Req("hash_algorithm", Struct("DigestAlgorithm")), Req("hashed_message",
    OctetString)>>)
Accuracy == Fields(<<
    Opt("seconds", Integer), Opt("millis", Implicit(0, Integer)),
    Opt("micros", Implicit(1, Integer))>>)
TspExtension == Fields(<<
    Req("extn_id", ObjectIdentifier), Def("critical", Boolean), Req("extn_value", OctetString)>>)
TspExtensions == SequenceOf("TspExtension")
TSTInfo == Fields(<<
    Req("version", TspVersion), Req("policy", ObjectIdentifier),
    Req("message_imprint", Struct("MessageImprint")), Req("serial_number", Integer),
    Req("gen_time", GeneralizedTime), Opt("accuracy", Struct("Accuracy")), Def("ordering",
    Boolean),
    Opt("nonce", Integer), Opt("tsa", Explicit(0, GeneralName)),
    Opt("extensions", Implicit(1, TspExtensions))>>)
TimeStampReq == Fields(<<
    Req("version", TspVersion), Req("message_imprint", Struct("MessageImprint")),
    Opt("req_policy", ObjectIdentifier), Opt("nonce", Integer), Def("cert_req", Boolean),
    Opt("extensions", Implicit(0, TspExtensions))>>)
PKIStatus == Named(Integer, <<
    "granted", "granted_with_mods", "rejection", "waiting", "revocation_warning",
    "revocation_notification">>)
PKIFreeText == SequenceOf("UTF8String")
PKIFailureInfo == Named(BitString, <<
    "bad_alg", "bad_request", "bad_data_format", "time_not_available", "unaccepted_policy",
    "unaccepted_extensions", "add_info_not_available", "system_failure">>)
PKIStatusInfo == Fields(<<
    Req("status", PKIStatus), Opt("status_string", PKIFreeText),
    Opt("fail_info", PKIFailureInfo)>>)
TimeStampResp == Fields(<<Req("status", Struct("PKIStatusInfo")), Req("time_stamp_token",
    Struct("ContentInfo"))>>)
MetaData == Fields(<<
    Req("hash_protected", Boolean), Opt("file_name", UTF8String), Opt("media_type", IA5String),
    Opt("other_meta_data", X509Attributes)>>)
TimeStampAndCRL ==
    Fields(<<Req("time_stamp", Struct("EncapsulatedContentInfo")), Opt("crl",
    Struct("CertificateList"))>>)
TimeStampTokenEvidence == SequenceOf("TimeStampAndCRL")
TspDigestAlgorithms == SequenceOf("DigestAlgorithm")
EncryptionInfo ==
    Fields(<<Req("encryption_info_type", ObjectIdentifier), Req("encryption_info_value", Any)>>)
PartialHashtree == SequenceOf("OctetString")
PartialHashtrees == SequenceOf("PartialHashtree")
ArchiveTimeStamp == Fields(<<
    Opt("digest_algorithm", Implicit(0, Struct("DigestAlgorithm"))),
    Opt("attributes", Implicit(1, X509Attributes)),
    Opt("reduced_hashtree", Implicit(2, PartialHashtrees)), Req("time_stamp",
    Struct("ContentInfo"))>>)
ArchiveTimeStampSequence == SequenceOf("ArchiveTimeStamp")
EvidenceRecord == Fields(<<
    Req("version", TspVersion), Req("digest_algorithms", TspDigestAlgorithms),
    Opt("crypto_infos", Implicit(0, X509Attributes)),
    Opt("encryption_info", Implicit(1, Struct("EncryptionInfo"))),
    Req("archive_time_stamp_sequence", ArchiveTimeStampSequence)>>)
OtherEvidence == Fields(<<Req("oe_type", ObjectIdentifier), Req("oe_value", Any)>>)
Evidence == OneOf(<<
    Alt("tst_evidence", Implicit(0, TimeStampTokenEvidence)),
    Alt("ers_evidence", Implicit(1, Struct("EvidenceRecord"))),
    Alt("other_evidence", Implicit(2, Struct("OtherEvidence")))>>)
TimeStampedData == Fields(<<
    Req("version", TspVersion), Opt("data_uri", IA5String), Opt("meta_data", Struct("MetaData")),
    Opt("content", OctetString), Req("temporal_evidence", Evidence)>>)
TspIssuerSerial == Fields(<<Req("issuer", GeneralNames), Req("serial_number", Integer)>>)
ESSCertID == Fields(<<Req("cert_hash", OctetString), Opt("issuer_serial",
    Struct("TspIssuerSerial"))>>)
ESSCertIDs == SequenceOf("ESSCertID")
SigningCertificate == Fields(<<Req("certs", ESSCertIDs), Opt("policies", CertificatePolicies)>>)
SetOfSigningCertificates == SetOf("SigningCertificate")
ESSCertIDv2 == Fields(<<
    Def("hash_algorithm", Struct("DigestAlgorithm")), Req("cert_hash", OctetString),
    Opt("issuer_serial", Struct("TspIssuerSerial"))>>)
ESSCertIDv2s == SequenceOf("ESSCertIDv2")
SigningCertificateV2 ==
    Fields(<<Req("certs", ESSCertIDv2s), Opt("policies", CertificatePolicies)>>)
SetOfSigningCertificatesV2 == SetOf("SigningCertificateV2")

(* pkcs12.py: key and certificate bags                                     *)
MacData ==
    Fields(<<Req("mac", Struct("DigestInfo")), Req("mac_salt", OctetString), Def("iterations",
    Integer)>>)
Pkcs12Version == Named(Integer, <<"v3">>)
AttributeType == Named(ObjectIdentifier, <<
    "friendly_name", "local_key_id", "microsoft_local_machine_keyset", "trusted_key_usage">>)
Pkcs12SetOfAny == SetOf("Any")
SetOfBMPString == SetOf("BMPString")
Pkcs12SetOfOctetString == SetOf("OctetString")
SetOfKeyPurposeId == SetOf("KeyPurposeId")
Pkcs12Attribute == Fields(<<Req("type", AttributeType), Req("values", Any)>>)
Pkcs12Attributes == SetOf("Pkcs12Attribute")
Pfx ==
    Fields(<<Req("version", Pkcs12Version), Req("auth_safe", Struct("ContentInfo")),
    Opt("mac_data", Struct("MacData"))>>)
AuthenticatedSafe == SequenceOf("ContentInfo")
BagId == Named(ObjectIdentifier, <<
    "key_bag", "pkcs8_shrouded_key_bag", "cert_bag", "crl_bag", "secret_bag", "safe_contents">>)
Pkcs12CertId == Named(ObjectIdentifier, <<"x509", "sdsi">>)
CertBag == Paired("cert_id", "cert_value", <<
    Req("cert_id", Pkcs12CertId), Req("cert_value", Explicit(0, ParsableOctetString))>>,
    [x509 |-> Struct("Certificate")])
CrlBag == Fields(<<Req("crl_id", ObjectIdentifier), Req("crl_value", Explicit(0, OctetString))>>)
SecretBag ==
    Fields(<<Req("secret_type_id", ObjectIdentifier), Req("secret_value", Explicit(0,
    OctetString))>>)
SafeContents == SequenceOf("Sequence")
SafeBag == Paired("bag_id", "bag_value", <<
    Req("bag_id", BagId), Req("bag_value", Explicit(0, Any)),
    Opt("bag_attributes", Pkcs12Attributes)>>,
    [
        key_bag |-> Struct("PrivateKeyInfo"),
        pkcs8_shrouded_key_bag |-> Struct("EncryptedPrivateKeyInfo"),
        cert_bag |-> Struct("CertBag"), crl_bag |-> Struct("CrlBag"),
        secret_bag |-> Struct("SecretBag"),
        safe_contents |-> SafeContents])

(* pdf.py: revocation data in PDF signatures                               *)
AdobeArchiveRevInfo == Fields(<<Req("version", Integer)>>)
AdobeTimestamp ==
    Fields(<<Req("version", Integer), Req("location", GeneralName), Opt("requires_auth",
    Boolean)>>)
OtherRevInfo == Fields(<<Req("type", ObjectIdentifier), Req("value", OctetString)>>)
SequenceOfCertificateList == SequenceOf("CertificateList")
SequenceOfOCSPResponse == SequenceOf("OCSPResponse")
SequenceOfOtherRevInfo == SequenceOf("OtherRevInfo")
RevocationInfoArchival == Fields(<<
    Opt("crl", Explicit(0, SequenceOfCertificateList)),
    Opt("ocsp", Explicit(1, SequenceOfOCSPResponse)),
    Opt("other_rev_info", Explicit(2, SequenceOfOtherRevInfo))>>)
SetOfRevocationInfoArchival == SetOf("RevocationInfoArchival")
=============================================================================
