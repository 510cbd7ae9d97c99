----------------------------- MODULE X509Schema -----------------------------
(***************************************************************************)
(* The structures of asn1crypto/x509.py: names, extensions, certificates.  *)
(* Each definition carries the name of its class; where two classes share  *)
(* a name, that of their module comes first.                               *)
(***************************************************************************)
EXTENDS KeysSchema

DNSName == AlsoTagged(IA5String, {12, 19})
URI == IA5String
EmailAddress == AlsoTagged(IA5String, {12, 19})
IPAddress == OctetString
X509Attribute == Fields(<<Req("type", ObjectIdentifier), Req("values", SetOf("Any"))>>)
X509Attributes == SequenceOf("X509Attribute")
KeyUsage == Named(BitString, <<
    "digital_signature", "non_repudiation", "key_encipherment", "data_encipherment",
    "key_agreement", "key_cert_sign", "crl_sign", "encipher_only", "decipher_only">>)
PrivateKeyUsagePeriod == Fields(<<
    Opt("not_before", Implicit(0, GeneralizedTime)),
    Opt("not_after", Implicit(1, GeneralizedTime))>>)
NotReallyTeletexString == TeletexString
DirectoryString == OneOf(<<
    Alt("teletex_string", NotReallyTeletexString), Alt("printable_string", PrintableString),
    Alt("universal_string", UniversalString), Alt("utf8_string", UTF8String),
    Alt("bmp_string", BMPString), Alt("ia5_string", IA5String)>>)
NameType == Named(ObjectIdentifier, <<
    "common_name", "surname", "serial_number", "country_name", "locality_name",
    "state_or_province_name", "street_address", "organization_name", "organizational_unit_name",
    "title", "business_category", "postal_code", "telephone_number", "name", "given_name",
    "initials", "generation_qualifier", "unique_identifier", "dn_qualifier", "pseudonym",
    "organization_identifier", "tpm_manufacturer", "tpm_model", "tpm_version",
    "platform_manufacturer", "platform_model", "platform_version", "email_address",
    "incorporation_locality", "incorporation_state_or_province", "incorporation_country",
    "user_id", "domain_component", "name_distinguisher">>)
NameTypeAndValue == Paired("type", "value", <<Req("type", NameType), Req("value", Any)>>,
    [
        common_name |-> DirectoryString, surname |-> DirectoryString,
        serial_number |-> DirectoryString, country_name |-> DirectoryString,
        locality_name |-> DirectoryString, state_or_province_name |-> DirectoryString,
        street_address |-> DirectoryString, organization_name |-> DirectoryString,
        organizational_unit_name |-> DirectoryString, title |-> DirectoryString,
        business_category |-> DirectoryString, postal_code |-> DirectoryString,
        telephone_number |-> PrintableString, name |-> DirectoryString,
        given_name |-> DirectoryString, initials |-> DirectoryString,
        generation_qualifier |-> DirectoryString, unique_identifier |-> OctetBitString,
        dn_qualifier |-> DirectoryString, pseudonym |-> DirectoryString,
        email_address |-> EmailAddress, incorporation_locality |-> DirectoryString,
        incorporation_state_or_province |-> DirectoryString,
        incorporation_country |-> DirectoryString, domain_component |-> DNSName,
        name_distinguisher |-> DirectoryString, organization_identifier |-> DirectoryString,
        tpm_manufacturer |-> UTF8String, tpm_model |-> UTF8String, tpm_version |-> UTF8String,
        platform_manufacturer |-> UTF8String, platform_model |-> UTF8String,
        platform_version |-> UTF8String, user_id |-> DirectoryString])
RelativeDistinguishedName == SetOf("NameTypeAndValue")
RDNSequence == SequenceOf("RelativeDistinguishedName")
Name == OneOf(<<Alt("", RDNSequence)>>)
AnotherName == Fields(<<Req("type_id", ObjectIdentifier), Req("value", Explicit(0, Any))>>)
CountryName ==
    OneOf(<<Alt("x121_dcc_code", NumericString), Alt("iso_3166_alpha2_code", PrintableString)>>)
AdministrationDomainName ==
    OneOf(<<Alt("numeric", NumericString), Alt("printable", PrintableString)>>)
PrivateDomainName == OneOf(<<Alt("numeric", NumericString), Alt("printable", PrintableString)>>)
PersonalName == FieldSet(<<
    Req("surname", Implicit(0, PrintableString)),
    Opt("given_name", Implicit(1, PrintableString)),
    Opt("initials", Implicit(2, PrintableString)),
    Opt("generation_qualifier", Implicit(3, PrintableString))>>)
TeletexPersonalName == FieldSet(<<
    Req("surname", Implicit(0, TeletexString)), Opt("given_name", Implicit(1, TeletexString)),
    Opt("initials", Implicit(2, TeletexString)),
    Opt("generation_qualifier", Implicit(3, TeletexString))>>)
OrganizationalUnitNames == SequenceOf("PrintableString")
TeletexOrganizationalUnitNames == SequenceOf("TeletexString")
BuiltInStandardAttributes == Fields(<<
    Opt("country_name", CountryName),
    Opt("administration_domain_name", AdministrationDomainName),
    Opt("network_address", Implicit(0, NumericString)),
    Opt("terminal_identifier", Implicit(1, PrintableString)),
    Opt("private_domain_name", Explicit(2, PrivateDomainName)),
    Opt("organization_name", Implicit(3, PrintableString)),
    Opt("numeric_user_identifier", Implicit(4, NumericString)),
    Opt("personal_name", Implicit(5, StructSet("PersonalName"))),
    Opt("organizational_unit_names", Implicit(6, OrganizationalUnitNames))>>)
BuiltInDomainDefinedAttribute ==
    Fields(<<Req("type", PrintableString), Req("value", PrintableString)>>)
BuiltInDomainDefinedAttributes == SequenceOf("BuiltInDomainDefinedAttribute")
TeletexDomainDefinedAttribute ==
    Fields(<<Req("type", TeletexString), Req("value", TeletexString)>>)
TeletexDomainDefinedAttributes == SequenceOf("TeletexDomainDefinedAttribute")
PhysicalDeliveryCountryName ==
    OneOf(<<Alt("x121_dcc_code", NumericString), Alt("iso_3166_alpha2_code", PrintableString)>>)
PostalCode ==
    OneOf(<<Alt("numeric_code", NumericString), Alt("printable_code", PrintableString)>>)
PDSParameter ==
    FieldSet(<<Opt("printable_string", PrintableString), Opt("teletex_string", TeletexString)>>)
PrintableAddress == SequenceOf("PrintableString")
UnformattedPostalAddress ==
    FieldSet(<<Opt("printable_address", PrintableAddress), Opt("teletex_string", TeletexString)>>)
E1634Address == Fields(<<
    Req("number", Implicit(0, NumericString)), Opt("sub_address", Implicit(1, NumericString))>>)
NAddresses == SetOf("OctetString")
PresentationAddress == Fields(<<
    Opt("p_selector", Explicit(0, OctetString)), Opt("s_selector", Explicit(1, OctetString)),
    Opt("t_selector", Explicit(2, OctetString)), Req("n_addresses", Explicit(3, NAddresses))>>)
ExtendedNetworkAddress == OneOf(<<
    Alt("e163_4_address", Struct("E1634Address")), Alt("psap_address", Implicit(0,
    Struct("PresentationAddress")))>>)
TerminalType ==
    Named(Integer, <<"telex", "teletex", "g3_facsimile", "g4_facsimile", "ia5_terminal",
    "videotex">>)
ExtensionAttributeType == Named(Integer, <<
    "common_name", "teletex_common_name", "teletex_organization_name", "teletex_personal_name",
    "teletex_organization_unit_names", "teletex_domain_defined_attributes", "pds_name",
    "physical_delivery_country_name", "postal_code", "physical_delivery_office_name",
    "physical_delivery_office_number", "extension_of_address_components",
    "physical_delivery_personal_name", "physical_delivery_organization_name",
    "extension_physical_delivery_address_components", "unformatted_postal_address",
    "street_address", "post_office_box_address", "poste_restante_address", "unique_postal_name",
    "local_postal_attributes", "extended_network_address", "terminal_type">>)
ExtensionAttribute == Paired("extension_attribute_type", "extension_attribute_value", <<
    Req("extension_attribute_type", Implicit(0, ExtensionAttributeType)),
    Req("extension_attribute_value", Explicit(1, Any))>>,
    [
        common_name |-> PrintableString, teletex_common_name |-> TeletexString,
        teletex_organization_name |-> TeletexString,
        teletex_personal_name |-> StructSet("TeletexPersonalName"),
        teletex_organization_unit_names |-> TeletexOrganizationalUnitNames,
        teletex_domain_defined_attributes |-> TeletexDomainDefinedAttributes,
        pds_name |-> PrintableString,
        physical_delivery_country_name |-> PhysicalDeliveryCountryName,
        postal_code |-> PostalCode, physical_delivery_office_name |-> StructSet("PDSParameter"),
        physical_delivery_office_number |-> StructSet("PDSParameter"),
        extension_of_address_components |-> StructSet("PDSParameter"),
        physical_delivery_personal_name |-> StructSet("PDSParameter"),
        physical_delivery_organization_name |-> StructSet("PDSParameter"),
        extension_physical_delivery_address_components |-> StructSet("PDSParameter"),
        unformatted_postal_address |-> StructSet("UnformattedPostalAddress"),
        street_address |-> StructSet("PDSParameter"),
        post_office_box_address |-> StructSet("PDSParameter"),
        poste_restante_address |-> StructSet("PDSParameter"),
        unique_postal_name |-> StructSet("PDSParameter"),
        local_postal_attributes |-> StructSet("PDSParameter"),
        extended_network_address |-> ExtendedNetworkAddress, terminal_type |-> TerminalType])
ExtensionAttributes == SequenceOf("ExtensionAttribute")
ORAddress == Fields(<<
    Req("built_in_standard_attributes", Struct("BuiltInStandardAttributes")),
    Opt("built_in_domain_defined_attributes", BuiltInDomainDefinedAttributes),
    Opt("extension_attributes", ExtensionAttributes)>>)
EDIPartyName == Fields(<<
    Opt("name_assigner", Implicit(0, DirectoryString)),
    Req("party_name", Implicit(1, DirectoryString))>>)
GeneralName == OneOf(<<
    Alt("other_name", Implicit(0, Struct("AnotherName"))), Alt("rfc822_name", Implicit(1,
    EmailAddress)),
    Alt("dns_name", Implicit(2, DNSName)), Alt("x400_address", Implicit(3, Struct("ORAddress"))),
    Alt("directory_name", Explicit(4, Name)), Alt("edi_party_name", Implicit(5,
    Struct("EDIPartyName"))),
    Alt("uniform_resource_identifier", Implicit(6, URI)),
    Alt("ip_address", Implicit(7, IPAddress)),
    Alt("registered_id", Implicit(8, ObjectIdentifier))>>)
GeneralNames == SequenceOf("GeneralName")
X509Time == OneOf(<<Alt("utc_time", UTCTime), Alt("general_time", GeneralizedTime)>>)
Validity == Fields(<<Req("not_before", X509Time), Req("not_after", X509Time)>>)
BasicConstraints == Fields(<<Def("ca", Boolean), Opt("path_len_constraint", Integer)>>)
AuthorityKeyIdentifier == Fields(<<
    Opt("key_identifier", Implicit(0, OctetString)),
    Opt("authority_cert_issuer", Implicit(1, GeneralNames)),
    Opt("authority_cert_serial_number", Implicit(2, Integer))>>)
DistributionPointName == OneOf(<<
    Alt("full_name", Implicit(0, GeneralNames)),
    Alt("name_relative_to_crl_issuer", Implicit(1, RelativeDistinguishedName))>>)
ReasonFlags == Named(BitString, <<
    "unused", "key_compromise", "ca_compromise", "affiliation_changed", "superseded",
    "cessation_of_operation", "certificate_hold", "privilege_withdrawn", "aa_compromise">>)
GeneralSubtree == Fields(<<
    Req("base", GeneralName), Def("minimum", Implicit(0, Integer)),
    Opt("maximum", Implicit(1, Integer))>>)
GeneralSubtrees == SequenceOf("GeneralSubtree")
NameConstraints == Fields(<<
    Opt("permitted_subtrees", Implicit(0, GeneralSubtrees)),
    Opt("excluded_subtrees", Implicit(1, GeneralSubtrees))>>)
DistributionPoint == Fields(<<
    Opt("distribution_point", Explicit(0, DistributionPointName)),
    Opt("reasons", Implicit(1, ReasonFlags)), Opt("crl_issuer", Implicit(2, GeneralNames))>>)
CRLDistributionPoints == SequenceOf("DistributionPoint")
DisplayText == OneOf(<<
    Alt("ia5_string", IA5String), Alt("visible_string", VisibleString),
    Alt("bmp_string", BMPString), Alt("utf8_string", UTF8String)>>)
NoticeNumbers == SequenceOf("Integer")
NoticeReference ==
    Fields(<<Req("organization", DisplayText), Req("notice_numbers", NoticeNumbers)>>)
UserNotice == Fields(<<Opt("notice_ref", Struct("NoticeReference")), Opt("explicit_text",
    DisplayText)>>)
PolicyQualifierId ==
    Named(ObjectIdentifier, <<"certification_practice_statement", "user_notice">>)
PolicyQualifierInfo == Paired("policy_qualifier_id", "qualifier", <<
    Req("policy_qualifier_id", PolicyQualifierId), Req("qualifier", Any)>>,
    [certification_practice_statement |-> IA5String, user_notice |-> Struct("UserNotice")])
PolicyQualifierInfos == SequenceOf("PolicyQualifierInfo")
PolicyIdentifier == Named(ObjectIdentifier, <<"any_policy">>)
PolicyInformation == Fields(<<
    Req("policy_identifier", PolicyIdentifier), Opt("policy_qualifiers", PolicyQualifierInfos)>>)
CertificatePolicies == SequenceOf("PolicyInformation")
PolicyMapping == Fields(<<
    Req("issuer_domain_policy", PolicyIdentifier),
    Req("subject_domain_policy", PolicyIdentifier)>>)
PolicyMappings == SequenceOf("PolicyMapping")
PolicyConstraints == Fields(<<
    Opt("require_explicit_policy", Implicit(0, Integer)),
    Opt("inhibit_policy_mapping", Implicit(1, Integer))>>)
KeyPurposeId == Named(ObjectIdentifier, <<
    "any_extended_key_usage", "server_auth", "client_auth", "code_signing", "email_protection",
    "ipsec_end_system", "ipsec_tunnel", "ipsec_user", "time_stamping", "ocsp_signing", "dvcs",
    "eap_over_ppp", "eap_over_lan", "scvp_server", "scvp_client", "ipsec_ike", "capwap_ac",
    "capwap_wtp", "sip_domain", "secure_shell_client", "secure_shell_server", "send_router",
    "send_proxied_router", "send_owner", "send_proxied_owner", "cmc_ca", "cmc_ra", "cmc_archive",
    "bgpspec_router", "ike_intermediate", "microsoft_trust_list_signing",
    "microsoft_time_stamp_signing", "microsoft_server_gated", "microsoft_serialized",
    "microsoft_efs", "microsoft_efs_recovery", "microsoft_whql", "microsoft_nt5",
    "microsoft_oem_whql", "microsoft_embedded_nt", "microsoft_root_list_signer",
    "microsoft_qualified_subordination", "microsoft_key_recovery", "microsoft_document_signing",
    "microsoft_lifetime_signing", "microsoft_mobile_device_software",
    "microsoft_smart_card_logon", "apple_x509_basic", "apple_ssl", "apple_local_cert_gen",
    "apple_csr_gen", "apple_revocation_crl", "apple_revocation_ocsp", "apple_smime", "apple_eap",
    "apple_software_update_signing", "apple_ipsec", "apple_ichat", "apple_resource_signing",
    "apple_pkinit_client", "apple_pkinit_server", "apple_code_signing", "apple_package_signing",
    "apple_id_validation", "apple_time_stamping", "apple_revocation", "apple_passbook_signing",
    "apple_mobile_store", "apple_escrow_service", "apple_profile_signer",
    "apple_qa_profile_signer", "apple_test_mobile_store", "apple_otapki_signer",
    "apple_test_otapki_signer", "apple_id_validation_record_signing_policy",
    "apple_smp_encryption", "apple_test_smp_encryption", "apple_server_authentication",
    "apple_pcs_escrow_service", "piv_card_authentication", "piv_content_signing",
    "pkinit_kpclientauth", "pkinit_kpkdc", "pdf_signing", "fpki_pivi_content_signing">>)
ExtKeyUsageSyntax == SequenceOf("KeyPurposeId")
AccessMethod ==
    Named(ObjectIdentifier, <<"ocsp", "ca_issuers", "time_stamping", "ca_repository">>)
AccessDescription ==
    Fields(<<Req("access_method", AccessMethod), Req("access_location", GeneralName)>>)
AuthorityInfoAccessSyntax == SequenceOf("AccessDescription")
SubjectInfoAccessSyntax == SequenceOf("AccessDescription")
Features == SequenceOf("Integer")
EntrustVersionInfo ==
    Fields(<<Req("entrust_vers", GeneralString), Req("entrust_info_flags", BitString)>>)
NetscapeCertificateType == Named(BitString, <<
    "ssl_client", "ssl_server", "email", "object_signing", "reserved", "ssl_ca", "email_ca",
    "object_signing_ca">>)
X509Version == Named(Integer, <<"v1", "v2", "v3">>)
TPMSpecification ==
    Fields(<<Req("family", UTF8String), Req("level", Integer), Req("revision", Integer)>>)
SetOfTPMSpecification == SetOf("TPMSpecification")
TCGSpecificationVersion ==
    Fields(<<Req("major_version", Integer), Req("minor_version", Integer), Req("revision",
    Integer)>>)
TCGPlatformSpecification ==
    Fields(<<Req("version", Struct("TCGSpecificationVersion")), Req("platform_class",
    OctetString)>>)
SetOfTCGPlatformSpecification == SetOf("TCGPlatformSpecification")
EKGenerationType ==
    Named(Enumerated, <<"internal", "injected", "internal_revocable", "injected_revocable">>)
EKGenerationLocation ==
    Named(Enumerated, <<"tpm_manufacturer", "platform_manufacturer", "ek_cert_signer">>)
EKCertificateGenerationLocation ==
    Named(Enumerated, <<"tpm_manufacturer", "platform_manufacturer", "ek_cert_signer">>)
EvaluationAssuranceLevel ==
    Named(Enumerated, <<"level1", "level2", "level3", "level4", "level5", "level6", "level7">>)
EvaluationStatus ==
    Named(Enumerated, <<"designed_to_meet", "evaluation_in_progress", "evaluation_completed">>)
StrengthOfFunction == Named(Enumerated, <<"basic", "medium", "high">>)
URIReference == Fields(<<
    Req("uniform_resource_identifier", IA5String), Opt("hash_algorithm",
    Struct("DigestAlgorithm")),
    Opt("hash_value", BitString)>>)
CommonCriteriaMeasures == Fields(<<
    Req("version", IA5String), Req("assurance_level", EvaluationAssuranceLevel),
    Req("evaluation_status", EvaluationStatus), Def("plus", Boolean),
    Opt("strengh_of_function", Implicit(0, StrengthOfFunction)),
    Opt("profile_oid", Implicit(1, ObjectIdentifier)),
    Opt("profile_url", Implicit(2, Struct("URIReference"))),
    Opt("target_oid", Implicit(3, ObjectIdentifier)),
    Opt("target_uri", Implicit(4, Struct("URIReference")))>>)
SecurityLevel == Named(Enumerated, <<"level1", "level2", "level3", "level4">>)
FIPSLevel ==
    Fields(<<Req("version", IA5String), Req("level", SecurityLevel), Def("plus", Boolean)>>)
TPMSecurityAssertions == Fields(<<
    Def("version", X509Version), Def("field_upgradable", Boolean),
    Opt("ek_generation_type", Implicit(0, EKGenerationType)),
    Opt("ek_generation_location", Implicit(1, EKGenerationLocation)),
    Opt("ek_certificate_generation_location", Implicit(2, EKCertificateGenerationLocation)),
    Opt("cc_info", Implicit(3, Struct("CommonCriteriaMeasures"))),
    Opt("fips_level", Implicit(4, Struct("FIPSLevel"))), Def("iso_9000_certified", Implicit(5,
    Boolean)),
    Opt("iso_9000_uri", IA5String)>>)
SetOfTPMSecurityAssertions == SetOf("TPMSecurityAssertions")
SubjectDirectoryAttributeId == Named(ObjectIdentifier, <<
    "supported_algorithms", "tpm_specification", "tcg_platform_specification",
    "tpm_security_assertions", "pda_date_of_birth", "pda_place_of_birth", "pda_gender",
    "pda_country_of_citizenship", "pda_country_of_residence", "entrust_user_role">>)
SetOfGeneralizedTime == SetOf("GeneralizedTime")
X509SetOfDirectoryString == SetOf("DirectoryString")
SetOfPrintableString == SetOf("PrintableString")
SupportedAlgorithm == Fields(<<
    Req("algorithm_identifier", Struct("AnyAlgorithmIdentifier")),
    Opt("intended_usage", Explicit(0, KeyUsage)),
    Opt("intended_certificate_policies", Explicit(1, CertificatePolicies))>>)
SetOfSupportedAlgorithm == SetOf("SupportedAlgorithm")
SubjectDirectoryAttribute == Paired("type", "values", <<Req("type",
    SubjectDirectoryAttributeId), Req("values", Any)>>,
    [
        supported_algorithms |-> SetOfSupportedAlgorithm,
        tpm_specification |-> SetOfTPMSpecification,
        tcg_platform_specification |-> SetOfTCGPlatformSpecification,
        tpm_security_assertions |-> SetOfTPMSecurityAssertions,
        pda_date_of_birth |-> SetOfGeneralizedTime,
        pda_place_of_birth |-> X509SetOfDirectoryString, pda_gender |-> SetOfPrintableString,
        pda_country_of_citizenship |-> SetOfPrintableString,
        pda_country_of_residence |-> SetOfPrintableString,
        another |-> Set])   \* _values_spec: what is not in _oid_specs
SubjectDirectoryAttributes == SequenceOf("SubjectDirectoryAttribute")
ExtensionId == Named(ObjectIdentifier, <<
    "subject_directory_attributes", "key_identifier", "key_usage", "private_key_usage_period",
    "subject_alt_name", "issuer_alt_name", "basic_constraints", "name_constraints",
    "crl_distribution_points", "certificate_policies", "policy_mappings",
    "authority_key_identifier", "policy_constraints", "extended_key_usage", "freshest_crl",
    "inhibit_any_policy", "authority_information_access", "subject_information_access",
    "tls_feature", "ocsp_no_check", "entrust_version_extension", "netscape_certificate_type",
    "signed_certificate_timestamp_list", "microsoft_enroll_certtype", "adobe_archive_rev_info",
    "adobe_timestamp", "adobe_ppklite_credential">>)
X509Extension == Paired("extn_id", "extn_value", <<
    Req("extn_id", ExtensionId), Def("critical", Boolean),
    Req("extn_value", ParsableOctetString)>>,
    [
        subject_directory_attributes |-> SubjectDirectoryAttributes,
        key_identifier |-> OctetString, key_usage |-> KeyUsage,
        private_key_usage_period |-> Struct("PrivateKeyUsagePeriod"),
        subject_alt_name |-> GeneralNames,
        issuer_alt_name |-> GeneralNames, basic_constraints |-> Struct("BasicConstraints"),
        name_constraints |-> Struct("NameConstraints"),
        crl_distribution_points |-> CRLDistributionPoints,
        certificate_policies |-> CertificatePolicies, policy_mappings |-> PolicyMappings,
        authority_key_identifier |-> Struct("AuthorityKeyIdentifier"),
        policy_constraints |-> Struct("PolicyConstraints"),
        extended_key_usage |-> ExtKeyUsageSyntax,
        freshest_crl |-> CRLDistributionPoints, inhibit_any_policy |-> Integer,
        authority_information_access |-> AuthorityInfoAccessSyntax,
        subject_information_access |-> SubjectInfoAccessSyntax, tls_feature |-> Features,
        ocsp_no_check |-> Null, entrust_version_extension |-> Struct("EntrustVersionInfo"),
        netscape_certificate_type |-> NetscapeCertificateType,
        signed_certificate_timestamp_list |-> OctetString,
        microsoft_enroll_certtype |-> BMPString, adobe_archive_rev_info |-> Sequence,
        adobe_timestamp |-> Sequence, adobe_ppklite_credential |-> Null])
X509Extensions == SequenceOf("X509Extension")
TbsCertificate == Fields(<<
    Def("version", Explicit(0, X509Version)), Req("serial_number", Integer),
    Req("signature", Struct("SignedDigestAlgorithm")), Req("issuer", Name), Req("validity",
    Struct("Validity")),
    Req("subject", Name), Req("subject_public_key_info", Struct("PublicKeyInfo")),
    Opt("issuer_unique_id", Implicit(1, OctetBitString)),
    Opt("subject_unique_id", Implicit(2, OctetBitString)),
    Opt("extensions", Explicit(3, X509Extensions))>>)
Certificate == Fields(<<
    Req("tbs_certificate", Struct("TbsCertificate")), Req("signature_algorithm",
    Struct("SignedDigestAlgorithm")),
    Req("signature_value", OctetBitString)>>)
KeyPurposeIdentifiers == SequenceOf("KeyPurposeId")
SequenceOfAlgorithmIdentifiers == SequenceOf("AlgorithmIdentifier")
CertificateAux == Fields(<<
    Opt("trust", KeyPurposeIdentifiers), Opt("reject", Implicit(0, KeyPurposeIdentifiers)),
    Opt("alias", UTF8String), Opt("keyid", OctetString),
    Opt("other", Implicit(1, SequenceOfAlgorithmIdentifiers))>>)
=============================================================================
