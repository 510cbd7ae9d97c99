--------------------------- MODULE MCFieldDecoder ---------------------------
(* Every structure, choice and table of names of asn1crypto as one catalogue. *)
EXTENDS FieldDecoder, PkixSchema

AllTypes == <<
    AlgorithmIdentifier, HmacAlgorithmId, HmacAlgorithm, DigestAlgorithmId, DigestAlgorithm,
    DigestInfo, MaskGenAlgorithmId, MaskGenAlgorithm, TrailerField, RSASSAPSSParams,
    SignedDigestAlgorithmId, SignedDigestAlgorithm, Pbkdf2Salt, Pbkdf2Params,
    KdfAlgorithmId, KdfAlgorithm, DHParameters, KeyExchangeAlgorithmId,
    KeyExchangeAlgorithm, Rc2Params, Rc5ParamVersion, Rc5Params, Pbes1Params, CcmParams,
    PSourceAlgorithmId, PSourceAlgorithm, RSAESOAEPParams, DSASignature,
    EncryptionAlgorithmId, EncryptionAlgorithm, Pbes2Params, Pbmac1Params, Pkcs5MacId,
    Pkcs5MacAlgorithm, AnyAlgorithmIdentifier, OtherPrimeInfo, RSAPrivateKeyVersion,
    RSAPrivateKey, RSAPublicKey, DSAPrivateKey, SpecifiedECDomainVersion, FieldType,
    CharacteristicTwoBasis, Pentanomial, CharacteristicTwo, FieldID, Curve,
    SpecifiedECDomain, NamedCurve, ECDomainParameters, ECPrivateKeyVersion, ECPrivateKey,
    DSAParams, KeysAttribute, PrivateKeyAlgorithmId, PrivateKeyAlgorithm, PrivateKeyInfo,
    EncryptedPrivateKeyInfo, ValidationParms, DomainParameters, PublicKeyAlgorithmId,
    PublicKeyAlgorithm, PublicKeyInfo, X509Attribute, KeyUsage, PrivateKeyUsagePeriod,
    DirectoryString, NameType, NameTypeAndValue, Name, AnotherName, CountryName,
    AdministrationDomainName, PrivateDomainName, PersonalName, TeletexPersonalName,
    BuiltInStandardAttributes, BuiltInDomainDefinedAttribute, TeletexDomainDefinedAttribute,
    PhysicalDeliveryCountryName, PostalCode, PDSParameter, UnformattedPostalAddress,
    E1634Address, PresentationAddress, ExtendedNetworkAddress, TerminalType,
    ExtensionAttributeType, ExtensionAttribute, ORAddress, EDIPartyName, GeneralName,
    X509Time, Validity, BasicConstraints, AuthorityKeyIdentifier, DistributionPointName,
    ReasonFlags, GeneralSubtree, NameConstraints, DistributionPoint, DisplayText,
    NoticeReference, UserNotice, PolicyQualifierId, PolicyQualifierInfo, PolicyIdentifier,
    PolicyInformation, PolicyMapping, PolicyConstraints, KeyPurposeId, AccessMethod,
    AccessDescription, EntrustVersionInfo, NetscapeCertificateType, X509Version,
    TPMSpecification, TCGSpecificationVersion, TCGPlatformSpecification, EKGenerationType,
    EKGenerationLocation, EKCertificateGenerationLocation, EvaluationAssuranceLevel,
    EvaluationStatus, StrengthOfFunction, URIReference, CommonCriteriaMeasures,
    SecurityLevel, FIPSLevel, TPMSecurityAssertions, SubjectDirectoryAttributeId,
    SupportedAlgorithm, SubjectDirectoryAttribute, ExtensionId, X509Extension,
    TbsCertificate, Certificate, CertificateAux, ExtendedCertificateInfo,
    ExtendedCertificate, CMSVersion, CMSAttributeType, CmsTime, ContentType,
    CMSAlgorithmProtection, CMSAttribute, CmsIssuerSerial, AttCertVersion, AttCertSubject,
    AttCertValidityPeriod, AttributeCertificateInfoV1, AttributeCertificateV1,
    DigestedObjectType, ObjectDigestInfo, Holder, V2Form, AttCertIssuer, IetfAttrValue,
    IetfAttrSyntax, SvceAuthInfo, RoleSyntax, ClassList, SecurityCategory, Clearance,
    BigTime, LeapData, TimingMetrics, TimingPolicy, AttCertAttributeType, AttCertAttribute,
    AttributeCertificateInfoV2, AttributeCertificateV2, OtherCertificateFormat,
    CertificateChoices, ContentInfo, EncapsulatedContentInfo, IssuerAndSerialNumber,
    SignerIdentifier, SCVPReqRes, OtherRevInfoFormatId, OtherRevocationInfoFormat,
    RevocationInfoChoice, SignerInfo, SignedData, OriginatorInfo, RecipientIdentifier,
    KeyEncryptionAlgorithmId, KeyEncryptionAlgorithm, KeyTransRecipientInfo,
    OriginatorIdentifierOrKey, OtherKeyAttribute, RecipientKeyIdentifier,
    KeyAgreementRecipientIdentifier, RecipientEncryptedKey, KeyAgreeRecipientInfo,
    KEKIdentifier, KEKRecipientInfo, PasswordRecipientInfo, OtherRecipientInfo,
    RecipientInfo, EncryptedContentInfo, EnvelopedData, SignedAndEnvelopedData,
    DigestedData, EncryptedData, AuthenticatedData, AuthEnvelopedData,
    CompressionAlgorithmId, CompressionAlgorithm, CompressedData,
    SmimeRecipientKeyIdentifier, SMIMEEncryptionKeyPreference, SMIMECapabilityIdentifier,
    OcspVersion, OcspCertId, ServiceLocator, RequestExtensionId, RequestExtension, Request,
    ResponseType, PreferredSignatureAlgorithm, TBSRequestExtensionId, TBSRequestExtension,
    TBSRequest, Signature, OCSPRequest, OCSPResponseStatus, ResponderId, RevokedInfo,
    CertStatus, CrlId, SingleResponseExtensionId, SingleResponseExtension, SingleResponse,
    ResponseDataExtensionId, ResponseDataExtension, ResponseData, BasicOCSPResponse,
    ResponseBytes, OCSPResponse, CrlVersion, IssuingDistributionPoint,
    TBSCertListExtensionId, TBSCertListExtension, CRLReason, CRLEntryExtensionId,
    CRLEntryExtension, RevokedCertificate, TbsCertList, CertificateList, CsrVersion,
    CSRAttributeType, CsrAttribute, MicrosoftEnrollmentCSProvider,
    MicrosoftRequestClientInfo, CRIAttribute, CertificationRequestInfo,
    CertificationRequest, TspVersion, MessageImprint, Accuracy, TspExtension, TSTInfo,
    TimeStampReq, PKIStatus, PKIFailureInfo, PKIStatusInfo, TimeStampResp, MetaData,
    TimeStampAndCRL, EncryptionInfo, ArchiveTimeStamp, EvidenceRecord, OtherEvidence,
    Evidence, TimeStampedData, TspIssuerSerial, ESSCertID, SigningCertificate, ESSCertIDv2,
    SigningCertificateV2, MacData, Pkcs12Version, AttributeType, Pkcs12Attribute, Pfx,
    BagId, Pkcs12CertId, CertBag, CrlBag, SecretBag, SafeBag, AdobeArchiveRevInfo,
    AdobeTimestamp, OtherRevInfo, RevocationInfoArchival>>

(* Fields of the types known not to read back: see the README.             *)
Unclear == {"administration_domain_name", "built_in_standard_attributes"}

AllDamages == {"none", "lost", "doubled", "swapped", "slipped in"}
StrayIds == {<<0, 5>>}
UntypedIds == {<<0, 4>>, <<0, 16>>}
=============================================================================
