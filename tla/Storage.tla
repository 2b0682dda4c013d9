------------------------------- MODULE Storage -------------------------------
(***************************************************************************)
(* sdk/src/storage.ts: an upload through a PinataStorageProvider, an       *)
(* ArweaveStorageProvider, or a FallbackStorageProvider over several.  The *)
(* services and the gateways content is read back from are external: they  *)
(* fail, time out, lose an answer, or serve other content.                 *)
(***************************************************************************)
EXTENDS Naturals, Sequences, FiniteSets

CONSTANTS
    Providers,      \* FallbackStorageConfig.providers; one element: that provider alone
    Gateways        \* gateways per provider, tried in order

ASSUME StorageAssumption ==
    /\ Providers \in Seq({"pinata", "arweave"}) /\ Len(Providers) > 0
    /\ Gateways \in Nat \ {0}

VARIABLES
    skipVerification,   \* option of the upload
    configured,         \* providers whose credentials are present
    up,                 \* the upload in progress
    pinned,             \* external: providers that hold the content
    servedBy            \* external: the provider whose gateway last served the content

storageVars == <<skipVerification, configured, up, pinned, servedBy>>

Named == {Providers[i] : i \in DOMAIN Providers}

\* i: the provider being tried.  g: gateways tried for it.  attempts: failures.
Upload == [ pc : {"create", "post", "verify", "returned", "StorageError"},
            i : 1..Len(Providers), g : 0..Gateways, attempts : 0..Len(Providers),
            provider : Named \cup {""}, verified : BOOLEAN ]

StorageStart(skip, credentials) ==
    /\ skipVerification = skip /\ configured = credentials
    /\ up = [pc |-> "create", i |-> 1, g |-> 0, attempts |-> 0, provider |-> "", verified |-> FALSE]
    /\ pinned = {} /\ servedBy = ""

StorageInit == \E skip \in BOOLEAN, credentials \in SUBSET Named : StorageStart(skip, credentials)

\* The constructors: a provider needs its credentials, or creating it throws.
PinataStorageProvider == "pinata" \in Named => "pinata" \in configured
ArweaveStorageProvider == "arweave" \in Named => "arweave" \in configured

CreateProvider ==
    /\ up.pc = "create"
    /\ up' = [up EXCEPT !.pc = IF PinataStorageProvider /\ ArweaveStorageProvider
                                 THEN "post" ELSE "StorageError"]
    /\ UNCHANGED <<skipVerification, configured, pinned, servedBy>>

\* run: a provider that throws is noted and the next one tried; after the last
\* one the whole upload throws.
ProviderFails ==
    up' = IF up.i < Len(Providers)
            THEN [up EXCEPT !.pc = "post", !.i = @ + 1, !.g = 0, !.attempts = @ + 1]
            ELSE [up EXCEPT !.pc = "StorageError", !.attempts = @ + 1]

UploadReturns(verified) == up' = [up EXCEPT !.pc = "returned", !.provider = Providers[up.i],
                                      !.verified = verified]

\* uploadBuffer posts the content and is answered with its identifier.
Posted ==
    /\ up.pc = "post"
    /\ pinned' = pinned \cup {Providers[up.i]}
    /\ IF skipVerification THEN UploadReturns(FALSE) ELSE up' = [up EXCEPT !.pc = "verify"]
    /\ UNCHANGED <<skipVerification, configured, servedBy>>

\* The post is refused, is answered without an identifier, or throws; the
\* service may hold the content when only the answer was lost.
PostFails ==
    /\ up.pc = "post"
    /\ pinned' \in {pinned, pinned \cup {Providers[up.i]}}
    /\ ProviderFails
    /\ UNCHANGED <<skipVerification, configured, servedBy>>

\* fetchWithFallback: a gateway that does not answer, not in time or not with a
\* good status is passed over; after the last one verifyUpload throws.
GatewayFails ==
    /\ up.pc = "verify"
    /\ IF up.g + 1 < Gateways THEN up' = [up EXCEPT !.g = @ + 1] ELSE ProviderFails
    /\ UNCHANGED <<skipVerification, configured, pinned, servedBy>>

\* verifyUpload: the first gateway that answers decides.
GatewayServesContent ==
    /\ up.pc = "verify"
    /\ servedBy' = Providers[up.i]
    /\ UploadReturns(TRUE)
    /\ UNCHANGED <<skipVerification, configured, pinned>>

GatewayServesOther ==
    /\ up.pc = "verify"
    /\ ProviderFails
    /\ UNCHANGED <<skipVerification, configured, pinned, servedBy>>

StorageNext == \/ CreateProvider \/ Posted \/ PostFails
               \/ GatewayFails \/ GatewayServesContent \/ GatewayServesOther

StorageTypeOK ==
    /\ skipVerification \in BOOLEAN /\ configured \subseteq Named
    /\ up \in Upload /\ pinned \subseteq Named /\ servedBy \in Named \cup {""}

-----------------------------------------------------------------------------
\* An upload that returns names a provider that holds the content and, unless
\* verification was skipped, one whose own gateway served it back, also when
\* earlier providers took the content and failed later; and one that throws has
\* tried every provider.  The hazard is a fallback that reports the provider it
\* started with, or one that stops early.
UploadIsBacked ==
    /\ up.pc = "returned" => /\ up.provider \in pinned
                             /\ up.verified <=> ~skipVerification
                             /\ up.verified => servedBy = up.provider
    /\ up.pc = "StorageError" /\ configured = Named => up.attempts = Len(Providers)
=============================================================================
