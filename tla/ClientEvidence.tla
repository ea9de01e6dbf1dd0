---------------------------- MODULE ClientEvidence ----------------------------
(***************************************************************************)
(* What a signer's device says of itself and of where it is, on its way    *)
(* into the evidence of a signature: the browser and the phone collect it, *)
(* the route of the signature accepts or refuses it as a whole, and the    *)
(* API adds the address.  A text is as long as a number of characters; a   *)
(* coordinate is there or not.                                             *)
(***************************************************************************)
EXTENDS Integers, FiniteSetsExt

CONSTANTS
  Lengths,  \* bound: how long a text of a device may be
  Nothing   \* null, or not sent

ASSUME ClientEvidenceAssumption == Lengths \subseteq Nat

VARIABLES
  client,    \* "portal", "phone", or "old": one that sends no evidence
  geocoding, \* REVERSE_GEOCODING_ENABLED
  device,    \* what collectDevice has found
  place,     \* what collectLocation has found
  verdict,   \* of clientSignatureEvidenceSchema
  recorded   \* what the evidence of the signature says of the place

clientVars == <<client, geocoding, device, place, verdict, recorded>>

----------------------------------------------------------------------------
DeviceTypes == {"DESKTOP", "PHONE", "TABLET", "UNKNOWN"}

\* As in the schema: text stands for the twelve texts of at most 180.
TextMax == 180
LanguageMax == 40
TimezoneMax == 80
UserAgentMax == 500
MessageMax == 240

\* None is longer than it was found, or than what the clients write themselves.
Text == {n \in Nat : \E m \in Lengths \cup {46} : n <= m} \cup {Nothing}

Device ==
  [type : DeviceTypes, text : Text, language : Text, timezone : Text,
   userAgent : Text]

LocationStatus ==
  {"CAPTURED", "DENIED", "UNAVAILABLE", "TIMEOUT", "ERROR", "UNSUPPORTED"}

Place ==
  [status : LocationStatus, permission : {"granted", "denied", "prompt", "unknown"},
   coordinates : BOOLEAN, errorCode : 0 .. 3 \cup {Nothing}, errorMessage : Text]

Recorded ==
  [status : LocationStatus, coordinates : BOOLEAN, address : BOOLEAN,
   geocodingStatus : {"NOT_REQUESTED", "DISABLED", "RESOLVED", "FAILED"}]

ClientTypeOK ==
  /\ client \in {"portal", "phone", "old"}
  /\ geocoding \in BOOLEAN
  /\ device \in Device \cup {Nothing}
  /\ place \in Place \cup {Nothing}
  /\ verdict \in {"NONE", "ACCEPTED", "REFUSED"}
  /\ recorded \in Recorded \cup {Nothing}

ClientInit ==
  /\ client \in {"portal", "phone", "old"}
  /\ geocoding \in BOOLEAN
  /\ device = Nothing /\ place = Nothing
  /\ verdict = "NONE" /\ recorded = Nothing

----------------------------------------------------------------------------
(* The portal.  collectDevice and collectLocation run side by side.        *)

\* Mutant: nothing is cut.
ClipTrimmedOnly(n, max) == IF n = 0 THEN Nothing ELSE n

\* Trimmed, cut, and null when nothing is left.
Clip(n, max) == IF n = 0 THEN Nothing ELSE Min({n, max})

\* ua: what the expressions find in the user agent.
GuessDeviceType(ua, mobileHint) ==
  CASE ua = "tablet" -> "TABLET"
    [] ua # "tablet" /\ (mobileHint \/ ua = "mobile") -> "PHONE"
    [] ua = "other" /\ ~mobileHint -> "DESKTOP"
    [] OTHER -> "UNKNOWN"

\* What the native shell says of the type goes before what is guessed.
PortalType(native, ua, mobileHint) ==
  IF native \in DeviceTypes \ {"UNKNOWN"} THEN native
  ELSE GuessDeviceType(ua, mobileHint)

PortalDevice ==
  /\ client = "portal" /\ device = Nothing
  /\ \E native \in DeviceTypes, ua \in {"", "tablet", "mobile", "other"},
        mobileHint \in BOOLEAN, n \in Lengths :
       device' = [type |-> PortalType(native, ua, mobileHint),
                  text |-> Clip(n, 180), language |-> Clip(n, 40),
                  timezone |-> Clip(n, 80),
                  userAgent |-> IF ua = "" THEN Nothing ELSE Clip(n, 500)]
  /\ UNCHANGED <<client, geocoding, place, verdict, recorded>>

NoPlace(status, permission, code, message) ==
  [status |-> status, permission |-> permission, coordinates |-> FALSE,
   errorCode |-> code, errorMessage |-> message]

Captured ==
  [status |-> "CAPTURED", permission |-> "granted", coordinates |-> TRUE,
   errorCode |-> Nothing, errorMessage |-> Nothing]

StatusOfError(code) ==
  CASE code = 1 -> "DENIED" [] code = 2 -> "UNAVAILABLE" [] code = 3 -> "TIMEOUT"
    [] OTHER -> "ERROR"

\* permissionState, then getCurrentPosition with its two callbacks.
PortalPlace ==
  /\ client = "portal" /\ place = Nothing
  /\ \E permission \in {"granted", "denied", "prompt", "unknown"} :
       place' \in
         {NoPlace("UNSUPPORTED", permission, Nothing, 46), Captured}
         \cup {NoPlace(StatusOfError(code),
                       IF code = 1 THEN "denied" ELSE permission,
                       code, Clip(n, 240)) : code \in 0 .. 3, n \in Lengths}
  /\ UNCHANGED <<client, geocoding, device, verdict, recorded>>

----------------------------------------------------------------------------
(* The phone.                                                              *)

\* A position, now or of the last two minutes, or why there is none.
PhoneOutcome(found, timedOut) ==
  IF found THEN Captured
  ELSE NoPlace(IF timedOut THEN "TIMEOUT" ELSE "UNAVAILABLE", "granted",
               Nothing, Nothing)

\* The message of an error is sent as it is.
PhonePlace ==
  /\ client = "phone" /\ place = Nothing
  /\ place' \in
       {NoPlace("DENIED", p, Nothing, Nothing) : p \in {"denied", "unknown"}}
       \cup {PhoneOutcome(found, timedOut) : found, timedOut \in BOOLEAN}
       \cup {NoPlace("ERROR", "unknown", Nothing, n) : n \in Lengths}
  /\ UNCHANGED <<client, geocoding, device, verdict, recorded>>

\* What the hardware and the application call themselves is short.
PhoneDevice ==
  /\ client = "phone" /\ place # Nothing /\ device = Nothing
  /\ \E type \in {"PHONE", "TABLET", "UNKNOWN"} :
       device' = [type |-> type, text |-> 10, language |-> 5, timezone |-> 20,
                  userAgent |-> 22]
  /\ UNCHANGED <<client, geocoding, place, verdict, recorded>>

----------------------------------------------------------------------------
(* The API.                                                                *)

Within(n, max) == n = Nothing \/ n <= max

\* clientSignatureEvidenceSchema: one text that is too long refuses it all.
Accepts ==
  /\ Within(device.text, TextMax)
  /\ Within(device.language, LanguageMax)
  /\ Within(device.timezone, TimezoneMax)
  /\ Within(device.userAgent, UserAgentMax)
  /\ Within(place.errorMessage, MessageMax)

Sign ==
  /\ verdict = "NONE"
  /\ \/ client = "old" /\ verdict' = "ACCEPTED"
     \/ /\ device # Nothing /\ place # Nothing
        /\ verdict' = IF Accepts THEN "ACCEPTED" ELSE "REFUSED"
  /\ UNCHANGED <<client, geocoding, device, place, recorded>>

\* The service answers with a name of the place, without one, not in time, or
\* with an error; nothing of it stops the signature.
GeocodingStatus(answer) == IF answer = "named" THEN "RESOLVED" ELSE "FAILED"

Coordinates == client # "old" /\ place.coordinates

\* normalizeClientSignatureEvidence, in performSign.
NormalizeEvidence ==
  /\ verdict = "ACCEPTED" /\ recorded = Nothing
  /\ \E answer \in {"named", "nameless", "error"} :
       LET asked == Coordinates /\ geocoding
       IN recorded' =
            [status |-> IF client = "old" THEN "UNSUPPORTED" ELSE place.status,
             coordinates |-> Coordinates,
             address |-> asked /\ answer = "named",
             geocodingStatus |->
               CASE asked -> GeocodingStatus(answer)
                 [] Coordinates /\ ~geocoding -> "DISABLED"
                 [] OTHER -> "NOT_REQUESTED"]
  /\ UNCHANGED <<client, geocoding, device, place, verdict>>

----------------------------------------------------------------------------
ClientNext ==
  \/ PortalDevice \/ PortalPlace \/ PhonePlace \/ PhoneDevice
  \/ Sign \/ NormalizeEvidence

ClientSpec == ClientInit /\ [][ClientNext]_clientVars

----------------------------------------------------------------------------
(***************************************************************************)
(* No device stands in the way of a signature: what the portal collects is *)
(* accepted, wherever and on whatever it runs, and the phone is refused    *)
(* for nothing but a message of an error that it has not cut.  And what is *)
(* recorded holds together: a place is captured when it has coordinates,   *)
(* is then looked up if that is enabled, and is resolved when it has an    *)
(* address.                                                                *)
(***************************************************************************)
EvidenceNeverBlocks ==
  /\ verdict = "REFUSED" =>
       /\ client = "phone" /\ place.status = "ERROR"
       /\ place.errorMessage > MessageMax
  /\ recorded # Nothing =>
       /\ recorded.status = "CAPTURED" <=> recorded.coordinates
       /\ recorded.geocodingStatus = "NOT_REQUESTED" <=> ~recorded.coordinates
       /\ recorded.geocodingStatus = "RESOLVED" <=> recorded.address
=============================================================================
