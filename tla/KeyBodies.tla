----------------------------- MODULE KeyBodies -----------------------------
(***************************************************************************)
(* What POST /keys makes of its body before the key manager sees it: the   *)
(* controller (key_controller.go) and the transformation of the API key    *)
(* (api/transform/key), which asks the keystore plugin of the provider.    *)
(*                                                                         *)
(* An operator yields the set of sentinels of the error it returns, {}     *)
(* where it succeeds.  An absent optional field is FALSE, a present one    *)
(* TRUE.  The plugin's answers are part of the input: ValidateKey answers  *)
(* valid, invalid or error; ValidateKeyAccessData also "status" for the    *)
(* status StatusInvalidKeyAccessData; ExtractKeyRegion a region, an empty  *)
(* one or an error.                                                        *)
(***************************************************************************)
EXTENDS Naturals, Sequences, FiniteSets

Types4   == {"BYOK", "HYOK", "OTHER", ""}
Bodies   == [Name : BOOLEAN, Type : Types4, KeyConfigurationID : BOOLEAN,
             Provider : {"", "known", "unknown"}, Region : BOOLEAN, Algorithm : BOOLEAN,
             NativeID : BOOLEAN, AccessDetails : BOOLEAN]
Answers  == {"valid", "invalid", "error"}
Plugins  == [ValidateKey : Answers, ValidateKeyAccessData : Answers \cup {"status"},
             ExtractKeyRegion : {"region", "", "error"}, Default : BOOLEAN]

(* The error of the first check that fails. *)
FirstError(checks) ==
    LET failing == {i \in DOMAIN checks : checks[i].fails}
    IN  IF failing = {} THEN {}
        ELSE checks[CHOOSE i \in failing : \A j \in failing : i <= j].err

Check(fails, err) == [fails |-> fails, err |-> err]

(* PluginProviderTransformer *)
ValidateAPI(p) ==
    CASE p.ValidateKey = "error"   -> {"transformer.ErrValidateKey"}
      [] p.ValidateKey = "invalid" -> {"transformer.ErrValidateKey", "transformer.ErrGRPCValidateKey"}
      [] OTHER -> {}

ValidateKeyAccessData(p) ==
    CASE p.ValidateKeyAccessData = "status" ->
             {"transformer.ErrSerializeKeyAccessData", "transformer.ErrGRPCInvalidAccessData"}
      [] p.ValidateKeyAccessData \in {"error", "invalid"} -> {"transformer.ErrSerializeKeyAccessData"}
      [] OTHER -> {}

SerializeKeyAccessData(p) == ValidateKeyAccessData(p)

GetRegion(p) ==
    IF p.ExtractKeyRegion = "region" THEN {}
    ELSE {"transformer.ErrExtractKeyRegion", "transformer.ErrGRPCValidateKey"}

(* byok.FromCmkAPIKey: isAPIKeyValid joins all it finds wrong. *)
isAPIKeyValid(b) ==
    (IF b.Provider = "" THEN {"keyshared.ErrProviderIsRequired"} ELSE {})
    \cup (IF b.Region THEN {} ELSE {"keyshared.ErrRegionIsRequired"})
    \cup (IF b.Algorithm THEN {} ELSE {"keyshared.ErrAlgorithmIsRequired"})
    \cup (IF b.NativeID THEN {"transform.ErrAPIUnexpectedProperty"} ELSE {})

BYOKFromCmkAPIKey(b, p) ==
    IF isAPIKeyValid(b) # {} THEN isAPIKeyValid(b) ELSE ValidateAPI(p)

HYOKFromCmkAPIKey(b, p) ==
    FirstError(<<
        Check(~ b.NativeID, {"hyokkey.ErrNativeIDIsRequired"}),
        Check(b.Provider = "", {"keyshared.ErrProviderIsRequired"}),
        Check(b.Region, {"transform.ErrAPIUnexpectedProperty"}),
        Check(b.Algorithm, {"transform.ErrAPIUnexpectedProperty"}),
        Check(~ b.AccessDetails, {"hyokkey.ErrAccessDetailsIsRequired"}),
        Check(SerializeKeyAccessData(p) # {},
              {"hyokkey.ErrTransformAccessData"} \cup SerializeKeyAccessData(p)),
        Check(GetRegion(p) # {}, GetRegion(p)) >>)

getKeyModel(b, p) ==
    CASE b.Type = "BYOK" -> BYOKFromCmkAPIKey(b, p)
      [] b.Type = "HYOK" -> HYOKFromCmkAPIKey(b, p)
      [] OTHER -> {"key.ErrInvalidKeyType"}

FromAPI(b, p) ==
    FirstError(<<
        Check(~ b.Name, {"ErrNameFieldMissingProperty"}),
        Check(b.Type = "", {"ErrTypeFieldMissingProperty"}),
        Check(~ b.KeyConfigurationID, {"ErrKeyConfigurationFieldMissingProperty"}),
        Check(getKeyModel(b, p) # {}, {"keyshared.ErrFromAPI"} \cup getKeyModel(b, p)) >>)

(* PostKeys up to the call of KeyManager.Create: a HYOK key names its      *)
(* provider, another key gets the default one.                             *)
WithProvider(b) == [b EXCEPT !.Provider = IF @ = "" THEN "known" ELSE @]

MutantPostKeys(b, p) ==
    FirstError(<<
        Check(b.Provider = "" /\ ~ p.Default, {"ErrDefaultKeystoreNotFound"}),
        Check(b.Provider = "unknown", {"keyshared.ErrInvalidKeyProvider"}),
        Check(FromAPI(WithProvider(b), p) # {}, FromAPI(WithProvider(b), p)) >>)

PostKeys(b, p) ==
    FirstError(<<
        Check(b.Provider = "" /\ b.Type = "HYOK",
              {"ErrTransformKeyFromAPI", "keyshared.ErrProviderIsRequired"}),
        Check(b.Provider = "" /\ ~ p.Default, {"ErrDefaultKeystoreNotFound"}),
        Check(b.Provider = "unknown", {"ErrTransformKeyFromAPI", "keyshared.ErrInvalidKeyProvider"}),
        Check(FromAPI(WithProvider(b), p) # {},
              {"ErrTransformKeyFromAPI"} \cup FromAPI(WithProvider(b), p)) >>)

=============================================================================
