---------------------------- MODULE PlatformAuth ----------------------------
(***************************************************************************)
(* Who accepts which credentials: the validation of the Platform controller   *)
(* (renovateplatform_controller.go), which makes a Platform Ready, and the    *)
(* client factory of the Run controller (platform_factory.go), which decides   *)
(* whether a Run of that Platform gets anywhere.                               *)
(***************************************************************************)
EXTENDS Naturals

CONSTANT SecretNames    \* Secrets of the operator's namespace

(* What of a Platform's spec the validation looks at.  The CRD wants exactly    *)
(* one kind of auth and the name of a Secret, and a token for a forgejo.       *)
AuthType ==
    {s \in [platformType : {"github", "forgejo"}, auth : {"githubApp", "token"}, ref : SecretNames] :
        s.platformType = "forgejo" => s.auth = "token"}

(* A Secret that is not there, lacks the key (or has it empty), holds a line of *)
(* text, an RSA key in PEM, or a PKCS8 key of another kind in PEM.             *)
Contents == {"absent", "noKey", "text", "rsaKey", "otherKey"}

(* A base URL that does not parse; the CRD takes any text.                     *)
NotAURL == "not a URL"

(* Reasons of the Ready condition; "Unknown" before the first reconcile.       *)
Reasons == {"Unknown", "CredentialsResolved", "SecretNotFound", "KeyMissing", "AuthFailed"}

(* A GitHub App's key must be PEM, of any kind that PKCS8 knows; any token      *)
(* will do.                                                                    *)
validateAuthMaterial(s, content) == s.auth = "githubApp" => content \in {"rsaKey", "otherKey"}

(* What the Platform's reconcile concludes from a spec and the Secrets.        *)
Conclusion(s, secrets) ==
    CASE secrets[s.ref] = "absent" -> "SecretNotFound"
      [] secrets[s.ref] = "noKey"  -> "KeyMissing"
      [] OTHER -> IF validateAuthMaterial(s, secrets[s.ref])
                  THEN "CredentialsResolved" ELSE "AuthFailed"

(* Does the factory make a client, given the Secret?  GitHub wants an App,     *)
(* although the CRD and the validation also take a token, and the transport of *)
(* an App an RSA key.  A Forgejo token goes into a header, which is one line.  *)
ClientAccepted(s, content) ==
    /\ s.baseURL # NotAURL
    /\ \/ s.platformType = "github" /\ s.auth = "githubApp" /\ content = "rsaKey"
       \/ s.platformType = "forgejo" /\ s.auth = "token" /\ content = "text"
=============================================================================
