-------------------------------- MODULE AMI --------------------------------
(***************************************************************************)
(* Which release is the recommended one: ResolveLatestAMI, buildSSMPath    *)
(* and isAL2 of internal/awsutils/aws_helpers.go.  An SSM parameter path   *)
(* is named by the AMI family it publishes; the Kubernetes version in it   *)
(* is the cluster's own, so only the minor matters.                        *)
(***************************************************************************)
EXTENDS Integers

\* AMI types EKS reports for a nodegroup: the five the code names and one
\* that it does not (it stands for Bottlerocket, Windows, NVIDIA, ...).
AmiTypes == {"AL2_X86_64", "AL2_ARM_64", "AL2023_X86_64_STANDARD",
             "AL2023_ARM_64_STANDARD", "CUSTOM", "BOTTLEROCKET_X86_64"}

Family == {"al2", "al2-arm64", "al2023-x86", "al2023-arm64"}
NoFamily == "none"

\* The first minor for which AWS publishes no AL2 AMI (1.33).
AL2UnsupportedMinorCutoff == 33

isAL2(amiType) == amiType \in {"AL2_X86_64", "AL2_ARM_64"}

\* The parameter path read for an AMI type; NoFamily is isCustom = true.
buildSSMPath(amiType, minor) ==
  CASE amiType = "AL2_X86_64" -> "al2"
    [] amiType = "AL2_ARM_64" -> "al2-arm64"
    [] amiType = "AL2023_X86_64_STANDARD" -> "al2023-x86"
    [] amiType = "AL2023_ARM_64_STANDARD" -> "al2023-arm64"
    [] amiType = "CUSTOM" -> NoFamily
    [] OTHER -> IF minor >= AL2UnsupportedMinorCutoff THEN "al2023-x86" ELSE "al2"

\* ErrAL2UnsupportedOnCluster, decided before SSM is asked.
AL2Unsupported(amiType, minor) ==
  isAL2(amiType) /\ minor >= AL2UnsupportedMinorCutoff

\* The release version ResolveLatestAMI returns when it returns no error:
\* `published` gives the release SSM publishes for each family, and a CUSTOM
\* nodegroup gets `empty`, the empty string, without a call.
ResolvedRelease(amiType, minor, published, empty) ==
  LET family == buildSSMPath(amiType, minor)
  IN  IF family = NoFamily THEN empty ELSE published[family]
=============================================================================
