----------------------------- MODULE MCLockOrder ----------------------------
EXTENDS LockOrder, TLC

\* Custom functions that call the bundle whose message they are called for, and
\* an iterator that formats in a bundle.
OwnBundleCalls == [l \in Locks |-> IF l = Localization THEN {BundleFormat(1)}
                                    ELSE {BundleFormat(l), BundleWrite(l)}]

\* Custom functions that format through the localization.
ChainCalls == [l \in Locks |-> {ChainFormat(b) : b \in Bundles}]
=============================================================================
