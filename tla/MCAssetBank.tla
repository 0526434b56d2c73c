----------------------------- MODULE MCAssetBank -----------------------------
EXTENDS AssetBank

CONSTANTS ax, bx, d, readme  \* paths
CONSTANTS texture, atlas     \* types
CONSTANTS x, y               \* base names

\* Two textures with the same base name, an atlas and a file of no type.
MCFiles == {ax, bx, d, readme}
MCOrder == <<texture, atlas>>
MCTypeOf == [f \in MCFiles |-> CASE f = d -> atlas [] f = readme -> Nil [] OTHER -> texture]
MCBaseName == [f \in MCFiles |-> IF f \in {ax, bx} THEN x ELSE y]
=============================================================================
