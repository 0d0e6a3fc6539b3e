------------------------------- MODULE RiskTable -------------------------------
(***************************************************************************)
(* What kind of change carries what risk (src/src/diff/risk.rs): facts to  *)
(* levels, with one table for each kind of dependency and each side of a   *)
(* tool's contract.                                                        *)
(***************************************************************************)
EXTENDS Integers, FiniteSetsExt

NoRisk == 0
Low == 1
Medium == 2
High == 3
Critical == 4

\* The risk of a change is that of its worst part.
MaxRisk(risks) == Max(risks \union {NoRisk})

PromptRisk == [FormattingOnly |-> Low, TextChanged |-> Medium, Added |-> Medium, Removed |-> High]

ModelRisk ==
    [Added |-> High, Removed |-> Critical, ContentDigestChanged |-> Critical,
     ProviderChanged |-> Critical, FamilyChanged |-> Critical,
     ParameterSizeChanged |-> Critical, QuantizationChanged |-> High,
     EndpointChanged |-> High, IdentityOtherChanged |-> High, ParamsChanged |-> Medium,
     TemplateChanged |-> High, ToolsCapabilityAdded |-> High,
     ToolsCapabilityRemoved |-> Critical, CapabilityAdded |-> Medium,
     CapabilityRemoved |-> High, CapabilitiesChanged |-> High]

ToolRisk ==
    [Added |-> High, Removed |-> High, DescriptionChanged |-> Medium,
     DescriptionFormattingOnly |-> Low, CapabilityAdded |-> Medium,
     CapabilityRemoved |-> High, DestructiveToolAdded |-> Critical]

McpRisk ==
    [Added |-> High, Removed |-> High, ProtocolChanged |-> High, ServerInfoChanged |-> Medium,
     IdentityOtherChanged |-> High, InstructionsChanged |-> Medium,
     InstructionsFormattingOnly |-> Low]

InputRisk ==
    [RequiredAdded |-> Critical, RequiredRemoved |-> Medium, PropertyRemoved |-> High,
     OptionalPropertyAdded |-> Low, TypeChanged |-> Critical, EnumNarrowed |-> High,
     EnumExpanded |-> Medium, DescriptionChanged |-> Medium,
     AdditionalPropertiesTightened |-> High, AdditionalPropertiesLoosened |-> Medium,
     Generic |-> High]

OutputRisk ==
    [RequiredAdded |-> Medium, RequiredRemoved |-> Critical, PropertyRemoved |-> High,
     OptionalPropertyAdded |-> Low, TypeChanged |-> High, EnumNarrowed |-> High,
     EnumExpanded |-> Medium, DescriptionChanged |-> Medium,
     AdditionalPropertiesTightened |-> High, AdditionalPropertiesLoosened |-> Medium,
     Generic |-> High]

SchemaFact == DOMAIN InputRisk

KindMismatch == Critical

Added ==
    [prompt |-> PromptRisk.Added, model |-> ModelRisk.Added, tool |-> ToolRisk.Added,
     mcp |-> McpRisk.Added]

Removed ==
    [prompt |-> PromptRisk.Removed, model |-> ModelRisk.Removed, tool |-> ToolRisk.Removed,
     mcp |-> McpRisk.Removed]

Kind == DOMAIN Added

SchemaFacet == {"input_schema", "output_schema"}

FacetAdded(name) == IF name \in SchemaFacet THEN High ELSE Medium

FacetRemoved == High

UnknownFacet(name) == IF name \in SchemaFacet THEN High ELSE Medium
================================================================================
