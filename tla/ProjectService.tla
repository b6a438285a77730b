---------------------------- MODULE ProjectService ----------------------------
(***************************************************************************)
(* NovelProjectService (shared/novelProject/service.ts): what it asks of   *)
(* the ids it is given before it lets a repository write.  An operation    *)
(* whose checks fail throws and changes nothing, so it is not enabled.     *)
(***************************************************************************)
EXTENDS ProjectTables

\* requireProject; requireEntity and assertProjectOwnership of the getters.
RequireProject(p) == p \in Projects
Owns(p, kind, i) == i \in LiveOf(kind, p)

CreateProject(selected) == InsertProject(selected)
SelectProject(p) == RequireProject(p) /\ Select(p)
UpdateProject(p) == RequireProject(p) /\ SetProject(p)
DeleteProject(p) == RequireProject(p) /\ current # p /\ DropProject(p)

UpdateProjectConfig(p) == RequireProject(p) /\ SaveConfig(p)

GetCharacter(p, i) == Owns(p, "character", i)
CrushSlugAvailable(p, from, i) == from = Own \/ CrushOwner(p, from) \subseteq {i}
CreateCharacter(p, from) ==
  RequireProject(p) /\ CrushSlugAvailable(p, from, 0) /\ InsertCharacter(p, from)
UpdateCharacter(p, i, from) ==
  GetCharacter(p, i) /\ CrushSlugAvailable(p, from, i) /\ SetCharacter(i, from)
DeleteCharacter(p, i) == GetCharacter(p, i) /\ DropCharacter(i)

\* An old crush becomes a character: the one named, the one it became before,
\* or a new one.
MapCrushToCharacter(p, from, named) ==
  /\ RequireProject(p)
  /\ LET known == IF named = 0 THEN CrushOwner(p, from) ELSE {named}
     IN \/ \E i \in known : UpdateCharacter(p, i, from)
        \/ known = {} /\ CreateCharacter(p, from)

GetWorldviewEntry(p, i) == Owns(p, "worldview", i)
CreateWorldviewEntry(p) == RequireProject(p) /\ InsertWorldviewEntry(p)
UpdateWorldviewEntry(p, i) == GetWorldviewEntry(p, i) /\ SetWorldviewEntry(i)
DeleteWorldviewEntry(p, i) == GetWorldviewEntry(p, i) /\ DropWorldviewEntry(i)

GetOrganization(p, i) == Owns(p, "organization", i)
CreateOrganization(p) == RequireProject(p) /\ InsertOrganization(p)
UpdateOrganization(p, i) == GetOrganization(p, i) /\ SetOrganization(i)
DeleteOrganization(p, i) == GetOrganization(p, i) /\ DropOrganization(i)

GetRelation(p, i) == Owns(p, "relation", i)
CreateRelation(p, a, b) == RequireProject(p) /\ InsertRelation(p, a, b)
UpdateRelation(p, i, a, b) == GetRelation(p, i) /\ SetRelation(i, a, b)
DeleteRelation(p, i) == GetRelation(p, i) /\ DropRelation(i)

OptionalCharacterOwned(p, c) == c = 0 \/ GetCharacter(p, c)
GetSourceMaterial(p, i) == Owns(p, "material", i)
CreateSourceMaterial(p, c, from) ==
  RequireProject(p) /\ OptionalCharacterOwned(p, c) /\ InsertMaterial(p, c, from)
UpdateSourceMaterial(p, i, c) ==
  GetSourceMaterial(p, i) /\ OptionalCharacterOwned(p, c) /\ SetMaterial(i, c)
DeleteSourceMaterial(p, i) == GetSourceMaterial(p, i) /\ DropMaterial(i)

\* A fragment is imported once; it belongs to the character of its crush unless
\* the user names another.
CreateSourceMaterialFromFragment(p, from, named, c) ==
  /\ RequireProject(p) /\ FragmentOwner(p, from) = {}
  /\ IF named THEN CreateSourceMaterial(p, c, from)
     ELSE IF CrushOwner(p, from) = {} THEN CreateSourceMaterial(p, 0, from)
     ELSE \E i \in CrushOwner(p, from) : CreateSourceMaterial(p, i, from)

\* The materials a prompt or an outline may cite.
SelectSourceMaterials(p, ms) == RequireProject(p) /\ \A m \in ms : GetSourceMaterial(p, m)

GetVolume(p, i) == Owns(p, "volume", i)
CreateVolume(p) == RequireProject(p) /\ InsertVolume(p)
UpdateVolume(p, i) == GetVolume(p, i) /\ SetVolume(i)
DeleteVolume(p, i) == GetVolume(p, i) /\ DropVolume(i)

VolumeOf(i) == CHOOSE v \in Linked(i, "volume") : TRUE
GetVolumeOutline(p, i) == Owns(p, "volume outline", i) /\ GetVolume(p, VolumeOf(i))
CreateVolumeOutline(p, v, ms) ==
  GetVolume(p, v) /\ SelectSourceMaterials(p, ms) /\ InsertVolumeOutline(p, v, ms)
\* Without a list of materials the update keeps the ids it has, unread.
UpdateVolumeOutline(p, i, listed, ms) ==
  /\ GetVolumeOutline(p, i)
  /\ IF listed THEN SelectSourceMaterials(p, ms) /\ SetVolumeOutline(i, ms)
     ELSE SetVolumeOutline(i, Linked(i, "cites"))
DeleteVolumeOutline(p, i) == GetVolumeOutline(p, i) /\ DropVolumeOutline(i)
ChangeVolumeOutlineStatus(p, i, to) ==
  GetVolumeOutline(p, i) /\ SetVolumeOutlineStatus(i, to)

GetChapterOutline(p, i) == Owns(p, "chapter outline", i) /\ GetVolume(p, VolumeOf(i))
CreateChapterOutline(p, v, ms) ==
  GetVolume(p, v) /\ SelectSourceMaterials(p, ms) /\ InsertChapterOutline(p, v, ms)
UpdateChapterOutline(p, i, v, listed, ms) ==
  /\ GetChapterOutline(p, i) /\ GetVolume(p, v)
  /\ IF listed THEN SelectSourceMaterials(p, ms) /\ SetChapterOutline(i, v, ms)
     ELSE SetChapterOutline(i, v, Linked(i, "cites"))
DeleteChapterOutline(p, i) == GetChapterOutline(p, i) /\ DropChapterOutline(i)
ChangeChapterOutlineStatus(p, i, to) ==
  GetChapterOutline(p, i) /\ SetChapterOutlineStatus(i, to)

=============================================================================
